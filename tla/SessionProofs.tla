--------------------------- MODULE SessionProofs ---------------------------
(* Theorems about one session, for any goroutines of the node that use it, *)
(* any capacity of its send channel and any number of messages.            *)
EXTENDS Session, TLAPS

-----------------------------------------------------------------------------
(* The send channel.                                                       *)

ChannelInv ==
  /\ {sendCh, shut, panicked} \subseteq BOOLEAN
  /\ ~panicked /\ (sendCh => ~shut)

\* The channel is closed only in a critical section that also resets s.sendCh,
\* so whoever finds it set finds the channel open.
LEMMA ChannelKeeps ==
  ASSUME ChannelInv, [Next]_vars
  PROVE  ChannelInv'
<1> USE DEF ChannelInv
<1>1. ASSUME NEW t \in Threads, NEW op, NEW frame, sendFrame(t, op, frame) PROVE ChannelInv'
  <2>1. CASE sendCh /\ roomInSendCh
    <3>1. panicked' = (panicked \/ shut) /\ UNCHANGED <<sendCh, shut>>
      BY <1>1, <2>1 DEF sendFrame
    <3>2. QED
      BY <2>1, <3>1
  <2>2. CASE sendCh /\ ~roomInSendCh
    <3>1. shut' = TRUE /\ sendCh' = FALSE /\ panicked' = (panicked \/ shut)
      BY <1>1, <2>2 DEF sendFrame
    <3>2. QED
      BY <2>2, <3>1
  <2>3. CASE ~sendCh
    BY <1>1, <2>3 DEF sendFrame, chanVars
  <2>4. QED
    BY <2>1, <2>2, <2>3
<1>2. ASSUME NEW t \in Threads, closeCh(t) PROVE ChannelInv'
  BY <1>2 DEF closeCh, noChannel
<1>3. ASSUME UNCHANGED <<sendCh, shut, panicked>> PROVE ChannelInv'
  BY <1>3
<1>4. ASSUME NEW t \in Threads, Operation(t) PROVE ChannelInv'
  BY <1>1, <1>2, <1>3, <1>4
     DEF Operation, disconnectFromNode, nodeDisconnect, connClose, close, stopTimer, chanVars
<1>5. CASE Authenticate \/ setConnected \/ Serve \/ ReadMessage \/ ReadGarbage \/ ReadError
  BY <1>3, <1>5
     DEF Authenticate, setConnected, Serve, ReadMessage, ReadGarbage, ReadError, chanVars
<1>6. CASE WriterStep \/ PingStep
  BY <1>3, <1>6 DEF WriterStep, WriterStart, WriterWrite, WriterFail, WriterEnd, PingStep,
                    PingDue, PingWrite, PingFail, addPing, chanVars
<1>7. CASE (\E p \in Peers : Use(p)) \/ ClientLeaves \/ UNCHANGED vars
  BY <1>3, <1>7 DEF Use, ClientLeaves, vars, chanVars
<1>8. QED
  BY <1>4, <1>5, <1>6, <1>7 DEF Next

\* No goroutine closes a closed channel or sends on one.
THEOREM NeverPanics == Spec => []NoPanic
<1>1. Init => ChannelInv
  BY DEF Init, ChannelInv
<1>2. ChannelInv /\ [Next]_vars => ChannelInv'
  BY ChannelKeeps
<1>3. ChannelInv => NoPanic
  BY DEF ChannelInv, NoPanic
<1>4. QED
  BY <1>1, <1>2, <1>3, PTL DEF Spec

-----------------------------------------------------------------------------
(* Telling the node.                                                       *)

Specials == {"node", "setConnected"}
Has(t, op) == \E i \in DOMAIN todo[t] : todo[t][i] = op

TodoOK ==
  /\ todo \in [Threads -> Seq(Ops)] /\ told \in Nat
  /\ connected \in BOOLEAN /\ known \in BOOLEAN

\* The two operations the argument is about come first in their lists.
Lists ==
  /\ \A t \in Threads : \A i \in DOMAIN todo[t] : todo[t][i] \in Specials => i = 1
  /\ \A t \in Threads : Has(t, "setConnected") => t = "auth" /\ ~known

\* A goroutine gets a new list only when it has finished the one before.
Owners ==
  /\ auth = "rpc" => todo["auth"] = <<>> /\ ~known
  /\ todo["writer"] # <<>> => writer = "done"
  /\ todo["ping"] # <<>> => ping = "idle" /\ ~timer
  /\ ping # "idle" => ~timer

\* Whoever resets s.Connected has to tell the node, once.
Duty ==
  /\ connected => known /\ told = 0 /\ \A t \in Threads : ~Has(t, "node")
  /\ ~known => told = 0
  /\ \A t \in Threads : Has(t, "node") => known /\ told = 0
  /\ \A t, u \in Threads : Has(t, "node") /\ Has(u, "node") => t = u
  /\ known /\ ~connected => told = 1 \/ \E t \in Threads : Has(t, "node")
  /\ told \in {0, 1}

ToldInv == TodoOK /\ Lists /\ Owners /\ Duty

\* The names of the goroutines.
LEMMA ThreadNames ==
  /\ {"auth", "reader", "writer", "ping"} \subseteq Threads /\ Peers \subseteq Threads
  /\ \A p \in Peers : p \notin {"auth", "reader", "writer", "ping"}
BY SessionAssumption DEF Threads

\* Going on with ops leaves no special operation in a list but those of ops.
LEMMA Advance ==
  ASSUME TodoOK, Lists, NEW t \in Threads, NEW op, Doing(t, op), NEW ops \in Seq(Ops),
         Continue(t, ops)
  PROVE  /\ todo' \in [Threads -> Seq(Ops)]
         /\ \A u \in Threads \ {t} : todo'[u] = todo[u]
         /\ \A i \in DOMAIN todo'[t] :
              todo'[t][i] \in Specials => i \in DOMAIN ops /\ todo'[t][i] = ops[i]
         /\ ops # <<>> => 1 \in DOMAIN todo'[t] /\ todo'[t][1] = ops[1]
         /\ todo[t] # <<>>
<1>1. todo[t] \in Seq(Ops) /\ todo[t] # <<>> /\ Tail(todo[t]) \in Seq(Ops)
  BY DEF TodoOK, Doing
<1>2. todo' = [todo EXCEPT ![t] = ops \o Tail(todo[t])]
  BY DEF TodoOK, Continue
<1>3. ops \o Tail(todo[t]) \in Seq(Ops)
  BY <1>1
<1>4. todo'[t] = ops \o Tail(todo[t])
  BY <1>2 DEF TodoOK
<1>5. ASSUME NEW i \in DOMAIN todo'[t], todo'[t][i] \in Specials
      PROVE  i \in DOMAIN ops /\ todo'[t][i] = ops[i]
  <2>1. i \in 1..(Len(ops) + Len(todo[t]) - 1)
    BY <1>1, <1>4
  <2>2. CASE i <= Len(ops)
    BY <1>1, <1>4, <2>1, <2>2
  <2>3. CASE i > Len(ops)
    <3>1. i - Len(ops) + 1 \in DOMAIN todo[t] /\ i - Len(ops) + 1 # 1
      BY <1>1, <2>1, <2>3
    <3>2. todo'[t][i] = todo[t][i - Len(ops) + 1]
      BY <1>1, <1>4, <2>1, <2>3
    <3>3. QED
      BY <1>5, <3>1, <3>2 DEF Lists
  <2>4. QED
    BY <2>1, <2>2, <2>3
<1>6. ops # <<>> => 1 \in DOMAIN todo'[t] /\ todo'[t][1] = ops[1]
  BY <1>1, <1>4
<1>7. QED
  BY <1>1, <1>2, <1>3, <1>5, <1>6 DEF TodoOK

\* A step that neither adds nor removes a special operation, nor changes what
\* the node knows, preserves the invariant.
LEMMA Frame ==
  ASSUME ToldInv, UNCHANGED nodeVars, todo' \in [Threads -> Seq(Ops)], Owners',
         \A t \in Threads : \A i \in DOMAIN todo'[t] : todo'[t][i] \in Specials =>
           i \in DOMAIN todo[t] /\ todo'[t][i] = todo[t][i],
         \A t \in Threads : Has(t, "node") => Has(t, "node")'
  PROVE  ToldInv'
<1>1. UNCHANGED <<connected, known, told>>
  BY DEF nodeVars
<1>2. TodoOK'
  BY <1>1 DEF ToldInv, TodoOK
<1>3. \A t \in Threads : Has(t, "node")' <=> Has(t, "node")
  BY DEF Has, Specials
<1>4. \A t \in Threads : Has(t, "setConnected")' => Has(t, "setConnected")
  BY DEF Has, Specials
<1>5. Lists'
  BY <1>1, <1>4 DEF ToldInv, Lists
<1>6. Duty'
  BY <1>1, <1>3 DEF ToldInv, Duty
<1>7. QED
  BY <1>2, <1>5, <1>6 DEF ToldInv

\* An operation other than the two special ones, followed by ops.
LEMMA PlainKeeps ==
  ASSUME ToldInv, NEW t \in Threads, NEW op, op \notin Specials, Doing(t, op),
         NEW ops \in Seq(Ops), \A i \in DOMAIN ops : ops[i] \notin Specials,
         Continue(t, ops), UNCHANGED <<nodeVars, auth, writer, ping>>, timer' => timer
  PROVE  ToldInv'
<1>1. TodoOK /\ Lists /\ Owners
  BY DEF ToldInv
<1>2. /\ todo' \in [Threads -> Seq(Ops)]
      /\ \A u \in Threads \ {t} : todo'[u] = todo[u]
      /\ \A i \in DOMAIN todo'[t] : todo'[t][i] \notin Specials
      /\ todo[t] # <<>>
  BY <1>1, Advance
<1>3. ~Has(t, "node")
  <2>1. todo[t] \in Seq(Ops) /\ todo[t] # <<>> /\ todo[t][1] = op
    BY <1>1 DEF TodoOK, Doing
  <2>2. QED
    BY <1>1, <2>1 DEF Lists, Has, Specials
<1>4. \A u \in Threads : Has(u, "node") => Has(u, "node")'
  BY <1>2, <1>3 DEF Has
<1>5. Owners'
  <2>1. known' = known
    BY DEF nodeVars
  <2>2. QED
    BY <1>1, <1>2, <2>1, ThreadNames DEF Owners
<1>6. QED
  BY <1>2, <1>4, <1>5, Frame

\* A goroutine with nothing to do gets a new list.
LEMMA FreshKeeps ==
  ASSUME ToldInv, NEW t \in Threads, todo[t] = <<>>,
         NEW ops \in Seq(Ops), \A i \in DOMAIN ops : ops[i] \notin Specials,
         todo' = [todo EXCEPT ![t] = ops], UNCHANGED nodeVars,
         auth' = "rpc" => auth = "rpc" /\ t # "auth",
         t = "writer" => writer' = "done", writer = "done" => writer' = "done",
         t = "ping" => ping' = "idle" /\ ~timer', t # "ping" => UNCHANGED <<ping, timer>>
  PROVE  ToldInv'
<1>1. /\ todo' \in [Threads -> Seq(Ops)]
      /\ \A u \in Threads \ {t} : todo'[u] = todo[u]
      /\ todo'[t] = ops
  BY DEF ToldInv, TodoOK
<1>2. \A u \in Threads : Has(u, "node") => Has(u, "node")'
  BY <1>1 DEF Has
<1>3. Owners'
  <2>1. known' = known
    BY DEF nodeVars
  <2>2. QED
    BY <1>1, <2>1, ThreadNames DEF ToldInv, Owners
<1>4. QED
  BY <1>1, <1>2, <1>3, Frame

\* The lists stay as they are.
LEMMA SameLists ==
  ASSUME ToldInv, UNCHANGED <<todo, nodeVars>>, Owners'
  PROVE  ToldInv'
<1>1. \A u \in Threads : Has(u, "node") => Has(u, "node")'
  BY DEF Has
<1>2. QED
  BY <1>1, Frame DEF ToldInv, TodoOK

\* The critical section of disconnectFromNode hands the duty to one goroutine.
LEMMA FromNodeKeeps ==
  ASSUME ToldInv, NEW t \in Threads, disconnectFromNode(t)
  PROVE  ToldInv'
<1>1. /\ TodoOK /\ Lists /\ Owners /\ Duty
      /\ Doing(t, "fromNode") /\ connected' = FALSE
      /\ UNCHANGED <<known, told, auth, writer, ping, timer>>
  BY DEF ToldInv, disconnectFromNode, afterDisconnect, pcVars
<1>2. CASE ~connected
  <2>1. Continue(t, <<>>) /\ UNCHANGED nodeVars
    BY <1>1, <1>2 DEF disconnectFromNode, afterDisconnect, nodeVars, TodoOK
  <2>2. <<>> \in Seq(Ops) /\ DOMAIN <<>> = {} /\ "fromNode" \notin Specials
    BY DEF Specials
  <2>3. UNCHANGED <<nodeVars, auth, writer, ping>> /\ (timer' => timer)
    BY <1>1, <2>1
  <2>4. QED
    BY <1>1, <2>1, <2>2, <2>3, PlainKeeps
<1>3. CASE connected
  <2> DEFINE ops == <<"node">>
  <2>1. ops \in Seq(Ops) /\ Continue(t, ops) /\ DOMAIN ops = {1} /\ ops[1] = "node"
    BY <1>3 DEF disconnectFromNode, Ops
  <2>2. /\ todo' \in [Threads -> Seq(Ops)]
        /\ \A u \in Threads \ {t} : todo'[u] = todo[u]
        /\ \A i \in DOMAIN todo'[t] : todo'[t][i] \in Specials => i = 1 /\ todo'[t][i] = "node"
        /\ 1 \in DOMAIN todo'[t] /\ todo'[t][1] = "node" /\ todo[t] # <<>>
    <3> HIDE DEF ops
    <3>1. ops # <<>>
      BY <2>1
    <3>2. QED
      BY <1>1, <2>1, <3>1, Advance
  <2>3. \A u \in Threads : Has(u, "node")' <=> u = t
    BY <1>1, <1>3, <2>2 DEF Has, Duty
  <2>4. \A u \in Threads : Has(u, "setConnected")' => Has(u, "setConnected")
    BY <2>2 DEF Has, Specials
  <2>5. TodoOK'
    BY <1>1, <2>2 DEF TodoOK
  <2>6. Lists'
    BY <1>1, <2>2, <2>4 DEF Lists
  <2>7. Owners'
    BY <1>1, <2>2, ThreadNames DEF Owners
  <2>8. Duty'
    BY <1>1, <1>3, <2>3 DEF Duty
  <2>9. QED
    BY <2>5, <2>6, <2>7, <2>8 DEF ToldInv
<1>4. QED
  BY <1>2, <1>3

\* node.Disconnect discharges it.
LEMMA NodeKeeps ==
  ASSUME ToldInv, NEW t \in Threads, nodeDisconnect(t)
  PROVE  ToldInv'
<1>1. /\ TodoOK /\ Lists /\ Owners /\ Duty
      /\ Doing(t, "node") /\ Continue(t, <<>>) /\ told' = told + 1
      /\ UNCHANGED <<connected, known, auth, writer, ping, timer>>
  BY DEF ToldInv, nodeDisconnect, pcVars
<1>2. /\ todo' \in [Threads -> Seq(Ops)]
      /\ \A u \in Threads \ {t} : todo'[u] = todo[u]
      /\ \A i \in DOMAIN todo'[t] : todo'[t][i] \notin Specials
      /\ todo[t] # <<>>
  <2>1. <<>> \in Seq(Ops) /\ DOMAIN <<>> = {}
    OBVIOUS
  <2>2. QED
    BY <1>1, <2>1, Advance
<1>3. Has(t, "node")
  BY <1>1 DEF TodoOK, Doing, Has
<1>4. \A u \in Threads : ~Has(u, "node")'
  BY <1>1, <1>2, <1>3 DEF Duty, Has, Specials
<1>5. \A u \in Threads : Has(u, "setConnected")' => Has(u, "setConnected")
  BY <1>2 DEF Has, Specials
<1>6. TodoOK' /\ Lists'
  <2>1. TodoOK'
    BY <1>1, <1>2 DEF TodoOK
  <2>2. Lists'
    BY <1>1, <1>2, <1>5 DEF Lists
  <2>3. QED
    BY <2>1, <2>2
<1>7. Owners'
  BY <1>1, <1>2, ThreadNames DEF Owners
<1>8. Duty'
  BY <1>1, <1>3, <1>4 DEF Duty
<1>9. QED
  BY <1>6, <1>7, <1>8 DEF ToldInv

\* s.Connected is set once, before anybody can have told the node.
LEMMA SetConnectedKeeps ==
  ASSUME ToldInv, setConnected
  PROVE  ToldInv'
<1>1. /\ TodoOK /\ Lists /\ Owners /\ Duty /\ "auth" \in Threads
      /\ Doing("auth", "setConnected") /\ Continue("auth", <<>>)
      /\ connected' = TRUE /\ known' = TRUE /\ UNCHANGED <<told, auth, writer, ping, timer>>
  BY ThreadNames DEF ToldInv, setConnected, pcVars
<1>2. /\ todo' \in [Threads -> Seq(Ops)]
      /\ \A u \in Threads \ {"auth"} : todo'[u] = todo[u]
      /\ \A i \in DOMAIN todo'["auth"] : todo'["auth"][i] \notin Specials
      /\ todo["auth"] # <<>>
  <2>1. <<>> \in Seq(Ops) /\ DOMAIN <<>> = {}
    OBVIOUS
  <2>2. QED
    BY <1>1, <2>1, Advance
<1>3. ~known
  <2>1. Has("auth", "setConnected")
    BY <1>1 DEF TodoOK, Doing, Has
  <2>2. QED
    BY <1>1, <2>1 DEF Lists
<1>4. \A u \in Threads : ~Has(u, "node")' /\ ~Has(u, "setConnected")'
  BY <1>1, <1>2, <1>3 DEF Duty, Lists, Has, Specials
<1>5. TodoOK' /\ Lists'
  <2>1. TodoOK'
    BY <1>1, <1>2 DEF TodoOK
  <2>2. Lists'
    BY <1>1, <1>2, <1>4 DEF Lists
  <2>3. QED
    BY <2>1, <2>2
<1>6. Owners'
  BY <1>1, <1>2, ThreadNames DEF Owners
<1>7. Duty'
  BY <1>1, <1>3, <1>4 DEF Duty
<1>8. QED
  BY <1>5, <1>6, <1>7 DEF ToldInv

\* The lists of operations that goroutines are given hold no special operation,
\* except the one that Authenticate gives on success.
LEMMA PlainLists ==
  ASSUME NEW ops \in {<<>>, <<"text">>, <<"stopTimer">>, Disconnect, disconnectNow,
                      <<"text">> \o Disconnect, <<"text">> \o Disconnect \o <<"serve">>}
  PROVE  ops \in Seq(Ops) /\ \A i \in DOMAIN ops : ops[i] \notin Specials
<1> DEFINE Plain == Ops \ Specials
<1>1. {"text", "stopTimer", "serve", "fromNode", "sendClose", "close", "connClose", "closeCh"}
        \subseteq Plain
  BY DEF Ops, Specials
<1> HIDE DEF Plain
<1>2. {<<>>, <<"text">>, <<"stopTimer">>, <<"serve">>} \subseteq Seq(Plain)
  BY <1>1
<1>3. Disconnect \in Seq(Plain)
  BY <1>1 DEF Disconnect
<1>4. disconnectNow \in Seq(Plain)
  BY <1>1 DEF disconnectNow
<1>5. <<"text">> \o Disconnect \in Seq(Plain)
  BY <1>2, <1>3
<1>6. <<"text">> \o Disconnect \o <<"serve">> \in Seq(Plain)
  BY <1>2, <1>5
<1>7. ops \in Seq(Plain)
  BY <1>2, <1>3, <1>4, <1>5, <1>6
<1>8. QED
  BY <1>7 DEF Plain

\* The other operations.
LEMMA OperationKeeps ==
  ASSUME ToldInv, NEW t \in Threads, Operation(t)
  PROVE  ToldInv'
<1>1. ASSUME NEW op \in {"text", "sendClose"}, NEW frame, sendFrame(t, op, frame) PROVE ToldInv'
  <2>1. PICK ops \in {<<>>, Disconnect} : Continue(t, ops)
    BY <1>1 DEF sendFrame
  <2>2. Doing(t, op) /\ op \notin Specials /\ UNCHANGED <<nodeVars, auth, writer, ping, timer>>
    BY <1>1 DEF sendFrame, Specials, pcVars
  <2>3. QED
    BY <2>1, <2>2, PlainLists, PlainKeeps
<1>2. ASSUME connClose(t) \/ closeCh(t) \/ stopTimer(t) PROVE ToldInv'
  <2>1. Continue(t, <<>>) /\ UNCHANGED <<nodeVars, auth, writer, ping>> /\ (timer' => timer)
    BY <1>2 DEF connClose, closeCh, stopTimer, pcVars
  <2>2. PICK op \in {"connClose", "closeCh", "stopTimer"} : Doing(t, op)
    BY <1>2 DEF connClose, closeCh, stopTimer
  <2>3. op \notin Specials
    BY <2>2 DEF Specials
  <2>4. QED
    BY <2>1, <2>2, <2>3, PlainLists, PlainKeeps
<1>3. ASSUME close(t) PROVE ToldInv'
  <2>1. PICK ops \in {<<>>, <<"stopTimer">>} : Continue(t, ops)
    BY <1>3 DEF close
  <2>2. Doing(t, "close") /\ "close" \notin Specials /\ UNCHANGED <<nodeVars, auth, writer, ping, timer>>
    BY <1>3 DEF close, Specials, pcVars
  <2>3. QED
    BY <2>1, <2>2, PlainLists, PlainKeeps
<1>4. QED
  BY <1>1, <1>2, <1>3, FromNodeKeeps, NodeKeeps DEF Operation

\* Authenticate gives the operations of its three outcomes; only the first
\* sets s.Connected.
LEMMA AuthenticateKeeps ==
  ASSUME ToldInv, Authenticate
  PROVE  ToldInv'
<1>1. /\ auth = "rpc" /\ auth' = "done" /\ todo["auth"] = <<>> /\ ~known /\ "auth" \in Threads
      /\ UNCHANGED <<nodeVars, writer, ping, timer>>
  BY ThreadNames DEF Authenticate, ToldInv, Owners
<1>2. CASE \E ops \in {<<"text">> \o Disconnect \o <<"serve">>, Disconnect} :
             todo' = [todo EXCEPT !["auth"] = ops]
  <2>1. PICK ops \in {<<"text">> \o Disconnect \o <<"serve">>, Disconnect} :
               todo' = [todo EXCEPT !["auth"] = ops]
    BY <1>2
  <2>2. ops \in Seq(Ops) /\ \A i \in DOMAIN ops : ops[i] \notin Specials
    BY PlainLists
  <2>3. QED
    BY <1>1, <2>1, <2>2, FreshKeeps
<1>3. CASE todo' = [todo EXCEPT !["auth"] = <<"setConnected", "text", "serve">>]
  <2>1. /\ TodoOK /\ Lists /\ Owners /\ Duty
        /\ UNCHANGED <<connected, known, told>>
    BY <1>1 DEF ToldInv, nodeVars
  <2>2. /\ todo' \in [Threads -> Seq(Ops)]
        /\ \A u \in Threads \ {"auth"} : todo'[u] = todo[u]
        /\ todo'["auth"] = <<"setConnected", "text", "serve">>
    BY <1>1, <1>3, <2>1 DEF TodoOK, Ops
  <2>3. \A u \in Threads : Has(u, "node")' <=> Has(u, "node")
    <3>1. ~Has("auth", "node")
      BY <1>1 DEF Has
    <3>2. ~Has("auth", "node")'
      BY <2>2 DEF Has
    <3>3. QED
      BY <2>2, <3>1, <3>2 DEF Has
  <2>4. TodoOK'
    BY <2>1, <2>2 DEF TodoOK
  <2>5. Lists'
    <3>1. \A i \in DOMAIN todo'["auth"] : todo'["auth"][i] \in Specials => i = 1
      BY <2>2 DEF Specials
    <3>2. \A u \in Threads \ {"auth"} : Has(u, "setConnected")' <=> Has(u, "setConnected")
      BY <2>2 DEF Has
    <3>3. QED
      BY <1>1, <2>1, <2>2, <3>1, <3>2 DEF Lists
  <2>6. Owners'
    BY <1>1, <2>1, <2>2, ThreadNames DEF Owners
  <2>7. Duty'
    BY <2>1, <2>3 DEF Duty
  <2>8. QED
    BY <2>4, <2>5, <2>6, <2>7 DEF ToldInv
<1>4. QED
  BY <1>2, <1>3 DEF Authenticate

\* The reader, the writer, the ping and the peers get new lists.
LEMMA OthersKeep ==
  ASSUME ToldInv, \/ Serve \/ ReadMessage \/ ReadGarbage \/ ReadError \/ WriterStep \/ PingStep
                  \/ (\E p \in Peers : Use(p)) \/ ClientLeaves \/ UNCHANGED vars
  PROVE  ToldInv'
<1> USE ThreadNames
<1>1. TodoOK /\ Owners
  BY DEF ToldInv
<1>2. CASE Serve
  <2>1. /\ Doing("auth", "serve") /\ "serve" \notin Specials /\ Continue("auth", <<>>)
        /\ UNCHANGED <<nodeVars, auth, writer, ping, timer>>
    BY <1>2 DEF Serve, Specials
  <2>2. QED
    BY <2>1, PlainLists, PlainKeeps
<1>3. ASSUME NEW p \in Peers \cup {"reader"}, todo[p] = <<>>,
             NEW ops \in {<<"text">>, <<"text">> \o Disconnect, disconnectNow},
             todo' = [todo EXCEPT ![p] = ops], UNCHANGED <<nodeVars, auth, writer, ping, timer>>
      PROVE  ToldInv'
  <2>1. p \in Threads /\ p \notin {"auth", "writer", "ping"}
    OBVIOUS
  <2>2. ops \in Seq(Ops) /\ \A i \in DOMAIN ops : ops[i] \notin Specials
    BY PlainLists
  <2>3. QED
    BY <1>3, <2>1, <2>2, FreshKeeps
<1>4. CASE ReadMessage \/ ReadError
  BY <1>3, <1>4 DEF ReadMessage, ReadError, Reading, pcVars
<1>5. CASE \E p \in Peers : Use(p)
  BY <1>3, <1>5 DEF Use, pcVars
<1>6. CASE WriterFail \/ WriterEnd
  <2>1. /\ writer = "range" /\ writer' = "done" /\ todo' = [todo EXCEPT !["writer"] = disconnectNow]
        /\ UNCHANGED <<nodeVars, auth, ping, timer>>
    BY <1>6 DEF WriterFail, WriterEnd, deferred
  <2>2. todo["writer"] = <<>> /\ "writer" \in Threads
    BY <1>1, <2>1 DEF Owners
  <2>3. disconnectNow \in Seq(Ops) /\ \A i \in DOMAIN disconnectNow : disconnectNow[i] \notin Specials
    BY PlainLists
  <2>4. QED
    BY <2>1, <2>2, <2>3, FreshKeeps
<1>7. CASE PingFail
  <2>1. /\ ping = "write" /\ ping' = "idle" /\ todo' = [todo EXCEPT !["ping"] = Disconnect]
        /\ UNCHANGED <<nodeVars, auth, writer, timer>>
    BY <1>7 DEF PingFail, onPingError
  <2>2. todo["ping"] = <<>> /\ "ping" \in Threads /\ ~timer'
    BY <1>1, <2>1 DEF Owners
  <2>3. Disconnect \in Seq(Ops) /\ \A i \in DOMAIN Disconnect : Disconnect[i] \notin Specials
    BY PlainLists
  <2>4. QED
    BY <2>1, <2>2, <2>3, FreshKeeps
<1>8. CASE ReadGarbage \/ WriterStart \/ WriterWrite \/ ClientLeaves \/ UNCHANGED vars
  <2>1. UNCHANGED <<todo, nodeVars, auth, ping, timer>> /\ (writer = "done" => writer' = "done")
    <3>1. CASE ReadGarbage \/ WriterStart
      BY <3>1 DEF ReadGarbage, WriterStart
    <3>2. CASE WriterWrite \/ ClientLeaves
      BY <3>2 DEF WriterWrite, ClientLeaves, pcVars
    <3>3. CASE UNCHANGED vars
      BY <3>3 DEF vars, pcVars
    <3>4. QED
      BY <1>8, <3>1, <3>2, <3>3
  <2>2. Owners'
    BY <1>1, <2>1 DEF Owners, nodeVars
  <2>3. QED
    BY <2>1, <2>2, SameLists
<1>9. CASE PingDue \/ PingWrite \/ addPing
  <2>1. UNCHANGED <<todo, nodeVars, auth, writer>> /\ (ping # "idle" \/ timer)
    BY <1>9 DEF PingDue, PingWrite, addPing
  <2>2. todo["ping"] = <<>>
    BY <1>1, <2>1 DEF Owners
  <2>3. ping' # "idle" => ~timer'
    BY <1>1, <1>9 DEF Owners, PingDue, PingWrite, addPing
  <2>4. Owners'
    BY <1>1, <2>1, <2>2, <2>3 DEF Owners, nodeVars
  <2>5. QED
    BY <2>1, <2>4, SameLists
<1>10. QED
  BY <1>2, <1>4, <1>5, <1>6, <1>7, <1>8, <1>9 DEF WriterStep, PingStep

\* The invariant holds throughout.
LEMMA ToldInvariant == Spec => []ToldInv
<1>1. Init => ToldInv
  <2> SUFFICES ASSUME Init PROVE ToldInv
    OBVIOUS
  <2>1. \A t \in Threads : todo[t] = <<>> /\ DOMAIN todo[t] = {}
    BY DEF Init
  <2>2. TodoOK
    <3>1. <<>> \in Seq(Ops)
      OBVIOUS
    <3>2. QED
      BY <3>1 DEF Init, TodoOK
  <2>3. Lists /\ Owners
    BY <2>1, ThreadNames DEF Init, Lists, Owners, Has
  <2>4. Duty
    BY <2>1 DEF Init, Duty, Has
  <2>5. QED
    BY <2>2, <2>3, <2>4 DEF ToldInv
<1>2. ToldInv /\ [Next]_vars => ToldInv'
  BY OperationKeeps, AuthenticateKeeps, SetConnectedKeeps, OthersKeep DEF Next
<1>3. QED
  BY <1>1, <1>2, PTL DEF Spec

\* However many goroutines find an accepted session broken, exactly one tells
\* the node, and tells it once.
THEOREM NodeIsToldOnce == Spec => []ToldOnce
<1>1. ToldInv => ToldOnce
  <2> SUFFICES ASSUME ToldInv, known PROVE ToldOnce
    BY DEF ToldOnce
  <2>1. Duty /\ connected \in BOOLEAN
    BY DEF ToldInv, TodoOK
  <2>2. Pending("node") = {t \in Threads : Has(t, "node")}
    BY DEF Pending, Has
  <2>3. CASE connected
    BY <2>1, <2>2, <2>3 DEF Duty, ToldOnce
  <2>4. CASE ~connected /\ \E t \in Threads : Has(t, "node")
    <3>1. PICK t \in Threads : Has(t, "node")
      BY <2>4
    <3>2. Pending("node") = {t}
      BY <2>1, <2>2, <3>1 DEF Duty
    <3>3. QED
      BY <2>1, <2>4, <3>1, <3>2 DEF Duty, ToldOnce
  <2>5. CASE ~connected /\ ~\E t \in Threads : Has(t, "node")
    BY <2>1, <2>2, <2>5 DEF Duty, ToldOnce
  <2>6. QED
    BY <2>1, <2>3, <2>4, <2>5
<1>2. QED
  BY <1>1, ToldInvariant, PTL

-----------------------------------------------------------------------------
(* Types. Those of the lists, of s.Connected and of what the node knows    *)
(* are part of ToldInv.                                                    *)

BufferOK == buffer \in Seq({"text", "close"}) /\ Len(buffer) <= SendCap

PlacesOK ==
  /\ reader \in {"none", "reading", "done"} /\ auth \in {"rpc", "done"}
  /\ writer \in {"start", "range", "blocked", "done"} /\ ping \in {"idle", "write", "add"}
  /\ uses \in Nat

FlagsOK ==
  /\ sendCh \in BOOLEAN /\ shut \in BOOLEAN /\ panicked \in BOOLEAN
  /\ closed \in BOOLEAN /\ timer \in BOOLEAN
  /\ connClosed \in BOOLEAN /\ clientGone \in BOOLEAN

\* s.sendCh never holds more than its capacity.
LEMMA BufferKeeps ==
  ASSUME BufferOK, [Next]_vars
  PROVE  BufferOK'
<1>1. ASSUME buffer' = buffer PROVE BufferOK'
  BY <1>1 DEF BufferOK
<1>2. ASSUME NEW f \in {"text", "close"}, roomInSendCh, buffer' = Append(buffer, f) PROVE BufferOK'
  BY <1>2, SessionAssumption DEF BufferOK, roomInSendCh
<1>3. ASSUME buffer # <<>>, buffer' = Tail(buffer) PROVE BufferOK'
  BY <1>3, SessionAssumption DEF BufferOK
<1>4. ASSUME NEW t \in Threads, NEW op, NEW f \in {"text", "close"}, sendFrame(t, op, f)
      PROVE  BufferOK'
  BY <1>1, <1>2, <1>4 DEF sendFrame, chanVars
<1>5. ASSUME NEW t \in Threads, Operation(t) PROVE BufferOK'
  BY <1>1, <1>4, <1>5 DEF Operation, disconnectFromNode, nodeDisconnect, connClose, closeCh,
                          close, stopTimer, chanVars
<1>6. CASE Authenticate \/ setConnected \/ Serve \/ ReadMessage \/ ReadGarbage \/ ReadError
  BY <1>1, <1>6 DEF Authenticate, setConnected, Serve, ReadMessage, ReadGarbage, ReadError,
                    chanVars
<1>7. CASE WriterStep
  BY <1>1, <1>3, <1>7 DEF WriterStep, WriterStart, WriterWrite, WriterFail, WriterEnd, chanVars
<1>8. CASE PingStep \/ (\E p \in Peers : Use(p)) \/ ClientLeaves \/ UNCHANGED vars
  BY <1>1, <1>8 DEF PingStep, PingDue, PingWrite, PingFail, addPing, Use, ClientLeaves, vars,
                    chanVars
<1>9. QED
  BY <1>5, <1>6, <1>7, <1>8 DEF Next

\* The goroutines stay in places they have.
LEMMA PlacesKeep ==
  ASSUME PlacesOK, [Next]_vars
  PROVE  PlacesOK'
<1> USE DEF PlacesOK
<1>1. ASSUME UNCHANGED <<pcVars, uses>> PROVE PlacesOK'
  BY <1>1 DEF pcVars
<1>2. ASSUME NEW t \in Threads, Operation(t) PROVE PlacesOK'
  BY <1>1, <1>2 DEF Operation, disconnectFromNode, nodeDisconnect, sendFrame, connClose, closeCh,
                    close, stopTimer
<1>3. CASE Authenticate \/ setConnected \/ Serve
  BY <1>3 DEF Authenticate, setConnected, Serve, pcVars
<1>4. CASE ReadMessage \/ ReadGarbage \/ ReadError \/ \E p \in Peers : Use(p)
  BY <1>4 DEF ReadMessage, ReadGarbage, ReadError, Use, pcVars
<1>5. CASE WriterStep
  BY <1>5 DEF WriterStep, WriterStart, WriterWrite, WriterFail, WriterEnd, pcVars
<1>6. CASE PingStep
  BY <1>6 DEF PingStep, PingDue, PingWrite, PingFail, addPing, pcVars
<1>7. CASE ClientLeaves \/ UNCHANGED vars
  BY <1>1, <1>7 DEF ClientLeaves, vars
<1>8. QED
  BY <1>2, <1>3, <1>4, <1>5, <1>6, <1>7 DEF Next

\* The flags stay truth values.
LEMMA FlagsKeep ==
  ASSUME FlagsOK, [Next]_vars
  PROVE  FlagsOK'
<1> USE DEF FlagsOK
<1>1. ASSUME UNCHANGED <<sendCh, shut, panicked, closed, timer, connClosed, clientGone>>
      PROVE  FlagsOK'
  BY <1>1
<1>2. ASSUME NEW t \in Threads, NEW op, NEW f, sendFrame(t, op, f) PROVE FlagsOK'
  <2>1. UNCHANGED <<closed, timer, connClosed, clientGone>>
    BY <1>2 DEF sendFrame, connVars
  <2>2. sendCh' \in BOOLEAN /\ shut' \in BOOLEAN /\ panicked' \in BOOLEAN
    BY <1>2 DEF sendFrame, chanVars
  <2>3. QED
    BY <2>1, <2>2
<1>3. ASSUME NEW t \in Threads, closeCh(t) PROVE FlagsOK'
  BY <1>3 DEF closeCh, noChannel, connVars
<1>4. ASSUME NEW t \in Threads, connClose(t) \/ close(t) \/ stopTimer(t) PROVE FlagsOK'
  BY <1>4 DEF connClose, close, stopTimer, chanVars, connVars
<1>5. ASSUME NEW t \in Threads, disconnectFromNode(t) \/ nodeDisconnect(t) PROVE FlagsOK'
  BY <1>1, <1>5 DEF disconnectFromNode, nodeDisconnect, chanVars, connVars
<1>6. CASE \/ Authenticate \/ setConnected \/ Serve \/ ReadMessage \/ ReadGarbage \/ ReadError
           \/ \E p \in Peers : Use(p)
  BY <1>1, <1>6 DEF Authenticate, setConnected, Serve, ReadMessage, ReadGarbage, ReadError, Use,
                    chanVars, connVars
<1>7. CASE WriterStart \/ WriterWrite \/ WriterEnd \/ PingWrite \/ PingFail \/ UNCHANGED vars
  BY <1>1, <1>7 DEF WriterStart, WriterWrite, WriterEnd, PingWrite, PingFail, vars,
                    chanVars, connVars
<1>8. CASE WriterFail
  BY <1>8 DEF WriterFail
<1>9. CASE PingDue \/ addPing
  BY <1>9 DEF PingDue, addPing, chanVars, connVars
<1>10. CASE ClientLeaves
  BY <1>10 DEF ClientLeaves, chanVars
<1>11. QED
  BY <1>2, <1>3, <1>4, <1>5, <1>6, <1>7, <1>8, <1>9, <1>10
     DEF Next, Operation, WriterStep, PingStep

\* The session's fields and its goroutines hold values of their types, and
\* s.sendCh never holds more than its capacity.
THEOREM TypeCorrect == Spec => []TypeOK
<1> DEFINE Fields == BufferOK /\ PlacesOK /\ FlagsOK
<1>1. Init => Fields
  <2>1. Init => BufferOK
    BY SessionAssumption DEF Init, BufferOK
  <2>2. Init => PlacesOK
    BY DEF Init, PlacesOK
  <2>3. Init => FlagsOK
    BY DEF Init, FlagsOK
  <2>4. QED
    BY <2>1, <2>2, <2>3
<1>2. Fields /\ [Next]_vars => Fields'
  BY BufferKeeps, PlacesKeep, FlagsKeep
<1>3. Fields /\ ToldInv => TypeOK
  BY DEF BufferOK, PlacesOK, FlagsOK, ToldInv, TodoOK, TypeOK
<1> HIDE DEF Fields
<1>4. QED
  BY <1>1, <1>2, <1>3, ToldInvariant, PTL DEF Spec
=============================================================================
