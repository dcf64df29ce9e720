----------------------------- MODULE SessionEnv -----------------------------
(***************************************************************************)
(* The data of one session: its connection and channel states (s.env,      *)
(* common/common.go), its subscriptions, and the requests built from them  *)
(* (protocol/protocol.go, rpc/rpc.go) by the node's handlers.              *)
(*                                                                         *)
(* Three goroutines use it: the one that authenticates and then reads the  *)
(* client's commands, the worker of the disconnect queue that runs         *)
(* Node.DisconnectNow, and a caller of Session.MergeEnv. s.smu protects    *)
(* the data, but it is not taken everywhere: Perform and DisconnectNow     *)
(* encode their requests without it.                                       *)
(***************************************************************************)
EXTENDS Naturals, FiniteSets

CONSTANTS
  Channels,      \* subscription identifiers
  Conn,          \* stands for the connection, beside the channels
  Values,        \* values of state fields, beside the empty string
  Changes,       \* the <<connection, channel>> changes a reply may carry
  MaxCommands,   \* bound: commands of the client
  MaxRetries,    \* bound, per caller: repeated attempts of one call
  MaxMerges      \* bound: calls of MergeEnv

\* The application writes one field, the callers of MergeEnv another.
Keys == {"app", "own"}
Maps == Channels \cup {Conn}
Keep == "keep"     \* the reply does not mention the field

Change == (Values \cup {"", Keep}) \X (Values \cup {"", Keep})

ASSUME SessionEnvAssumption ==
  /\ Conn \notin Channels /\ "" \notin Values \cup Maps /\ Keep \notin Values
  /\ Changes \subseteq Change
  /\ MaxRetries \in [{"reader", "worker"} -> Nat] /\ {MaxCommands, MaxMerges} \subseteq Nat

VARIABLES
  env,            \* s.env: the fields of every map ("" is an absent one)
  subscriptions,  \* s.subscriptions
  smu,            \* holder of s.smu
  connected,      \* s.Connected
  reader, cmd,    \* the reader: where it is, and the command it handles
  reply,          \* the parsed reply
  worker, list,   \* DisconnectNow: where it is, and subscriptionsList's result
  merger,         \* the caller of MergeEnv
  message,        \* per caller: the request as encoded
  attempts,       \* per caller: repeated attempts, bounded by MaxRetries
  commands, merges,  \* bounded by MaxCommands and MaxMerges
  crashed,        \* the runtime has found a map used by two goroutines
  opened,         \* the application: channels it has subscribed the client to
  truth, listed,  \* history: what replies and merges add up to
  disturbed,      \* history, per caller: the data changed under its request
  excused         \* history: channels whose last Subscribe that the application
                  \* ran had its reply lost, or recorded after the listing

Callers == {"reader", "worker"}

dataVars == <<env, subscriptions>>
readerVars == <<reader, cmd, reply, commands>>
workerVars == <<worker, list>>
mergerVars == <<merger, merges>>
callVars == <<message, attempts>>
historyVars == <<truth, listed, disturbed, excused>>
vars == <<dataVars, smu, connected, readerVars, workerVars, mergerVars, callVars,
          crashed, opened, historyVars>>

Empty == [m \in Maps |-> [k \in Keys |-> ""]]

NoReply == [status |-> "SUCCESS", change |-> <<Keep, Keep>>]

\* NewSessionEnv and NewSession; Authenticate is about to call the controller.
Init ==
  /\ env = Empty /\ subscriptions = {} /\ smu = "free" /\ connected = FALSE
  /\ reader = "build" /\ cmd = [kind |-> "connect", channel |-> Conn]
  /\ reply = NoReply
  /\ worker = "none" /\ list = {} /\ merger = "idle"
  /\ message = [w \in Callers |-> Empty] /\ attempts = [w \in Callers |-> 0]
  /\ commands = 0 /\ merges = 0 /\ crashed = FALSE
  /\ opened = {} /\ truth = Empty /\ listed = {}
  /\ disturbed = [w \in Callers |-> FALSE] /\ excused = {}

-----------------------------------------------------------------------------
(* Maps shared without a lock.                                             *)

\* The maps a request carries: buildEnv, buildChannelEnv, buildDisconnectEnv.
Carries(w) == IF w = "worker" THEN Maps ELSE {Conn, cmd.channel}

Place(w) == IF w = "worker" THEN worker ELSE reader

\* Callers that are reading map m at this moment; a write may make the runtime
\* end the process.
Encoding(m) == {w \in Callers : Place(w) = "encode" /\ m \in Carries(w)}
\* The writes of this step, to the maps ms, race with those readers.
Races(ms) == crashed' \in {FALSE, \E m \in ms : Encoding(m) # {}}

\* A reply and the writes that follow it disturb the requests of the others.
Busy(w) == Place(w) \in {"list", "build", "encode", "sent"}
Unmerged(w) == merger = "channels" \/ (w # "reader" /\ reader \in {"record", "mergeI", "mergeC"})
Disturb == disturbed' = [w \in Callers |-> Busy(w)]

\* MergeConnectionState, MergeChannelState: one field of one map.
merged(old, new) == IF new = Keep THEN old ELSE new

Merge(data, m, k, new) == [data EXCEPT ![m][k] = merged(@, new)]

\* History: the same, as the application and the callers of MergeEnv mean it.
Meant(data, m, k, new) == IF new = Keep THEN data ELSE [data EXCEPT ![m][k] = new]

\* The request of w is over.
Discard(w) ==
  /\ message' = [message EXCEPT ![w] = Empty]
  /\ attempts' = [attempts EXCEPT ![w] = 0]

-----------------------------------------------------------------------------
(* The reader: Node.Subscribe, Unsubscribe and Perform.                    *)

Allowed(kind, ch) == (ch \in subscriptions) <=> (kind # "subscribe")

\* The lock when a command is refused.
\* Mutation: the early return keeps it.
kept == "reader"
unlocked == "free"

\* "Already subscribed" or "Unknown subscription".
Refuse(kind, ch) ==
  /\ reader = "idle" /\ smu = "free" /\ ~Allowed(kind, ch)
  /\ smu' = unlocked
  /\ UNCHANGED <<dataVars, connected, readerVars, workerVars, mergerVars, callVars,
                 crashed, opened, historyVars>>

\* Subscribe and Unsubscribe keep s.smu during the call, Perform does not.
Begin(kind, ch) ==
  /\ reader = "idle" /\ commands < MaxCommands /\ smu = "free" /\ Allowed(kind, ch)
  /\ commands' = commands + 1
  /\ cmd' = [kind |-> kind, channel |-> ch]
  /\ smu' = IF kind = "message" THEN "free" ELSE "reader"
  /\ reader' = "build"
  /\ UNCHANGED <<dataVars, connected, reply, workerVars, mergerVars, callVars, crashed, opened,
                 historyVars>>

\* Caller w goes on at pc.
Goto(w, pc) ==
  /\ reader' = IF w = "reader" THEN pc ELSE reader
  /\ worker' = IF w = "worker" THEN pc ELSE worker

\* An attempt of a call: the request refers to the session's own maps, which
\* nobody can change until it is encoded if the reader holds s.smu.
\* Mutation: it is built once, before the first attempt.
buildOnce(w) == [m \in Maps |-> IF m \notin Carries(w) THEN Empty[m]
                               ELSE IF attempts[w] > 0 THEN message[w][m] ELSE env[m]]
build(w) == [m \in Maps |-> IF m \in Carries(w) THEN env[m] ELSE Empty[m]]

Build(w) ==
  /\ Place(w) = "build"
  /\ message' = [message EXCEPT ![w] = build(w)]
  /\ disturbed' = [disturbed EXCEPT ![w] = (w = "worker" /\ @) \/ Unmerged(w)]
  /\ Goto(w, IF w = "reader" /\ smu = "reader" THEN "sent" ELSE "encode")
  /\ UNCHANGED <<dataVars, smu, connected, cmd, reply, commands, list, mergerVars, attempts,
                 crashed, opened, truth, listed, excused>>

\* gRPC has encoded it; what changed meanwhile may have been seen or not.
Overtaken(w) == {p \in Carries(w) \X Keys : message[w][p[1]][p[2]] # env[p[1]][p[2]]}
encoded(w, new) == [m \in Maps |-> [k \in Keys |->
                     IF <<m, k>> \in new THEN env[m][k] ELSE message[w][m][k]]]

Encoded(w) ==
  /\ Place(w) = "encode"
  /\ \E new \in SUBSET Overtaken(w) : message' = [message EXCEPT ![w] = encoded(w, new)]
  /\ Goto(w, "sent")
  /\ UNCHANGED <<dataVars, smu, connected, cmd, reply, commands, list, mergerVars, attempts,
                 crashed, opened, historyVars>>

\* The application runs the command of the reader.
Opened(status) ==
  CASE cmd.kind = "subscribe" /\ status = "SUCCESS" -> opened \cup {cmd.channel}
    [] cmd.kind = "unsubscribe" /\ status # "ERROR" -> opened \ {cmd.channel}
    [] OTHER -> opened

\* ParseConnectResponse, ParseCommandResponse: a failure is not an error.
error(status) == status = "ERROR"

\* s.subscriptions once the command is over.
\* Mutation: an unsubscribed channel is deleted whatever the reply.
deletedAnyway(subs, status) ==
  CASE cmd.kind = "subscribe" /\ ~error(status) -> subs \cup {cmd.channel}
    [] cmd.kind = "unsubscribe" -> subs \ {cmd.channel}
    [] OTHER -> subs
recorded(subs, status) ==
  CASE cmd.kind = "subscribe" /\ ~error(status) -> subs \cup {cmd.channel}
    [] cmd.kind = "unsubscribe" /\ ~error(status) -> subs \ {cmd.channel}
    [] OTHER -> subs

\* The reply arrives. ParseConnectResponse takes no channel state.
Answer(status, change) ==
  /\ reader = "sent"
  /\ opened' = Opened(status)
  /\ reply' = [status |-> status, change |-> change]
  /\ reader' = "record"
  /\ truth' = CASE cmd.kind # "connect" ->
                     Meant(Meant(truth, Conn, "app", change[1]), cmd.channel, "app", change[2])
                [] cmd.kind = "connect" /\ status # "ERROR" -> Meant(truth, Conn, "app", change[1])
                [] OTHER -> truth
  /\ listed' = CASE cmd.kind = "subscribe" /\ status # "ERROR" -> listed \cup {cmd.channel}
                 [] cmd.kind = "unsubscribe" /\ status # "ERROR" -> listed \ {cmd.channel}
                 [] OTHER -> listed
  /\ Discard("reader")
  /\ disturbed' = [w \in Callers |-> w = "worker" /\ Busy(w)]
  /\ UNCHANGED <<dataVars, smu, connected, cmd, commands, workerVars, mergerVars, crashed,
                 excused>>

\* A call fails. The application may have run it all the same. It is tried
\* again, or given up with no result, in which case nothing is recorded.
Lost(w) ==
  /\ Place(w) = "sent"
  /\ IF w = "reader"
     THEN \/ UNCHANGED <<opened, excused>>
          \/ opened' = Opened("SUCCESS")
             /\ excused' = IF cmd.kind = "subscribe" THEN excused \cup {cmd.channel} ELSE excused
     ELSE UNCHANGED excused /\ opened' \in {opened, opened \ list}
  /\ \/ /\ attempts[w] < MaxRetries[w]
        /\ attempts' = [attempts EXCEPT ![w] = @ + 1]
        /\ Goto(w, "build") /\ UNCHANGED <<smu, message>>
     \/ /\ Goto(w, IF w = "worker" THEN "failed"
                   ELSE IF cmd.kind = "connect" THEN "over" ELSE "idle")
        /\ smu' = IF w = "reader" /\ smu = "reader" THEN "free" ELSE smu
        /\ Discard(w)
  /\ disturbed' = [disturbed EXCEPT ![w] = w = "worker" /\ @]
  /\ UNCHANGED <<dataVars, connected, cmd, reply, commands, list, mergerVars, crashed, truth,
                 listed>>

\* Authenticate, Subscribe, Unsubscribe and Perform with the parsed reply, up
\* to handleCommandReply or handleCallReply.
Record ==
  /\ reader = "record"
  /\ subscriptions' = recorded(subscriptions, reply.status)
  /\ smu' = IF smu = "reader" THEN "free" ELSE smu
  /\ connected' = (connected \/ (cmd.kind = "connect" /\ reply.status = "SUCCESS"))
  /\ reader' = IF cmd.kind = "connect" THEN (IF error(reply.status) THEN "over" ELSE "mergeC")
               ELSE "mergeI"
  /\ crashed' \in {FALSE, worker = "list" /\ subscriptions' # subscriptions}
  /\ excused' = IF cmd.kind # "subscribe" \/ error(reply.status) THEN excused
                ELSE IF worker \in {"none", "queued"} THEN excused \ {cmd.channel}
                ELSE excused \cup {cmd.channel}
  /\ Disturb
  /\ UNCHANGED <<env, cmd, reply, commands, workerVars, mergerVars, callVars, opened, truth,
                 listed>>

\* handleCommandReply: the state of the command's channel, under s.smu.
MergeChannelState ==
  /\ reader = "mergeI" /\ smu = "free"
  /\ env' = Merge(env, cmd.channel, "app", reply.change[2])
  /\ Races(IF reply.change[2] = Keep THEN {} ELSE {cmd.channel})
  /\ reader' = "mergeC"
  /\ Disturb
  /\ UNCHANGED <<subscriptions, smu, connected, cmd, reply, commands, workerVars, mergerVars,
                 callVars, opened, truth, listed, excused>>

\* handleCallReply: the connection state.
MergeConnectionState ==
  /\ reader = "mergeC" /\ smu = "free"
  /\ env' = Merge(env, Conn, "app", reply.change[1])
  /\ Races(IF reply.change[1] = Keep THEN {} ELSE {Conn})
  /\ reader' = "idle" /\ reply' = NoReply
  /\ Disturb
  /\ UNCHANGED <<subscriptions, smu, connected, cmd, commands, workerVars, mergerVars,
                 callVars, opened, truth, listed, excused>>

-----------------------------------------------------------------------------
(* Session.MergeEnv, called by another goroutine of the process, which got *)
(* the session from Node.LookupSession. It is exported, and no code of the *)
(* repository but session_test.go calls it.                                *)

\* The connection state, then the channel states, with s.smu held.
MergeEnvConnection(v) ==
  /\ connected /\ merger = "idle" /\ merges < MaxMerges /\ smu = "free"
  /\ merges' = merges + 1
  /\ smu' = "merger" /\ merger' = "channels"
  /\ env' = Merge(env, Conn, "own", v)
  /\ truth' = Meant(truth, Conn, "own", v)
  /\ Races({Conn})
  /\ Disturb
  /\ UNCHANGED <<subscriptions, connected, readerVars, workerVars, callVars, opened, listed,
                 excused>>

MergeEnvChannel(ch, v) ==
  /\ merger = "channels"
  /\ smu' = "free" /\ merger' = "idle"
  /\ env' = Merge(env, ch, "own", v)
  /\ truth' = Meant(truth, ch, "own", v)
  /\ Races({ch})
  /\ Disturb
  /\ UNCHANGED <<subscriptions, connected, readerVars, workerVars, merges, callVars, opened,
                 listed, excused>>

-----------------------------------------------------------------------------
(* Node.DisconnectNow, on the worker of the disconnect queue.              *)

\* Any goroutine finds the session broken: node.Disconnect enqueues it.
Disconnect ==
  /\ connected
  /\ connected' = FALSE
  /\ worker' = "queued"
  /\ UNCHANGED <<dataVars, smu, readerVars, list, mergerVars, callVars, crashed, opened,
                 historyVars>>

\* subscriptionsList: the length of the map is read ...
ListLen ==
  /\ worker = "queued"
  /\ worker' = "list" /\ list' = subscriptions
  /\ disturbed' = [disturbed EXCEPT !["worker"] = Unmerged("worker")]
  /\ UNCHANGED <<dataVars, smu, connected, readerVars, mergerVars, callVars, crashed, opened, truth,
                 listed, excused>>

\* ... then its keys. Keys that came meanwhile may be seen or not; one too many
\* is out of range, and one that is missing leaves an empty identifier.
ListKeys ==
  /\ worker = "list"
  /\ \E seen \in SUBSET (list \cup subscriptions) :
       /\ list \cap subscriptions \subseteq seen
       /\ crashed' = (Cardinality(seen) > Cardinality(list))
       /\ list' = seen \cup (IF Cardinality(seen) < Cardinality(list) THEN {""} ELSE {})
  /\ worker' = "build"
  /\ UNCHANGED <<dataVars, smu, connected, readerVars, mergerVars, callVars, opened, historyVars>>

\* ParseDisconnectResponse.
DisconnectAnswer(status) ==
  /\ worker = "sent"
  /\ opened' = IF error(status) THEN opened ELSE opened \ list
  /\ worker' = IF error(status) THEN "failed" ELSE "told"
  /\ Discard("worker")
  /\ disturbed' = [disturbed EXCEPT !["worker"] = FALSE]
  /\ UNCHANGED <<dataVars, smu, connected, readerVars, list, mergerVars, crashed, truth, listed,
                 excused>>

-----------------------------------------------------------------------------
Statuses == {"SUCCESS", "FAILURE", "ERROR"}
Kinds == {"subscribe", "unsubscribe", "message"}

\* What the goroutines and the RPC server do without being asked again.
Internal ==
  /\ ~crashed
  /\ \/ \E w \in Callers : Build(w) \/ Encoded(w) \/ Lost(w)
     \/ \E status \in Statuses :
          DisconnectAnswer(status) \/ \E change \in Changes : Answer(status, change)
     \/ Record \/ MergeChannelState \/ MergeConnectionState
     \/ \E ch \in Channels, v \in Values : MergeEnvChannel(ch, v)
     \/ ListLen \/ ListKeys

Next ==
  \/ Internal
  \/ /\ ~crashed
     /\ \/ \E kind \in Kinds, ch \in Channels : Refuse(kind, ch) \/ Begin(kind, ch)
        \/ \E v \in Values : MergeEnvConnection(v)
        \/ Disconnect

Spec == Init /\ [][Next]_vars

\* A ready goroutine goes on, and calls return (CallsReturn of RpcController).
FairSpec == Spec /\ WF_vars(Internal)

-----------------------------------------------------------------------------
(* Properties.                                                             *)

\* What a request carries is what the replies to the requests before it, failed
\* ones and retries included, and the merges add up to: the fields of the
\* application always for a command, everything for a request during which
\* nobody else used the session's data. The Disconnect request then also lists
\* exactly the channels the replies left subscribed.
StateCarried ==
  /\ reader = "sent" =>
       \A m \in Carries("reader") : message["reader"][m]["app"] = truth[m]["app"]
  /\ \A w \in Callers : Place(w) = "sent" /\ ~disturbed[w] =>
       \A m \in Carries(w) : message[w][m] = truth[m]
  /\ worker = "sent" /\ ~disturbed["worker"] => list = listed

\* Once the application has been told of the disconnect and the reader is at
\* rest, the application holds no subscription of the client. Excepted is one
\* that it opened in a Subscribe whose reply never came and that no later reply
\* confirmed, or whose reply was not recorded when DisconnectNow listed the
\* subscriptions: the reader may still be in a command, or take another one.
NoForgottenSubscription ==
  worker = "told" /\ reader \in {"idle", "over"} => opened \subseteq excused

\* Commands come to an end, and s.smu, held across calls and taken again by
\* handleCommandReply, is released, unless the runtime has ended the process
\* for two goroutines in one map.
CommandsReturn ==
  /\ (reader \notin {"idle", "over"}) ~> (reader \in {"idle", "over"} \/ crashed)
  /\ (smu # "free") ~> (smu = "free" \/ crashed)

=============================================================================
