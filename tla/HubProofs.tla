----------------------------- MODULE HubProofs -----------------------------
(* Theorems about the hub, for every value of its constants: the registry  *)
(* of sessions, then the index of streams, then broadcasts.                *)
EXTENDS Hub, TLAPS

\* The history variables keep their types whatever a step does.
LEMMA TrackTypes == HistoryTypeOK /\ Track => HistoryTypeOK'
  BY DEF HistoryTypeOK, Track, Wanted, Live, Triples

\* The elements of a concatenation of hub calls are those of its parts.
LEMMA ConcatParts ==
  ASSUME NEW S, NEW p \in Seq(S), NEW q \in Seq(S)
  PROVE  /\ p \o q \in Seq(S)
         /\ \A i \in DOMAIN (p \o q) :
              \/ i \in DOMAIN p /\ (p \o q)[i] = p[i]
              \/ \E k \in DOMAIN q : (p \o q)[i] = q[k]
         /\ \A i \in DOMAIN p : i \in DOMAIN (p \o q) /\ (p \o q)[i] = p[i]
<1>1. ASSUME NEW i \in DOMAIN (p \o q), i \notin DOMAIN p
      PROVE  \E k \in DOMAIN q : (p \o q)[i] = q[k]
  <2>1. i - Len(p) \in DOMAIN q /\ (p \o q)[i] = q[i - Len(p)]
    BY <1>1
  <2>2. QED
    BY <2>1
<1>2. QED
  BY <1>1

\* The calls made for the streams q of a reply.
LEMMA CallSeq ==
  ASSUME NEW ch \in Channels, NEW e \in {"add", "remove"}, NEW q \in Seq(Streams)
  PROVE  /\ callsFor(e, ch, q) \in Seq(Call) /\ DOMAIN callsFor(e, ch, q) = DOMAIN q
         /\ \A i \in DOMAIN q :
              /\ callsFor(e, ch, q)[i].event = e /\ callsFor(e, ch, q)[i].identifier = ch
              /\ callsFor(e, ch, q)[i].stream = q[i]
<1> DEFINE c == callsFor(e, ch, q)
<1>0. DOMAIN q = 1..Len(q) /\ Len(q) \in Nat /\ \A i \in DOMAIN q : q[i] \in Streams
  OBVIOUS
<1>1. c = [i \in 1..Len(q) |-> [event |-> e, identifier |-> ch, stream |-> q[i]]]
  BY DEF callsFor
<1> HIDE DEF c
<1>2. ASSUME NEW i \in 1..Len(q)
      PROVE  /\ c[i] \in [event : {"add", "remove"}, identifier : Channels, stream : Streams]
             /\ c[i].event = e /\ c[i].identifier = ch /\ c[i].stream = q[i]
  <2>1. c[i] = [event |-> e, identifier |-> ch, stream |-> q[i]]
    BY <1>1
  <2>2. q[i] \in Streams
    BY <1>0
  <2> DEFINE x == q[i]
  <2> HIDE DEF x
  <2>3. [event |-> e, identifier |-> ch, stream |-> x]
          \in [event : {"add", "remove"}, identifier : Channels, stream : Streams]
    BY <2>2 DEF x
  <2>4. QED
    BY <2>1, <2>3 DEF x
<1>3. c \in [1..Len(q) -> Call]
  BY <1>1, <1>2 DEF Call
<1> HIDE DEF Call
<1>4. c \in Seq(Call) /\ DOMAIN c = 1..Len(q)
  BY <1>0, <1>3
<1>5. QED
  BY <1>0, <1>2, <1>4 DEF c

\* A list of one call.
LEMMA OneCall ==
  ASSUME NEW c \in Call
  PROVE  <<c>> \in Seq(Call) /\ DOMAIN <<c>> = {1} /\ <<c>>[1] = c
OBVIOUS

\* A reply stops its streams, all of the channel's or some, ...
LEMMA StopCalls ==
  ASSUME NEW ch \in Channels, NEW r \in Reply
  PROVE  /\ stopCalls(ch, r) \in Seq(Call)
         /\ \A i \in DOMAIN stopCalls(ch, r) : stopCalls(ch, r)[i].event # "add"
         /\ \A s \in Sessions : \A t \in Stopped(s, ch, r) :
              \E i \in DOMAIN stopCalls(ch, r) : Covers(stopCalls(ch, r)[i], s, t)
<1> DEFINE stops == stopCalls(ch, r)
<1>1. CASE r.stopAll
  <2> DEFINE c == [event |-> "removeAll", identifier |-> ch, stream |-> Orphan]
  <2>1. c \in Call /\ c.event = "removeAll" /\ c.identifier = ch
    BY DEF Call
  <2>2. stops = <<c>>
    BY <1>1 DEF stopCalls
  <2> HIDE DEF c, stops
  <2>3. stops \in Seq(Call) /\ DOMAIN stops = {1} /\ stops[1] = c
    BY <2>1, <2>2, OneCall, Zenon
  <2>4. \A s \in Sessions : \A t \in Stopped(s, ch, r) : Covers(c, s, t)
    BY <2>1 DEF Stopped, Covers
  <2>5. \A i \in DOMAIN stops : stops[i] = c
    BY <2>3
  <2>6. \A s \in Sessions : \A t \in Stopped(s, ch, r) : \E i \in DOMAIN stops : Covers(stops[i], s, t)
    <3>1. 1 \in DOMAIN stops
      BY <2>3
    <3>2. QED
      BY <2>3, <2>4, <3>1, Zenon
  <2>7. c.event # "add"
    BY <2>1
  <2>8. QED
    BY <2>3, <2>5, <2>6, <2>7, Zenon DEF stops
<1>2. CASE ~r.stopAll
  <2>1. stops = callsFor("remove", ch, r.stopped)
    BY <1>2 DEF stopCalls
  <2>2. r.stopped \in Seq(Streams)
    BY DEF Reply
  <2> DEFINE q == r.stopped
  <2> HIDE DEF stops, q
  <2>3. /\ stops \in Seq(Call) /\ DOMAIN stops = DOMAIN q
        /\ \A i \in DOMAIN q :
             stops[i].event = "remove" /\ stops[i].identifier = ch /\ stops[i].stream = q[i]
    BY <2>1, <2>2, CallSeq DEF q
  <2>4. ASSUME NEW s \in Sessions, NEW t \in Stopped(s, ch, r)
        PROVE  \E i \in DOMAIN stops : Covers(stops[i], s, t)
    <3>1. t[2] = s /\ t[3] = ch /\ t[1] \in Range(q)
      BY <1>2, <2>4 DEF Stopped, q
    <3>2. PICK i \in DOMAIN q : t[1] = q[i]
      BY <3>1 DEF Range
    <3>3. Covers(stops[i], s, t)
      BY <2>3, <3>1, <3>2 DEF Covers
    <3>4. QED
      BY <2>3, <3>2, <3>3
  <2>5. \A i \in DOMAIN stops : stops[i].event # "add"
    BY <2>3
  <2>6. QED
    BY <2>3, <2>4, <2>5, Zenon DEF stops
<1>3. QED
  BY <1>1, <1>2

\* ... then starts some ...
LEMMA StartCalls ==
  ASSUME NEW ch \in Channels, NEW r \in Reply
  PROVE  /\ startCalls(ch, r) \in Seq(Call)
         /\ \A s \in Sessions : \A i \in DOMAIN startCalls(ch, r) :
              <<startCalls(ch, r)[i].stream, s, startCalls(ch, r)[i].identifier>> \in Started(s, ch, r)
<1> DEFINE adds == startCalls(ch, r)
           q == r.streams
<1>1. q \in Seq(Streams) /\ adds = callsFor("add", ch, q)
  BY DEF Reply, startCalls
<1> HIDE DEF adds, q
<1>2. /\ adds \in Seq(Call) /\ DOMAIN adds = DOMAIN q
      /\ \A i \in DOMAIN q : adds[i].identifier = ch /\ adds[i].stream = q[i]
  BY <1>1, CallSeq
<1>3. \A s \in Sessions : \A i \in DOMAIN q : <<q[i], s, ch>> \in Started(s, ch, r)
  BY DEF Started, Range, q
<1>4. QED
  BY <1>2, <1>3 DEF adds

\* ... and last may close the connection.
LEMMA CloseCalls ==
  ASSUME NEW ch \in Channels, NEW r \in Reply
  PROVE  /\ closeCalls(ch, r) \in Seq(Call)
         /\ \A i \in DOMAIN closeCalls(ch, r) : closeCalls(ch, r)[i].event # "add"
<1> DEFINE close == closeCalls(ch, r)
           c == [event |-> "disconnect", identifier |-> ch, stream |-> Orphan]
<1>1. c \in Call /\ c.event = "disconnect"
  BY DEF Call
<1>2. close = <<c>> \/ close = <<>>
  BY DEF closeCalls
<1> HIDE DEF c, close
<1>3. CASE close = <<c>>
  <2>1. close \in Seq(Call) /\ DOMAIN close = {1} /\ close[1] = c
    BY <1>1, <1>3, OneCall, Zenon
  <2>2. QED
    BY <1>1, <2>1 DEF close
<1>4. CASE close = <<>>
  <2>1. <<>> \in Seq(Call) /\ DOMAIN <<>> = {}
    OBVIOUS
  <2>2. QED
    BY <1>4, <2>1, Zenon DEF close
<1>5. QED
  BY <1>2, <1>3, <1>4

\* The hub calls of a reply are calls of the hub.
LEMMA HubCallsType ==
  ASSUME NEW ch \in Channels, NEW r \in Reply
  PROVE  hubCalls(ch, r) \in Seq(Call)
BY StopCalls, StartCalls, CloseCalls, ConcatParts, Zenon DEF hubCalls

\* Every step of a session, or of a command of its client, preserves the type
\* invariant.
LEMMA SessionStepTypes ==
  ASSUME TypeOK, NEW s \in Sessions, SessionStep(s)
  PROVE  TypeOK'
<1> USE DEF TypeOK
<1>1. CASE AuthenticateSuccess(s)
  BY <1>1, TrackTypes DEF AuthenticateSuccess, SessionsTypeOK, MapsTypeOK, ChannelsTypeOK,
     JobsTypeOK, hubSide, mapVars, registryVars, indexVars, channelVars, hubVars, jobVars, readerVars
<1>2. CASE addSession(s)
  <2>1. MapsTypeOK'
    BY <1>2, ConstantsAssumption DEF addSession, MapsTypeOK, indexVars
  <2>2. QED
    BY <1>2, <2>1, TrackTypes DEF addSession, SessionsTypeOK, ChannelsTypeOK,
       JobsTypeOK, channelVars, hubVars, jobVars, readerVars
<1>3. CASE AuthenticateFailure(s)
  BY <1>3, TrackTypes DEF AuthenticateFailure, SessionsTypeOK, MapsTypeOK, ChannelsTypeOK,
     JobsTypeOK, hubSide, mapVars, registryVars, indexVars, channelVars, hubVars, jobVars, readerVars
<1>4. CASE Drop(s)
  BY <1>4, TrackTypes DEF Drop, disconnectFromNode, SessionsTypeOK, MapsTypeOK, ChannelsTypeOK,
     JobsTypeOK, hubSide, mapVars, registryVars, indexVars, channelVars, hubVars, jobVars, readerVars
<1>5. CASE ReaderExit(s)
  BY <1>5, TrackTypes, Zenon DEF ReaderExit, disconnectFromNode, SessionsTypeOK, MapsTypeOK, ChannelsTypeOK,
     JobsTypeOK, hubSide, mapVars, registryVars, indexVars, channelVars, hubVars, jobVars, readerVars
<1>6. CASE RemoveSession(s)
  <2>1. ChannelsTypeOK'
    BY <1>6 DEF RemoveSession, ChannelsTypeOK
  <2>2. QED
    BY <1>6, <2>1, TrackTypes, Zenon DEF RemoveSession, SessionsTypeOK, MapsTypeOK,
       JobsTypeOK, mapVars, registryVars, indexVars, hubVars, jobVars, readerVars
<1>7. CASE subscribeSession(s)
  <2>1. Head(calls[s]) \in Call /\ Tail(calls[s]) \in Seq(Call)
    BY <1>7 DEF subscribeSession, SessionsTypeOK
  <2>2. Head(calls[s]).stream \in Streams /\ Head(calls[s]).identifier \in Channels
    BY <1>7, <2>1 DEF subscribeSession, SessionsTypeOK, Call
  <2>3. MapsTypeOK'
    BY <1>7, <2>2, SMTT(60) DEF subscribeSession, listAppended, MapsTypeOK, registryVars, Triples
  <2>4. QED
    BY <1>7, <2>1, <2>3, TrackTypes, Zenon DEF subscribeSession, SessionsTypeOK, ChannelsTypeOK,
       JobsTypeOK, channelVars, hubVars, jobVars, connVars
<1>8. CASE RemoveSubscription(s)
  <2>1. Head(calls[s]) \in Call /\ Tail(calls[s]) \in Seq(Call)
    BY <1>8 DEF RemoveSubscription, SessionsTypeOK
  <2>2. [session |-> s, call |-> Head(calls[s])] \in [session : Sessions, call : Call]
    BY <2>1
  <2>3. ChannelsTypeOK'
    <3> DEFINE R == [session : Sessions, call : Call]
               info == [session |-> s, call |-> Head(calls[s])]
    <3>1. subscribe' = Append(subscribe, info) /\ UNCHANGED <<register, broadcast, disconnect>>
      BY <1>8 DEF RemoveSubscription
    <3>2. subscribe \in Seq(R) /\ info \in R
      BY <2>2 DEF ChannelsTypeOK
    <3> HIDE DEF R, info
    <3>3. subscribe' \in Seq(R)
      BY <3>1, <3>2
    <3>4. QED
      BY <3>1, <3>3 DEF ChannelsTypeOK, R
  <2>4. QED
    BY <1>8, <2>1, <2>3, TrackTypes, Zenon DEF RemoveSubscription, SessionsTypeOK, MapsTypeOK,
       JobsTypeOK, mapVars, registryVars, indexVars, hubVars, jobVars, connVars
<1>9. CASE ReplyDisconnect(s)
  <2>1. Tail(calls[s]) \in Seq(Call)
    BY <1>9 DEF ReplyDisconnect, SessionsTypeOK
  <2>2. QED
    BY <1>9, <2>1, TrackTypes, Zenon DEF ReplyDisconnect, disconnectFromNode, SessionsTypeOK, MapsTypeOK,
       ChannelsTypeOK, JobsTypeOK, hubSide, mapVars, registryVars, indexVars, channelVars, hubVars, jobVars
<1>10. ASSUME NEW ch \in Channels, NEW r \in Reply, Command(s, ch, r),
              subscriptions' \in [Sessions -> SUBSET Channels]
       PROVE  TypeOK'
  <2>1. hubCalls(ch, r) \in Seq(Call)
    BY HubCallsType
  <2>2. intended' \subseteq Triples
    <3>1. \A st \in Range(r.streams) : st \in Streams
      BY DEF Range, Reply
    <3>2. Started(s, ch, r) \subseteq Triples
      BY <3>1 DEF Started, Triples
    <3>3. QED
      BY <1>10, <3>2 DEF Command, SessionsTypeOK
  <2>3. SessionsTypeOK'
    <3>1. calls' \in [Sessions -> Seq(Call)] /\ commands' \in Nat
      BY <1>10, <2>1 DEF Command, SessionsTypeOK
    <3>2. QED
      BY <1>10, <2>2, <3>1 DEF Command, SessionsTypeOK, connVars
  <2>4. QED
    BY <1>10, <2>3, TrackTypes DEF Command, MapsTypeOK, ChannelsTypeOK, JobsTypeOK,
       hubSide, mapVars, registryVars, indexVars, channelVars, hubVars, jobVars
<1>11. ASSUME NEW ch \in Channels, NEW r \in Replies,
              Subscribe(s, ch, r) \/ Unsubscribe(s, ch, r) \/ Perform(s, ch, r)
       PROVE  TypeOK'
  <2>1. r \in Reply /\ [r EXCEPT !.stopAll = TRUE] \in Reply
    BY ConstantsAssumption, Zenon DEF Reply
  <2>2. subscriptions' \in [Sessions -> SUBSET Channels]
    BY <1>11 DEF Subscribe, Unsubscribe, Perform, SessionsTypeOK
  <2>3. \E q \in Reply : Command(s, ch, q)
    BY <1>11, <2>1 DEF Subscribe, Unsubscribe, Perform
  <2>4. QED
    BY <1>10, <2>2, <2>3
<1>12. QED
  BY <1>1, <1>2, <1>3, <1>4, <1>5, <1>6, <1>7, <1>8, <1>9, <1>11 DEF SessionStep

\* What a receive from a channel, modelled as a sequence, leaves.
LEMMA HeadTail ==
  ASSUME NEW S, NEW q \in Seq(S), q # <<>>
  PROVE  Head(q) \in S /\ Tail(q) \in Seq(S)
OBVIOUS

\* Every step of Hub.Run preserves the type invariant.
LEMMA RunStepTypes ==
  ASSUME TypeOK, RunStep
  PROVE  TypeOK'
<1> USE DEF TypeOK
<1>1. ASSUME NEW s, NEW Cs, dropFromStreams(s, Cs)
      PROVE  /\ streams' \subseteq streams /\ streamSessions' \subseteq streamSessions
             /\ streamIds' \subseteq streamIds
  BY <1>1 DEF dropFromStreams, idsWithout, sessionsWithout, streamsWithout
<1>2. CASE RunSubscribe
  <2>1. Tail(subscribe) \in Seq([session : Sessions, call : Call])
    BY <1>2, HeadTail DEF RunSubscribe, ChannelsTypeOK
  <2>2. MapsTypeOK'
    BY <1>2, <1>1 DEF RunSubscribe, unsubscribeSessionFromChannel, unsubscribeSession,
       MapsTypeOK, registryVars
  <2>3. QED
    BY <1>2, <2>1, <2>2, TrackTypes, Zenon DEF RunSubscribe, SessionsTypeOK, ChannelsTypeOK,
       JobsTypeOK, sessionSide, connVars, readerVars, hubVars, jobVars
<1>3. CASE RunRegister
  <2>1. Head(register) \in Sessions /\ Tail(register) \in Seq(Sessions)
    BY <1>3 DEF RunRegister, ChannelsTypeOK
  <2>2. MapsTypeOK'
    BY <1>3, <1>1 DEF RunRegister, unsubscribeSessionFromAllChannels, MapsTypeOK,
       registryVars, indexVars
  <2>3. JobsTypeOK'
    BY <1>3, <2>1 DEF RunRegister, JobsTypeOK, hubVars, jobVars
  <2>4. QED
    BY <1>3, <2>1, <2>2, <2>3, TrackTypes DEF RunRegister, SessionsTypeOK, ChannelsTypeOK,
       sessionSide, connVars, readerVars
<1>4. CASE removeSession
  <2>1. MapsTypeOK'
    BY <1>4 DEF removeSession, identifiersWithout, MapsTypeOK, indexVars
  <2>2. JobsTypeOK'
    BY <1>4 DEF removeSession, JobsTypeOK
  <2>3. QED
    BY <1>4, <2>1, <2>2, TrackTypes DEF removeSession, SessionsTypeOK, ChannelsTypeOK,
       sessionSide, connVars, readerVars, channelVars
<1>5. CASE RunBroadcast
  <2>1. ChannelsTypeOK'
    BY <1>5 DEF RunBroadcast, ChannelsTypeOK
  <2>2. JobsTypeOK'
    BY <1>5 DEF RunBroadcast, JobsTypeOK, Stage
  <2>3. QED
    BY <1>5, <2>1, <2>2, TrackTypes DEF RunBroadcast, SessionsTypeOK, MapsTypeOK,
       sessionSide, connVars, readerVars, mapVars, registryVars, indexVars
<1>6. CASE RunDisconnect
  <2>1. ChannelsTypeOK'
    BY <1>6 DEF RunDisconnect, ChannelsTypeOK
  <2>2. JobsTypeOK'
    BY <1>6, Zenon DEF RunDisconnect, JobsTypeOK, Stage
  <2>3. QED
    BY <1>6, <2>1, <2>2, TrackTypes DEF RunDisconnect, SessionsTypeOK, MapsTypeOK,
       sessionSide, connVars, readerVars, mapVars, registryVars, indexVars
<1>7. ASSUME NEW j \in Jobs, RunSchedule(j) \/ (j \in Signals /\ RunShutdown(j))
      PROVE  TypeOK'
  <2>1. JobsTypeOK'
    BY <1>7 DEF RunSchedule, RunShutdown, JobsTypeOK, Stage
  <2>2. QED
    BY <1>7, <2>1, TrackTypes DEF RunSchedule, RunShutdown, SessionsTypeOK, MapsTypeOK,
       ChannelsTypeOK, sessionSide, connVars, readerVars, mapVars, registryVars, indexVars, channelVars
<1>8. QED
  BY <1>2, <1>3, <1>4, <1>5, <1>6, <1>7 DEF RunStep, Jobs

\* Every step of a pool task, of a termination signal or of a pub/sub message
\* preserves the type invariant.
LEMMA JobStepTypes ==
  ASSUME TypeOK, NEW j \in Jobs,
         \/ j \in Broadcasts /\ BroadcastStep(j)
         \/ j \in Commands /\ CommandStep(j)
         \/ j \in Signals /\ SignalStep(j)
         \/ Arrival
  PROVE  TypeOK'
<1> USE DEF TypeOK
<1>1. ASSUME NEW k \in Broadcasts, NEW st \in Streams, Broadcast(k, st)
      PROVE  TypeOK'
  <2>1. JobsTypeOK' /\ ChannelsTypeOK'
    BY <1>1, SMTT(60) DEF Broadcast, JobsTypeOK, ChannelsTypeOK, Stage, hubVars, Jobs
  <2>2. QED
    BY <1>1, <2>1, TrackTypes DEF Broadcast, SessionsTypeOK, MapsTypeOK, sessionSide,
       connVars, readerVars, mapVars, registryVars, indexVars
<1>2. ASSUME NEW k \in Commands, NEW id \in Idents, RemoteDisconnect(k, id)
      PROVE  TypeOK'
  <2>1. JobsTypeOK' /\ ChannelsTypeOK'
    BY <1>2, SMTT(60) DEF RemoteDisconnect, JobsTypeOK, ChannelsTypeOK, Stage, hubVars, Jobs
  <2>2. QED
    BY <1>2, <2>1, TrackTypes DEF RemoteDisconnect, SessionsTypeOK, MapsTypeOK,
       sessionSide, connVars, readerVars, mapVars, registryVars, indexVars
<1>3. ASSUME NEW k \in Jobs,
             \/ Shutdown(k) \/ ShutdownSize(k) \/ StartClosing(k) \/ StartBroadcast(k)
             \/ StartDisconnect(k) \/ Finish(k)
      PROVE  TypeOK'
  <2>1. /\ UNCHANGED <<sessionSide, mapVars, channelVars, hubVars, kick, sent, to>>
        /\ Track
        /\ at' \in [Jobs -> Stage]
    BY <1>3 DEF Shutdown, ShutdownSize, StartClosing, StartBroadcast, StartDisconnect,
       Finish, JobsTypeOK, Stage
  <2>2. /\ snapshot' \in [Jobs -> SUBSET (Sessions \X Channels)]
        /\ todo' \in [Jobs -> SUBSET Sessions]
    BY <1>3, ZenonT(60) DEF Shutdown, ShutdownSize, StartClosing, StartBroadcast, StartDisconnect,
       Finish, JobsTypeOK, MapsTypeOK, sessionsOf
  <2>3. JobsTypeOK'
    BY <2>1, <2>2 DEF JobsTypeOK, hubVars
  <2>4. QED
    BY <2>1, <2>3, TrackTypes DEF SessionsTypeOK, MapsTypeOK, ChannelsTypeOK, sessionSide,
       connVars, readerVars, mapVars, registryVars, indexVars, channelVars
<1>4. ASSUME NEW k \in Jobs, NEW s \in Sessions,
             (k \in Broadcasts /\ SendTo(k, s)) \/ Kick(k, s)
      PROVE  TypeOK'
  <2>1. connected' \in [Sessions -> BOOLEAN]
    BY <1>4, Zenon DEF SendTo, Kick, SessionsTypeOK
  <2>2. JobsTypeOK'
    <3>1. sent' \subseteq Broadcasts \X Sessions \X Channels
      <4>1. \A ch \in Channels : k \in Broadcasts => <<k, s, ch>> \in Broadcasts \X Sessions \X Channels
        OBVIOUS
      <4>2. CASE Kick(k, s)
        BY <4>2 DEF Kick, JobsTypeOK
      <4>3. CASE k \in Broadcasts /\ SendTo(k, s)
        <5> DEFINE new == {<<k, s, ch>> : ch \in {c \in Channels : <<s, c>> \in snapshot[k]}}
        <5>1. new \subseteq Broadcasts \X Sessions \X Channels
          BY <4>1, <4>3, Zenon
        <5>2. sent' = sent \cup new \/ sent' = sent
          BY <4>3, Zenon DEF SendTo
        <5>3. QED
          BY <5>1, <5>2, Zenon DEF JobsTypeOK
      <4>4. QED
        BY <1>4, <4>2, <4>3
    <3>2. todo' \in [Jobs -> SUBSET Sessions]
      <4>1. todo' = [todo EXCEPT ![k] = todo[k] \ {s}]
        BY <1>4, Zenon DEF SendTo, Kick, restAfter
      <4>2. todo \in [Jobs -> SUBSET Sessions]
        BY DEF JobsTypeOK
      <4>3. todo[k] \ {s} \in SUBSET Sessions
        BY <4>2
      <4>4. QED
        BY <4>1, <4>2, <4>3
    <3>3. kick' \in [Jobs -> Sessions \cup {NoSession}]
      BY <1>4 DEF SendTo, Kick, JobsTypeOK, disconnectIfConnected
    <3>4. QED
      BY <1>4, <3>1, <3>2, <3>3, Zenon DEF SendTo, Kick, JobsTypeOK, hubVars
  <2>3. QED
    BY <1>4, <2>1, <2>2, TrackTypes DEF SendTo, Kick, SessionsTypeOK, MapsTypeOK,
       ChannelsTypeOK, readerVars, mapVars, registryVars, indexVars, channelVars
<1>5. ASSUME NEW k \in Jobs, RemoveKicked(k)
      PROVE  TypeOK'
  <2>1. JobsTypeOK' /\ ChannelsTypeOK'
    BY <1>5, SMTT(60) DEF RemoveKicked, disconnecting, JobsTypeOK, ChannelsTypeOK, hubVars
  <2>2. QED
    BY <1>5, <2>1, TrackTypes DEF RemoveKicked, SessionsTypeOK, MapsTypeOK, sessionSide,
       connVars, readerVars, mapVars, registryVars, indexVars
<1>6. QED
  BY <1>1, <1>2, <1>3, <1>4, <1>5
  DEF Arrival, BroadcastStep, CommandStep, SignalStep, Jobs

\* The initial state has its type.
LEMMA InitTypes == Init => TypeOK
<1> SUFFICES ASSUME Init PROVE TypeOK
  OBVIOUS
<1>1. SessionsTypeOK /\ MapsTypeOK /\ ChannelsTypeOK
  BY DEF Init, SessionsTypeOK, MapsTypeOK, ChannelsTypeOK
<1>2. JobsTypeOK /\ HistoryTypeOK
  BY DEF Init, JobsTypeOK, HistoryTypeOK, Stage
<1>3. QED
  BY <1>1, <1>2 DEF TypeOK

\* The state of the sessions, of the hub's maps and channels, of Hub.Run and of
\* the pool tasks always has its type, whatever is connected, sent or shut down.
THEOREM TypeCorrect == Spec => []TypeOK
<1>1. TypeOK /\ [Next]_vars => TypeOK'
  <2> SUFFICES ASSUME TypeOK, [Next]_vars PROVE TypeOK'
    OBVIOUS
  <2>1. CASE Next
    <3>1. CASE Arrival
      BY <3>1, JobStepTypes DEF Arrival, Jobs
    <3>2. QED
      BY <2>1, <3>1, SessionStepTypes, RunStepTypes, JobStepTypes DEF Next, Jobs
  <2>2. CASE UNCHANGED vars
    <3>1. SessionsTypeOK' /\ MapsTypeOK' /\ ChannelsTypeOK'
      BY <2>2 DEF TypeOK, SessionsTypeOK, MapsTypeOK, ChannelsTypeOK, vars, sessionSide,
         connVars, readerVars, hubSide, mapVars, registryVars, indexVars, channelVars
    <3>2. JobsTypeOK' /\ HistoryTypeOK'
      BY <2>2 DEF TypeOK, JobsTypeOK, HistoryTypeOK, vars, hubSide, hubVars, jobVars
    <3>3. QED
      BY <3>1, <3>2 DEF TypeOK
  <2>3. QED
    BY <2>1, <2>2
<1>2. QED
  BY <1>1, InitTypes, PTL DEF Spec

-----------------------------------------------------------------------------
\* The elements of the queue q are distinct.
Once(q) == \A i, k \in DOMAIN q : q[i] = q[k] => i = k

\* The elements of a sequence are of its type.
LEMMA RangeType ==
  ASSUME NEW S, NEW q \in Seq(S)
  PROVE  Range(q) \subseteq S
BY DEF Range

\* Appending adds one element.
LEMMA AppendRange ==
  ASSUME NEW S, NEW q \in Seq(S), NEW e \in S
  PROVE  Range(Append(q, e)) = Range(q) \cup {e}
<1>1. Len(q) \in Nat /\ DOMAIN q = 1..Len(q) /\ DOMAIN Append(q, e) = 1..(Len(q) + 1)
  OBVIOUS
<1>2. 1..(Len(q) + 1) = 1..Len(q) \cup {Len(q) + 1}
  BY <1>1
<1>3. DOMAIN Append(q, e) = DOMAIN q \cup {Len(q) + 1}
  BY <1>1, <1>2
<1>4. Append(q, e)[Len(q) + 1] = e
  OBVIOUS
<1>5. ASSUME NEW i \in DOMAIN q PROVE Append(q, e)[i] = q[i]
  BY <1>1
<1>6. QED
  BY <1>3, <1>4, <1>5, Zenon DEF Range

\* Appending something new keeps a queue free of repetitions.
LEMMA AppendOnce ==
  ASSUME NEW S, NEW q \in Seq(S), NEW e \in S, Once(q), e \notin Range(q)
  PROVE  Once(Append(q, e)) /\ Range(Append(q, e)) = Range(q) \cup {e}
<1>1. \A i \in DOMAIN q : q[i] # e
  BY DEF Range
<1>2. ASSUME NEW i \in DOMAIN Append(q, e), NEW k \in DOMAIN Append(q, e),
             Append(q, e)[i] = Append(q, e)[k]
      PROVE  i = k
  <2> DEFINE a == Append(q, e)
             n == Len(q) + 1
  <2>1. DOMAIN a = DOMAIN q \cup {n} /\ a[n] = e
    <3>1. Len(q) \in Nat /\ DOMAIN q = 1..Len(q) /\ DOMAIN a = 1..n
      OBVIOUS
    <3>2. 1..n = 1..Len(q) \cup {n}
      BY <3>1
    <3>3. a[n] = e
      OBVIOUS
    <3>4. QED
      BY <3>1, <3>2, <3>3
  <2>0. ASSUME NEW m \in DOMAIN q PROVE a[m] = q[m]
    OBVIOUS
  <2>2. a[i] = a[k] /\ i \in DOMAIN a /\ k \in DOMAIN a
    BY <1>2
  <2> HIDE DEF a, n
  <2>3. CASE i \in DOMAIN q /\ k \in DOMAIN q
    BY <2>0, <2>2, <2>3 DEF Once
  <2>4. CASE i \notin DOMAIN q \/ k \notin DOMAIN q
    BY <1>1, <2>0, <2>1, <2>2, <2>4
  <2>5. QED
    BY <2>3, <2>4
<1>3. QED
  <2>1. Once(Append(q, e))
    BY <1>2, Zenon DEF Once
  <2>2. Range(Append(q, e)) = Range(q) \cup {e}
    BY AppendRange
  <2>3. QED
    BY <2>1, <2>2

\* Taking the head off a queue without repetitions removes it for good.
LEMMA TailOnce ==
  ASSUME NEW S, NEW q \in Seq(S), q # <<>>, Once(q)
  PROVE  Once(Tail(q)) /\ Range(Tail(q)) = Range(q) \ {Head(q)}
<1>1. /\ DOMAIN q = 1..Len(q) /\ DOMAIN Tail(q) = 1..(Len(q) - 1) /\ Len(q) \in Nat \ {0}
      /\ Head(q) = q[1] /\ 1 \in DOMAIN q
      /\ \A i \in DOMAIN Tail(q) : Tail(q)[i] = q[i + 1] /\ i + 1 \in DOMAIN q /\ i + 1 # 1
      /\ \A i \in DOMAIN q : i = 1 \/ (i - 1 \in DOMAIN Tail(q) /\ Tail(q)[i - 1] = q[i])
  OBVIOUS
<1>2. Once(Tail(q))
  <2> SUFFICES ASSUME NEW i \in DOMAIN Tail(q), NEW k \in DOMAIN Tail(q), Tail(q)[i] = Tail(q)[k]
               PROVE  i = k
    BY DEF Once
  <2>1. i + 1 = k + 1
    BY <1>1 DEF Once
  <2>2. QED
    BY <1>1, <2>1
<1>3. \A i \in DOMAIN Tail(q) : Tail(q)[i] # Head(q)
  BY <1>1 DEF Once
<1>4. ASSUME NEW x PROVE x \in Range(Tail(q)) <=> x \in Range(q) \ {Head(q)}
  <2>1. x \in Range(Tail(q)) => x \in Range(q) \ {Head(q)}
    BY <1>1, <1>3 DEF Range
  <2>2. ASSUME x \in Range(q), x # Head(q) PROVE x \in Range(Tail(q))
    <3>1. PICK i \in DOMAIN q : x = q[i]
      BY <2>2 DEF Range
    <3>2. i - 1 \in DOMAIN Tail(q) /\ Tail(q)[i - 1] = x
      BY <1>1, <2>2, <3>1
    <3>3. QED
      BY <3>2 DEF Range
  <2>3. QED
    BY <2>1, <2>2
<1>5. QED
  BY <1>2, <1>4

-----------------------------------------------------------------------------
\* The registry: its two maps agree, and hold only sessions whose connection
\* has been added.
RegistryInv ==
  /\ \A s \in sessions : conn[s] \notin {"auth", "add"} /\ <<IdentOf[s], s>> \in identifiers
  /\ \A p \in identifiers : p = <<IdentOf[p[2]], p[2]>> /\ p[2] \in sessions

\* Every step records what the messages in flight owe, takes nothing back that
\* was sent, and moves a connection only forward.
LEMMA StepFrame ==
  ASSUME TypeOK, Next
  PROVE  /\ Track /\ sent \subseteq sent'
         /\ \A s \in Sessions :
              /\ conn'[s] = "auth" => conn[s] = "auth"
              /\ conn'[s] = "add" => conn[s] = "add" \/ AuthenticateSuccess(s)
              /\ connected'[s] => connected[s] \/ conn[s] = "auth"
         /\ \/ UNCHANGED registryVars \/ removeSession
            \/ \E s \in Sessions : addSession(s)
<1>0. /\ conn \in [Sessions -> {"auth", "add", "serve", "gone", "rejected", "refused"}]
      /\ connected \in [Sessions -> BOOLEAN]
  BY DEF TypeOK, SessionsTypeOK
<1>1. ASSUME NEW j, BroadcastStep(j) \/ CommandStep(j) \/ SignalStep(j)
      PROVE  /\ Track /\ sent \subseteq sent' /\ conn' = conn /\ UNCHANGED registryVars
             /\ connected' = connected \/ \E s \in Sessions : connected' = [connected EXCEPT ![s] = FALSE]
  BY <1>1, Zenon DEF BroadcastStep, CommandStep, SignalStep, StartBroadcast, SendTo, RemoveKicked,
     Finish, StartDisconnect, Kick, ShutdownSize, StartClosing, sessionSide, connVars, mapVars
<1>2. ASSUME Arrival PROVE Track /\ UNCHANGED <<sent, conn, connected, registryVars>>
  BY <1>2 DEF Arrival, Broadcast, RemoteDisconnect, Shutdown, sessionSide, connVars, mapVars
<1>3. ASSUME RunStep
      PROVE  Track /\ UNCHANGED <<sent, conn, connected>> /\ (removeSession \/ UNCHANGED registryVars)
  BY <1>3, Zenon DEF RunStep, RunSubscribe, RunRegister, removeSession, RunBroadcast, RunDisconnect,
     RunSchedule, RunShutdown, jobVars, sessionSide, connVars, mapVars
<1>4. ASSUME NEW s \in Sessions, SessionStep(s)
      PROVE  /\ Track /\ sent' = sent /\ (addSession(s) \/ UNCHANGED registryVars)
             /\ \/ conn' = conn
                \/ AuthenticateSuccess(s)
                \/ conn' = [conn EXCEPT ![s] = conn'[s]] /\ conn'[s] \notin {"auth", "add"}
             /\ \/ connected' = connected
                \/ connected' = [connected EXCEPT ![s] = FALSE]
                \/ AuthenticateSuccess(s)
  <2>1. Track /\ sent' = sent /\ (addSession(s) \/ UNCHANGED registryVars)
    BY <1>4, Zenon DEF SessionStep, AuthenticateSuccess, addSession, AuthenticateFailure, Drop,
       ReaderExit, RemoveSession, subscribeSession, RemoveSubscription, ReplyDisconnect, Subscribe,
       Unsubscribe, Perform, Command, hubSide, jobVars, mapVars
  <2>2. \/ conn' = conn
        \/ AuthenticateSuccess(s)
        \/ conn' = [conn EXCEPT ![s] = conn'[s]] /\ conn'[s] \notin {"auth", "add"}
    BY <1>0, <1>4, Zenon DEF SessionStep, addSession, AuthenticateFailure, Drop,
       ReaderExit, RemoveSession, subscribeSession, RemoveSubscription, ReplyDisconnect, Subscribe,
       Unsubscribe, Perform, Command, connVars
  <2>3. \/ connected' = connected
        \/ connected' = [connected EXCEPT ![s] = FALSE]
        \/ AuthenticateSuccess(s)
    BY <1>4, Zenon DEF SessionStep, addSession, AuthenticateFailure, Drop, disconnectFromNode,
       ReaderExit, RemoveSession, subscribeSession, RemoveSubscription, ReplyDisconnect, Subscribe,
       Unsubscribe, Perform, Command, connVars
  <2>4. QED
    BY <2>1, <2>2, <2>3
<1>5. ASSUME NEW s \in Sessions, AuthenticateSuccess(s)
      PROVE  /\ conn[s] = "auth" /\ conn' = [conn EXCEPT ![s] = "add"]
             /\ connected' = [connected EXCEPT ![s] = TRUE]
  BY <1>5 DEF AuthenticateSuccess
<1>6. Track /\ sent \subseteq sent'
      /\ (UNCHANGED registryVars \/ removeSession \/ \E s \in Sessions : addSession(s))
  BY <1>1, <1>2, <1>3, <1>4 DEF Next
<1> DEFINE Forward(u) == /\ conn'[u] = "auth" => conn[u] = "auth"
                         /\ conn'[u] = "add" => conn[u] = "add" \/ AuthenticateSuccess(u)
<1>7. ASSUME NEW u \in Sessions PROVE Forward(u)
  <2>1. ASSUME NEW s \in Sessions, SessionStep(s) PROVE Forward(u)
    BY <1>0, <1>4, <1>5, <2>1
  <2>2. QED
    BY <1>1, <1>2, <1>3, <2>1 DEF Next
<1>8. ASSUME NEW u \in Sessions, connected'[u] PROVE connected[u] \/ conn[u] = "auth"
  <2>1. ASSUME NEW s \in Sessions, SessionStep(s) PROVE connected[u] \/ conn[u] = "auth"
    BY <1>0, <1>4, <1>5, <1>8, <2>1
  <2>2. QED
    BY <1>0, <1>1, <1>2, <1>3, <1>8, <2>1 DEF Next
<1>9. QED
  BY <1>6, <1>7, <1>8

\* Every step keeps the registry's two maps in agreement.
LEMMA RegistryStep ==
  ASSUME TypeOK, RegistryInv, Next
  PROVE  RegistryInv'
<1>0. /\ conn \in [Sessions -> {"auth", "add", "serve", "gone", "rejected", "refused"}]
      /\ sessions \subseteq Sessions /\ identifiers \subseteq Idents \X Sessions
  BY DEF TypeOK, SessionsTypeOK, MapsTypeOK
<1>1. ASSUME NEW s \in sessions PROVE conn'[s] \notin {"auth", "add"}
  BY <1>0, StepFrame, Zenon DEF RegistryInv, AuthenticateSuccess
<1>2. CASE UNCHANGED registryVars
  BY <1>1, <1>2 DEF registryVars, RegistryInv
<1>3. ASSUME NEW s \in Sessions, addSession(s) PROVE RegistryInv'
  <2>1. /\ sessions' = sessions \cup {s} /\ identifiers' = identifiers \cup {<<IdentOf[s], s>>}
        /\ conn'[s] = "serve"
    BY <1>0, <1>3 DEF addSession
  <2>2. QED
    BY <1>1, <2>1 DEF RegistryInv
<1>4. CASE removeSession
  <2>1. sessions' = sessions \ {hubSid} /\ identifiers' = identifiers \ {<<IdentOf[hubSid], hubSid>>}
    BY <1>4 DEF removeSession, identifiersWithout
  <2>2. QED
    BY <1>1, <2>1 DEF RegistryInv
<1>5. QED
  BY <1>2, <1>3, <1>4, StepFrame

-----------------------------------------------------------------------------
\* The steps that move the task of a disconnect command on; no other step
\* changes its progress or the sessions it has still to visit.
LEMMA CommandFrame ==
  ASSUME TypeOK, Next, NEW c \in Commands
  PROVE  \/ at'[c] = at[c] /\ todo'[c] = todo[c]
         \/ \E id \in Idents : RemoteDisconnect(c, id)
         \/ RunDisconnect /\ Head(disconnect) = c
         \/ RunSchedule(c) \/ StartDisconnect(c)
         \/ \E s \in Sessions : Kick(c, s)
         \/ Finish(c)
<1> DEFINE Same == at'[c] = at[c] /\ todo'[c] = todo[c]
<1>0. /\ at \in [Jobs -> Stage] /\ todo \in [Jobs -> SUBSET Sessions]
      /\ c \in Jobs /\ c \notin Broadcasts /\ c \notin Signals
      /\ broadcast \in Seq(Broadcasts) /\ disconnect \in Seq(Commands)
  BY ConstantsAssumption DEF TypeOK, JobsTypeOK, ChannelsTypeOK, Jobs
<1>1. ASSUME NEW s, SessionStep(s) PROVE Same
  BY <1>1, Zenon DEF SessionStep, AuthenticateSuccess, addSession, AuthenticateFailure, Drop,
     ReaderExit, RemoveSession, subscribeSession, RemoveSubscription, ReplyDisconnect, Subscribe,
     Unsubscribe, Perform, Command, hubSide, jobVars
<1>2. CASE Arrival
  <2>1. ASSUME NEW j \in Broadcasts, NEW st \in Streams, Broadcast(j, st) PROVE Same
    BY <1>0, <2>1 DEF Broadcast
  <2>2. ASSUME NEW j \in Commands, NEW id \in Idents, RemoteDisconnect(j, id), j # c PROVE Same
    BY <1>0, <2>2 DEF RemoteDisconnect
  <2>3. ASSUME NEW j \in Signals, Shutdown(j) PROVE Same
    BY <1>0, <2>3 DEF Shutdown
  <2>4. QED
    BY <1>2, <2>1, <2>2, <2>3, Zenon DEF Arrival
<1>3. CASE RunStep
  <2>1. CASE RunSubscribe \/ RunRegister \/ removeSession
    BY <2>1 DEF RunSubscribe, RunRegister, removeSession, jobVars
  <2>2. CASE RunDisconnect /\ Head(disconnect) # c
    BY <1>0, <2>2 DEF RunDisconnect
  <2>3. CASE RunBroadcast
    <3>1. Head(broadcast) \in Broadcasts
      BY <1>0, <2>3 DEF RunBroadcast
    <3>2. QED
      BY <1>0, <2>3, <3>1 DEF RunBroadcast
  <2>4. ASSUME NEW j \in Jobs, RunSchedule(j), j # c PROVE Same
    BY <1>0, <2>4 DEF RunSchedule
  <2>5. ASSUME NEW j \in Signals, RunShutdown(j) PROVE Same
    BY <1>0, <2>5 DEF RunShutdown
  <2>6. QED
    BY <1>3, <2>1, <2>2, <2>3, <2>4, <2>5, Zenon DEF RunStep
<1>4. ASSUME NEW j \in Jobs, RemoveKicked(j) PROVE Same
  BY <1>4, Zenon DEF RemoveKicked
<1>5. ASSUME NEW j \in Jobs, j # c, NEW s \in Sessions, SendTo(j, s) \/ Kick(j, s) PROVE Same
  <2>1. at' = at /\ todo' = [todo EXCEPT ![j] = restAfter(j, s)]
    BY <1>5, Zenon DEF SendTo, Kick
  <2>2. QED
    BY <1>0, <1>5, <2>1
<1>6. ASSUME NEW j \in Jobs, j # c,
             StartBroadcast(j) \/ StartDisconnect(j) \/ ShutdownSize(j) \/ StartClosing(j) \/ Finish(j)
      PROVE  Same
  BY <1>0, <1>6 DEF StartBroadcast, StartDisconnect, ShutdownSize, StartClosing, Finish
<1>7. ASSUME NEW j \in Broadcasts, BroadcastStep(j) PROVE Same
  BY <1>0, <1>4, <1>5, <1>6, <1>7, Zenon DEF BroadcastStep, Jobs
<1>8. ASSUME NEW j \in Commands, CommandStep(j), j # c PROVE Same
  BY <1>4, <1>5, <1>6, <1>8, Zenon DEF CommandStep, Jobs
<1>9. ASSUME NEW j \in Signals, SignalStep(j) PROVE Same
  BY <1>0, <1>4, <1>5, <1>6, <1>9, Zenon DEF SignalStep, Jobs
<1>10. CASE CommandStep(c)
  BY <1>0, <1>4, <1>10, Zenon DEF CommandStep
<1>11. QED
  BY <1>1, <1>2, <1>3, <1>7, <1>8, <1>9, <1>10, Zenon DEF Next

\* The commands in h.disconnect are distinct, and wait for Hub.Run.
CommandsQueued == Once(disconnect) /\ \A c \in Range(disconnect) : at[c] = "queued"

\* A command enters h.disconnect when it arrives and leaves it for good.
LEMMA CommandsQueuedStep ==
  ASSUME TypeOK, CommandsQueued, Next
  PROVE  CommandsQueued'
<1>0. /\ at \in [Jobs -> Stage] /\ disconnect \in Seq(Commands) /\ Commands \subseteq Jobs
      /\ Range(disconnect) \subseteq Commands
  BY RangeType DEF TypeOK, JobsTypeOK, ChannelsTypeOK, Jobs
<1>1. ASSUME NEW j \in Commands, NEW id \in Idents, RemoteDisconnect(j, id)
      PROVE  CommandsQueued'
  <2>1. /\ disconnect' = Append(disconnect, j) /\ at[j] = "idle"
        /\ at'[j] = "queued" /\ \A c \in Commands : c # j => at'[c] = at[c]
    BY <1>0, <1>1 DEF RemoteDisconnect
  <2>2. j \notin Range(disconnect)
    BY <2>1 DEF CommandsQueued
  <2>3. Once(disconnect') /\ Range(disconnect') = Range(disconnect) \cup {j}
    BY <1>0, <2>1, <2>2, AppendOnce DEF CommandsQueued
  <2>4. QED
    BY <1>0, <2>1, <2>3 DEF CommandsQueued, Once, Range
<1>2. CASE RunDisconnect
  <2>1. /\ disconnect # <<>> /\ disconnect' = Tail(disconnect)
        /\ \A c \in Commands : c # Head(disconnect) => at'[c] = at[c]
    BY <1>0, <1>2 DEF RunDisconnect
  <2>2. Once(disconnect') /\ Range(disconnect') = Range(disconnect) \ {Head(disconnect)}
    BY <1>0, <2>1, TailOnce DEF CommandsQueued
  <2>3. QED
    BY <1>0, <2>1, <2>2 DEF CommandsQueued, Once, Range
<1>3. ASSUME disconnect' = disconnect, ~RunDisconnect,
             ~\E j \in Commands, id \in Idents : RemoteDisconnect(j, id)
      PROVE  CommandsQueued'
  <2>1. ASSUME NEW c \in Range(disconnect) PROVE at'[c] = "queued"
    <3>1. c \in Commands /\ at[c] = "queued"
      BY <1>0 DEF CommandsQueued
    <3>2. QED
      BY <1>3, <3>1, CommandFrame DEF RunSchedule, StartDisconnect, Kick, Finish
  <2>2. QED
    BY <1>3, <2>1, Zenon DEF CommandsQueued
<1>4. \/ RunDisconnect \/ (\E j \in Commands, id \in Idents : RemoteDisconnect(j, id))
      \/ disconnect' = disconnect
  <2>1. ASSUME NEW j, BroadcastStep(j) \/ CommandStep(j) \/ SignalStep(j) PROVE disconnect' = disconnect
    BY <2>1, Zenon DEF BroadcastStep, CommandStep, SignalStep, StartBroadcast, SendTo, RemoveKicked,
       Finish, StartDisconnect, Kick, ShutdownSize, StartClosing, channelVars
  <2>2. ASSUME NEW s, SessionStep(s) PROVE disconnect' = disconnect
    BY <2>2, Zenon DEF SessionStep, AuthenticateSuccess, addSession, AuthenticateFailure, Drop,
       ReaderExit, RemoveSession, subscribeSession, RemoveSubscription, ReplyDisconnect, Subscribe,
       Unsubscribe, Perform, Command, hubSide, channelVars
  <2>3. ASSUME RunStep PROVE RunDisconnect \/ disconnect' = disconnect
    BY <2>3 DEF RunStep, RunSubscribe, RunRegister, removeSession, RunBroadcast,
       RunSchedule, RunShutdown, channelVars
  <2>4. QED
    BY <2>1, <2>2, <2>3 DEF Next, Arrival, Broadcast, Shutdown, channelVars
<1>5. QED
  BY <1>1, <1>2, <1>3, <1>4

\* What RemoteDisconnectComplete needs: whoever a command in flight must still
\* disconnect is registered under its identifier, and once the task runs each
\* of them is disconnected or still to be visited. A session that has been
\* registered never connects again.
KickInv ==
  \A c \in Commands :
    /\ at[c] \notin {"idle", "done"} => mustGo[c] \subseteq {s \in sessions : IdentOf[s] = to[c]}
    /\ at[c] = "running" => \A s \in mustGo[c] : s \in todo[c] \/ ~connected[s]
    /\ at[c] = "done" => \A s \in mustGo[c] : ~connected[s]
    /\ at[c] # "idle" => \A s \in mustGo[c] : conn[s] # "auth"

\* Every step keeps KickInv.
LEMMA KickStep ==
  ASSUME TypeOK, RegistryInv, RegistryInv', CommandsQueued, KickInv, Next
  PROVE  KickInv'
<1> SUFFICES ASSUME NEW c \in Commands
             PROVE  /\ at'[c] \notin {"idle", "done"} =>
                         mustGo'[c] \subseteq {s \in sessions' : IdentOf[s] = to'[c]}
                    /\ at'[c] = "running" => \A s \in mustGo'[c] : s \in todo'[c] \/ ~connected'[s]
                    /\ at'[c] = "done" => \A s \in mustGo'[c] : ~connected'[s]
                    /\ at'[c] # "idle" => \A s \in mustGo'[c] : conn'[s] # "auth"
  BY Zenon DEF KickInv
<1>0. /\ at \in [Jobs -> Stage] /\ todo \in [Jobs -> SUBSET Sessions] /\ c \in Jobs
      /\ disconnect \in Seq(Commands) /\ mustGo \in [Commands -> SUBSET Sessions]
      /\ connected \in [Sessions -> BOOLEAN] /\ sessions \subseteq Sessions
  BY DEF TypeOK, JobsTypeOK, ChannelsTypeOK, HistoryTypeOK, SessionsTypeOK, MapsTypeOK, Jobs
<1>1. mustGo'[c] = IF at'[c] = "idle" \/ at[c] = "done" THEN mustGo[c]
                   ELSE mustGo[c] \cap {s \in sessions' : IdentOf[s] = to'[c]}
  BY StepFrame DEF Track
<1>2. /\ mustGo'[c] \subseteq mustGo[c] /\ mustGo[c] \subseteq Sessions
      /\ at'[c] # "idle" /\ at[c] # "done" =>
           mustGo'[c] \subseteq {s \in sessions' : IdentOf[s] = to'[c]}
  BY <1>0, <1>1
<1>3. at[c] = "done" => at'[c] = "done"
  <2>1. RunDisconnect /\ Head(disconnect) = c => at[c] = "queued"
    BY <1>0 DEF RunDisconnect, CommandsQueued, Range
  <2>2. QED
    BY <2>1, CommandFrame DEF RemoteDisconnect, RunSchedule, StartDisconnect, Kick, Finish
<1>4. ASSUME at'[c] # "idle", NEW s \in mustGo'[c] PROVE conn'[s] # "auth"
  <2>1. s \in Sessions
    BY <1>2
  <2>2. CASE at[c] = "done"
    BY <1>2, <2>1, <2>2, StepFrame, Zenon DEF KickInv
  <2>3. CASE at[c] # "done"
    BY <1>2, <1>4, <2>3, Zenon DEF RegistryInv
  <2>4. QED
    BY <2>2, <2>3
<1>5. ASSUME NEW s \in mustGo[c], at[c] # "idle", ~connected[s] PROVE ~connected'[s]
  BY <1>2, <1>5, StepFrame DEF KickInv
<1>6. ASSUME at'[c] = "running", NEW s \in mustGo'[c] PROVE s \in todo'[c] \/ ~connected'[s]
  <2>0. s \in mustGo[c] /\ s \in Sessions /\ at[c] # "done"
    BY <1>2, <1>3, <1>6
  <2>1. CASE at'[c] = at[c] /\ todo'[c] = todo[c]
    BY <1>5, <1>6, <2>0, <2>1 DEF KickInv
  <2>2. CASE StartDisconnect(c)
    <3>1. at[c] = "pooled" /\ todo'[c] = {u \in Sessions : <<to[c], u>> \in identifiers}
      BY <1>0, <2>2 DEF StartDisconnect, sessionsOf
    <3>2. s \in sessions /\ IdentOf[s] = to[c]
      BY <2>0, <3>1 DEF KickInv
    <3>3. QED
      BY <2>0, <3>1, <3>2 DEF RegistryInv
  <2>3. ASSUME NEW u \in Sessions, Kick(c, u) PROVE s \in todo'[c] \/ ~connected'[s]
    <3>1. /\ at[c] = "running" /\ todo'[c] = todo[c] \ {u}
          /\ connected' = [connected EXCEPT ![u] = FALSE]
      BY <1>0, <2>3 DEF Kick, restAfter
    <3>2. CASE s = u
      BY <1>0, <3>1, <3>2
    <3>3. CASE s # u
      BY <1>5, <2>0, <3>1, <3>3, Zenon DEF KickInv
    <3>4. QED
      BY <3>2, <3>3
  <2>4. CASE /\ at'[c] # at[c] \/ todo'[c] # todo[c]
             /\ ~StartDisconnect(c) /\ ~\E u \in Sessions : Kick(c, u)
    BY <1>0, <1>6, <2>4, CommandFrame, Zenon DEF RemoteDisconnect, RunDisconnect, RunSchedule, Finish
  <2>5. QED
    BY <2>1, <2>2, <2>3, <2>4, Zenon
<1>7. ASSUME at'[c] = "done", NEW s \in mustGo'[c] PROVE ~connected'[s]
  <2>0. s \in mustGo[c] /\ s \in Sessions
    BY <1>2
  <2>1. CASE at[c] = "done"
    BY <1>5, <2>0, <2>1 DEF KickInv
  <2>2. CASE at[c] # "done" /\ RunDisconnect /\ Head(disconnect) = c
    <3>1. to' = to /\ identifiers' = identifiers /\ ~\E u \in Sessions : <<to[c], u>> \in identifiers
      BY <1>0, <1>7, <2>2, Zenon DEF RunDisconnect, mapVars, registryVars
    <3>2. s \in sessions' /\ IdentOf[s] = to[c]
      BY <1>2, <1>7, <2>2, <3>1
    <3>3. <<to[c], s>> \in identifiers
      BY <3>1, <3>2 DEF RegistryInv
    <3>4. QED
      BY <2>0, <3>1, <3>3
  <2>3. CASE at[c] # "done" /\ Finish(c)
    <3>1. at[c] = "running" /\ todo[c] = {}
      BY <2>3 DEF Finish, loopOver
    <3>2. QED
      BY <1>5, <2>0, <3>1, Zenon DEF KickInv
  <2>4. CASE at[c] # "done" /\ ~Finish(c) /\ ~(RunDisconnect /\ Head(disconnect) = c)
    BY <1>0, <1>7, <2>4, CommandFrame, Zenon DEF RemoteDisconnect, RunSchedule, StartDisconnect, Kick
  <2>5. QED
    BY <2>1, <2>2, <2>3, <2>4, Zenon
<1>8. QED
  BY <1>2, <1>3, <1>4, <1>6, <1>7, Zenon

\* In every behaviour the two maps of the registry agree.
LEMMA RegistryAgrees == Spec => []RegistryInv
<1>1. Init => RegistryInv
  BY Zenon DEF Init, RegistryInv
<1>2. TypeOK /\ RegistryInv /\ [Next]_vars => RegistryInv'
  <2>1. UNCHANGED vars /\ RegistryInv => RegistryInv'
    BY DEF vars, sessionSide, connVars, hubSide, mapVars, registryVars, RegistryInv
  <2>2. QED
    BY <2>1, RegistryStep
<1>3. QED
  BY <1>1, <1>2, TypeCorrect, PTL DEF Spec

\* In every behaviour a session that carries the identifier of a disconnect
\* command from its arrival until its task has finished is disconnected by then,
\* even though the task keeps a map that Hub.Run may drop from h.identifiers.
THEOREM RemoteDisconnectIsComplete == Spec => []RemoteDisconnectComplete
<1>1. Init => CommandsQueued /\ KickInv
  <2> SUFFICES ASSUME Init PROVE CommandsQueued /\ KickInv
    OBVIOUS
  <2>1. disconnect = <<>> /\ DOMAIN disconnect = {}
    BY DEF Init
  <2>2. \A c \in Commands : at[c] = "idle"
    BY DEF Init, Jobs
  <2>3. QED
    BY <2>1, <2>2 DEF CommandsQueued, Once, Range, KickInv
<1>2. TypeOK /\ RegistryInv /\ RegistryInv' /\ CommandsQueued /\ KickInv /\ [Next]_vars
        => CommandsQueued' /\ KickInv'
  <2>1. ASSUME UNCHANGED vars, CommandsQueued, KickInv PROVE CommandsQueued' /\ KickInv'
    <3>1. UNCHANGED <<disconnect, at, to, todo, conn, connected, sessions, mustGo>>
      BY <2>1 DEF vars, sessionSide, connVars, hubSide, mapVars, registryVars, channelVars, jobVars
    <3>2. CommandsQueued'
      BY <2>1, <3>1 DEF CommandsQueued, Once, Range
    <3>3. KickInv'
      BY <2>1, <3>1 DEF KickInv
    <3>4. QED
      BY <3>2, <3>3
  <2>2. QED
    BY <2>1, CommandsQueuedStep, KickStep
<1>3. KickInv => RemoteDisconnectComplete
  BY DEF KickInv, RemoteDisconnectComplete
<1>4. QED
  BY <1>1, <1>2, <1>3, TypeCorrect, RegistryAgrees, PTL DEF Spec

-----------------------------------------------------------------------------
\* Whoever finds a session connected and disconnects it goes on to remove it
\* from the hub.
LEMMA WhoDisconnects ==
  ASSUME TypeOK, Next, NEW s \in Sessions, connected[s], ~connected'[s]
  PROVE  s \in leaving' \/ \E j \in Jobs : kick'[j] = s
<1>0. /\ connected \in [Sessions -> BOOLEAN] /\ kick \in [Jobs -> Sessions \cup {NoSession}]
      /\ todo \in [Jobs -> SUBSET Sessions]
  BY DEF TypeOK, SessionsTypeOK, JobsTypeOK
<1>1. ASSUME NEW u \in Sessions, disconnectFromNode(u) PROVE u = s /\ s \in leaving'
  BY <1>0, <1>1 DEF disconnectFromNode
<1>2. ASSUME NEW u \in Sessions, SessionStep(u) PROVE s \in leaving'
  <2>1. CASE Drop(u)
    BY <1>1, <2>1, Zenon DEF Drop
  <2>2. CASE ReaderExit(u)
    BY <1>1, <2>2 DEF ReaderExit
  <2>3. CASE ReplyDisconnect(u)
    BY <1>1, <2>3 DEF ReplyDisconnect
  <2>4. CASE AuthenticateSuccess(u)
    BY <1>0, <2>4 DEF AuthenticateSuccess
  <2>5. CASE connected' = connected
    BY <2>5
  <2>6. QED
    BY <1>2, <2>1, <2>2, <2>3, <2>4, <2>5, Zenon DEF SessionStep, addSession, AuthenticateFailure,
       RemoveSession, subscribeSession, RemoveSubscription, Subscribe, Unsubscribe, Perform,
       Command, connVars
<1>3. ASSUME Arrival \/ RunStep PROVE FALSE
  BY <1>3, Zenon DEF Arrival, Broadcast, RemoteDisconnect, Shutdown, RunStep, RunSubscribe, RunRegister,
     removeSession, RunBroadcast, RunDisconnect, RunSchedule, RunShutdown, sessionSide, connVars
<1>4. ASSUME NEW k, \/ RemoveKicked(k) \/ Finish(k) \/ ShutdownSize(k) \/ StartBroadcast(k)
                    \/ StartDisconnect(k) \/ StartClosing(k)
      PROVE  FALSE
  BY <1>4 DEF RemoveKicked, Finish, ShutdownSize, StartBroadcast, StartDisconnect, StartClosing,
     sessionSide, connVars
<1>5. ASSUME NEW k \in Jobs, NEW u \in Sessions, SendTo(k, u) PROVE kick'[k] = s
  <2>1. connected' = [connected EXCEPT ![u] = FALSE] /\ kick' = [kick EXCEPT ![k] = u]
    BY <1>5, Zenon DEF SendTo
  <2>2. u = s
    BY <1>0, <2>1
  <2>3. QED
    BY <1>0, <2>1, <2>2
<1>6. ASSUME NEW k \in Commands \cup Signals, NEW u \in Sessions, Kick(k, u)
      PROVE  kick'[k] = s
  <2>1. /\ connected' = [connected EXCEPT ![u] = FALSE]
        /\ kick' = [kick EXCEPT ![k] = disconnectIfConnected(u)]
    BY <1>6 DEF Kick
  <2>2. u = s
    BY <1>0, <2>1
  <2>3. QED
    BY <1>0, <2>1, <2>2 DEF disconnectIfConnected, Jobs
<1>7. QED
  BY <1>2, <1>3, <1>4, <1>5, <1>6, Zenon DEF Next, BroadcastStep, CommandStep, SignalStep, Jobs

\* A removal on its way stays on its way until the session has been removed.
LEMMA RemovalStays ==
  ASSUME TypeOK, Next, NEW s \in sessions, RemovalPending(s), s \in sessions'
  PROVE  RemovalPending(s)'
<1>0. /\ register \in Seq(Sessions) /\ s \in Sessions /\ s # NoSession
      /\ kick \in [Jobs -> Sessions \cup {NoSession}]
  BY ConstantsAssumption DEF TypeOK, ChannelsTypeOK, JobsTypeOK, MapsTypeOK
<1>1. ASSUME NEW e \in Sessions, register' = Append(register, e)
      PROVE  Range(register)' = Range(register) \cup {e}
  <2>1. Range(Append(register, e)) = Range(register) \cup {e}
    <3>1. register \in Seq(Sessions)
      BY <1>0
    <3>2. QED
      BY <3>1, AppendRange
  <2>2. Range(register)' = Range(Append(register, e))
    BY <1>1, Zenon DEF Range
  <2>3. QED
    BY <2>1, <2>2
<1>2. ASSUME NEW u \in Sessions, SessionStep(u) PROVE RemovalPending(s)'
  <2>1. UNCHANGED <<hubPc, hubSid, kick>>
    BY <1>2, Zenon DEF SessionStep, AuthenticateSuccess, addSession, AuthenticateFailure, Drop,
       ReaderExit, RemoveSession, subscribeSession, RemoveSubscription, ReplyDisconnect, Subscribe,
       Unsubscribe, Perform, Command, hubSide, hubVars, jobVars
  <2>2. CASE RemoveSession(u)
    <3>1. register' = Append(register, u) /\ leaving' = leaving \ {u}
      BY <2>2 DEF RemoveSession
    <3>2. Range(register)' = Range(register) \cup {u}
      BY <1>1, <3>1
    <3>3. QED
      BY <2>1, <3>1, <3>2 DEF RemovalPending
  <2>3. CASE register' = register /\ leaving \subseteq leaving'
    BY <2>1, <2>3 DEF RemovalPending, Range
  <2>4. QED
    BY <1>2, <2>2, <2>3, Zenon DEF SessionStep, AuthenticateSuccess, addSession, AuthenticateFailure, Drop,
       ReaderExit, subscribeSession, RemoveSubscription, ReplyDisconnect, Subscribe,
       Unsubscribe, Perform, Command, disconnectFromNode, hubSide, channelVars, connVars
<1>3. CASE RunRegister
  <2>1. /\ register # <<>> /\ register' = Tail(register) /\ hubPc = "select"
        /\ leaving' = leaving /\ kick' = kick
        /\ Head(register) = s => hubPc' = "remove" /\ hubSid' = s
    BY <1>3 DEF RunRegister, registered, sessionSide, connVars, jobVars
  <2>2. ASSUME s \in Range(register), s # Head(register) PROVE s \in Range(Tail(register))
    <3>1. PICK i \in DOMAIN register : s = register[i]
      BY <2>2 DEF Range
    <3>2. i - 1 \in DOMAIN Tail(register) /\ Tail(register)[i - 1] = s
      BY <1>0, <2>1, <2>2, <3>1
    <3>3. QED
      BY <3>2 DEF Range
  <2>3. Range(register)' = Range(Tail(register))
    BY <2>1 DEF Range
  <2>4. QED
    BY <2>1, <2>2, <2>3 DEF RemovalPending
<1>4. CASE removeSession
  BY <1>4, Zenon DEF removeSession, RemovalPending, Range, sessionSide, connVars, channelVars
<1>5. ASSUME RunStep, ~RunRegister, ~removeSession PROVE RemovalPending(s)'
  <2>1. /\ UNCHANGED <<leaving, register, kick>>
        /\ hubPc # "remove" \/ UNCHANGED hubVars
    BY <1>5, Zenon DEF RunStep, RunSubscribe, RunBroadcast, RunDisconnect, RunSchedule, RunShutdown,
       sessionSide, connVars, channelVars, jobVars
  <2>2. QED
    BY <2>1 DEF RemovalPending, Range, hubVars
<1>6. CASE Arrival
  <2>1. UNCHANGED <<leaving, register, kick, hubVars>>
    BY <1>6 DEF Arrival, Broadcast, RemoteDisconnect, Shutdown, sessionSide, connVars, channelVars
  <2>2. QED
    BY <2>1 DEF RemovalPending, Range, hubVars
<1>7. ASSUME NEW j \in Jobs, RemoveKicked(j) PROVE RemovalPending(s)'
  <2>1. /\ register' = Append(register, kick[j]) /\ kick' = [kick EXCEPT ![j] = NoSession]
        /\ kick[j] \in Sessions /\ UNCHANGED <<leaving, hubVars>>
    BY <1>0, <1>7 DEF RemoveKicked, disconnecting, sessionSide, connVars
  <2>2. Range(register)' = Range(register) \cup {kick[j]}
    BY <1>1, <2>1
  <2>3. QED
    BY <1>0, <2>1, <2>2 DEF RemovalPending, hubVars
<1>8. ASSUME NEW j \in Jobs, NEW u \in Sessions, SendTo(j, u) \/ Kick(j, u) PROVE RemovalPending(s)'
  <2>1. /\ kick[j] = NoSession /\ UNCHANGED <<leaving, register, hubVars>>
        /\ kick' = kick \/ \E v : kick' = [kick EXCEPT ![j] = v]
    BY <1>8, Zenon DEF SendTo, Kick, channelVars
  <2>2. \A k \in Jobs : kick[k] = s => kick'[k] = s
    BY <1>0, <2>1
  <2>3. QED
    BY <2>1, <2>2 DEF RemovalPending, Range, hubVars
<1>9. ASSUME NEW j, \/ Finish(j) \/ ShutdownSize(j) \/ StartBroadcast(j)
                    \/ StartDisconnect(j) \/ StartClosing(j)
      PROVE  RemovalPending(s)'
  <2>1. UNCHANGED <<leaving, register, kick, hubVars>>
    BY <1>9, Zenon DEF Finish, ShutdownSize, StartBroadcast, StartDisconnect, StartClosing,
       sessionSide, connVars, channelVars
  <2>2. QED
    BY <2>1 DEF RemovalPending, Range, hubVars
<1>10. QED
  BY <1>2, <1>3, <1>4, <1>5, <1>6, <1>7, <1>8, <1>9
  DEF Next, BroadcastStep, CommandStep, SignalStep, Jobs

\* Whichever of a session's goroutines, of the pool's workers and of the signal
\* handlers finds a registered session connected last, the hub gets its removal:
\* only the call of hub.addSession for a session that has been disconnected since
\* s.Connected = true can leave one that is registered for good.
THEOREM ZombiesOnlyLate == Spec => ZombiesAreBornLate
<1> DEFINE Late(s) == conn[s] = "add" /\ conn'[s] = "serve" /\ ~connected[s]
<1>1. ASSUME TypeOK, Next, NEW s \in Sessions, Zombie(s)', ~Zombie(s) PROVE Late(s)
  <2>0. s \in sessions' /\ ~connected'[s] /\ ~RemovalPending(s)'
    BY <1>1 DEF Zombie
  <2>1. CASE s \in sessions
    <3>1. CASE connected[s]
      BY <1>1, <2>0, <3>1, WhoDisconnects, Zenon DEF RemovalPending
    <3>2. CASE RemovalPending(s)
      BY <1>1, <2>0, <2>1, <3>2, RemovalStays, Zenon
    <3>3. QED
      BY <1>1, <2>1, <3>1, <3>2 DEF Zombie
  <2>2. CASE s \notin sessions
    <3>1. PICK u \in Sessions : addSession(u)
      <4>1. sessions' # sessions /\ ~(sessions' \subseteq sessions)
        BY <2>0, <2>2
      <4>2. QED
        BY <1>1, <4>1, StepFrame, Zenon DEF registryVars, removeSession
    <3>2. u = s /\ conn[s] = "add" /\ conn' = [conn EXCEPT ![s] = "serve"] /\ connected' = connected
      <4>1. /\ sessions' = sessions \cup {u} /\ conn[u] = "add"
            /\ conn' = [conn EXCEPT ![u] = "serve"] /\ connected' = connected
        BY <3>1, Zenon DEF addSession
      <4>2. u = s
        BY <2>0, <2>2, <4>1
      <4>3. QED
        BY <4>1, <4>2
    <3>3. conn'[s] = "serve"
      BY <1>1, <3>2 DEF TypeOK, SessionsTypeOK
    <3>4. QED
      BY <2>0, <3>2, <3>3, Zenon
  <2>3. QED
    BY <2>1, <2>2
<1>2. ASSUME UNCHANGED vars, NEW s \in Sessions PROVE Zombie(s)' = Zombie(s)
  <2>1. UNCHANGED <<connected, leaving, sessions, register, hubPc, hubSid, kick>>
    BY <1>2 DEF vars, sessionSide, connVars, hubSide, mapVars, registryVars, channelVars, hubVars,
       jobVars
  <2>2. QED
    BY <2>1 DEF Zombie, RemovalPending, Range
<1>3. TypeOK /\ [Next]_vars => [\A s \in Sessions : Zombie(s)' => Zombie(s) \/ Late(s)]_vars
  BY <1>1, <1>2
<1>4. QED
  BY <1>3, TypeCorrect, PTL DEF Spec, ZombiesAreBornLate

-----------------------------------------------------------------------------
(* The stream index of the hub stays coherent, agrees with what the        *)
(* clients asked for, and a broadcast reaches those and only those.        *)


\* Only three steps touch the index; the others leave it alone.
LEMMA IndexFrame ==
  ASSUME Next
  PROVE  \/ UNCHANGED indexVars
         \/ \E s \in Sessions : subscribeSession(s)
         \/ RunSubscribe \/ RunRegister
<1>1. ASSUME NEW j, BroadcastStep(j) \/ CommandStep(j) \/ SignalStep(j) PROVE UNCHANGED indexVars
  BY <1>1 DEF BroadcastStep, CommandStep, SignalStep, StartBroadcast, SendTo, RemoveKicked,
     Finish, StartDisconnect, Kick, ShutdownSize, StartClosing, mapVars
<1>2. ASSUME Arrival PROVE UNCHANGED indexVars
  BY <1>2 DEF Arrival, Broadcast, RemoteDisconnect, Shutdown, mapVars
<1>3. ASSUME NEW s, SessionStep(s) PROVE subscribeSession(s) \/ UNCHANGED indexVars
  BY <1>3 DEF SessionStep, AuthenticateSuccess, addSession, AuthenticateFailure, Drop,
     ReaderExit, RemoveSession, RemoveSubscription, ReplyDisconnect, Subscribe,
     Unsubscribe, Perform, Command, hubSide, mapVars
<1>4. ASSUME RunStep PROVE RunSubscribe \/ RunRegister \/ UNCHANGED indexVars
  BY <1>4 DEF RunStep, removeSession, RunBroadcast, RunDisconnect, RunSchedule,
     RunShutdown, mapVars
<1>5. QED
  BY <1>1, <1>2, <1>3, <1>4 DEF Next

\* Dropping channels of a session from the nested maps, whatever then happens
\* to its lists, keeps every remaining identifier under its session and stream,
\* and no stream without a session.
LEMMA DropKeepsNesting ==
  ASSUME TypeOK, IndexCoherent, NEW s \in Sessions, NEW Cs \in SUBSET Channels,
         dropFromStreams(s, Cs)
  PROVE  /\ \A t \in streamIds' : t \in streamIds /\ <<t[1], t[2]>> \in streamSessions'
         /\ \A p \in streamSessions' : p \in streamSessions /\ p[1] \in streams'
         /\ \A st \in streams' : \E u \in Sessions : <<st, u>> \in streamSessions'
<1> USE DEF dropFromStreams
<1>1. ASSUME NEW t \in streamIds'
      PROVE  t \in streamIds /\ <<t[1], t[2]>> \in streamSessions'
  <2>1. t \in streamIds /\ t \in Triples
    BY <1>1 DEF idsWithout, TypeOK, MapsTypeOK
  <2>2. PICK st \in Streams, u \in Sessions, ch \in Channels : t = <<st, u, ch>>
    BY <2>1 DEF Triples
  <2>3. <<st, u>> \in streamSessions /\ <<st, u, ch>> \in idsWithout(s, Cs)
    BY <1>1, <2>1, <2>2 DEF IndexCoherent
  <2>4. <<st, u>> \in sessionsWithout(s, Cs)
    BY <2>3 DEF sessionsWithout
  <2>5. QED
    BY <2>1, <2>2, <2>4
<1>2. ASSUME NEW p \in streamSessions'
      PROVE  p \in streamSessions /\ p[1] \in streams'
  BY <1>2 DEF sessionsWithout, streamsWithout, IndexCoherent
<1>3. ASSUME NEW st \in streams'
      PROVE  \E u \in Sessions : <<st, u>> \in streamSessions'
  <2>1. CASE st \notin Listed(s, Cs)
    BY <1>3, <2>1 DEF streamsWithout, sessionsWithout, IndexCoherent
  <2>2. CASE \E p \in sessionsWithout(s, Cs) : p[1] = st
    <3>1. PICK p \in streamSessions : p \in sessionsWithout(s, Cs) /\ p[1] = st
      BY <2>2 DEF sessionsWithout
    <3>2. p \in Streams \X Sessions
      BY DEF TypeOK, MapsTypeOK
    <3>3. QED
      BY <3>1, <3>2
  <2>3. QED
    BY <1>3, <2>1, <2>2 DEF streamsWithout
<1>4. QED
  BY <1>1, <1>2, <1>3

\* Removing all channels of a session leaves no entry of it in the index.
LEMMA DropAllChannels ==
  ASSUME TypeOK, IndexCoherent, NEW s \in Sessions, unsubscribeSessionFromAllChannels(s)
  PROVE  /\ \A t \in streamIds' : t[2] # s
         /\ \A p \in streamSessions' : p[2] # s
         /\ \A t \in sessionsStreams' : t[1] # s
<1> USE DEF unsubscribeSessionFromAllChannels, dropFromStreams
<1>1. ASSUME NEW t \in streamIds', t[2] = s PROVE FALSE
  <2>1. t \in streamIds /\ t \in Triples
    BY <1>1 DEF idsWithout, TypeOK, MapsTypeOK
  <2>2. t[3] \in Channels /\ <<s, t[3], t[1]>> \in sessionsStreams
    BY <1>1, <2>1 DEF IndexCoherent, Triples
  <2>3. QED
    BY <1>1, <2>2 DEF idsWithout
<1>2. ASSUME NEW p \in streamSessions', p[2] = s PROVE FALSE
  <2>1. p \in streamSessions /\ p \in Streams \X Sessions
    BY <1>2 DEF sessionsWithout, TypeOK, MapsTypeOK
  <2>2. p[1] \in Listed(s, Channels)
    BY <1>2, <2>1 DEF IndexCoherent, Listed
  <2>3. PICK ch \in Channels : <<p[1], s, ch>> \in idsWithout(s, Channels)
    BY <1>2, <2>2 DEF sessionsWithout
  <2>4. QED
    BY <1>1, <2>3
<1>3. QED
  BY <1>1, <1>2

\* Each of the three steps that change the index keeps it coherent.
LEMMA IndexStep ==
  ASSUME TypeOK, IndexCoherent, Next
  PROVE  IndexCoherent'
<1>1. CASE UNCHANGED indexVars
  BY <1>1 DEF IndexCoherent, indexVars
<1>2. ASSUME NEW s \in Sessions, subscribeSession(s)
      PROVE  IndexCoherent'
  <2>1. Head(calls[s]) \in Call
    BY <1>2, HeadTail DEF subscribeSession, TypeOK, SessionsTypeOK
  <2>2. PICK st \in Streams, ch \in Channels :
          /\ streams' = streams \cup {st}
          /\ streamSessions' = streamSessions \cup {<<st, s>>}
          /\ streamIds' = streamIds \cup {<<st, s, ch>>}
          /\ sessionsStreams' = sessionsStreams \cup {<<s, ch, st>>}
    BY <1>2, <2>1 DEF subscribeSession, listAppended, Call
  <2>3. QED
    BY <2>2, SMTT(30) DEF IndexCoherent
<1>3. CASE RunSubscribe
  <2>1. Head(subscribe) \in [session : Sessions, call : Call]
    BY <1>3, HeadTail DEF RunSubscribe, TypeOK, ChannelsTypeOK
  <2> DEFINE s == Head(subscribe).session
             c == Head(subscribe).call
  <2>2. s \in Sessions /\ c \in Call
    BY <2>1
  <2>3. c.identifier \in Channels
    BY <2>2 DEF Call
  <2>4. CASE unsubscribeSessionFromChannel(s, c.identifier)
    <3>1. dropFromStreams(s, {c.identifier}) /\ sessionsStreams' = sessionsStreams
      BY <2>4 DEF unsubscribeSessionFromChannel
    <3>2. {c.identifier} \in SUBSET Channels
      BY <2>3
    <3> HIDE DEF s, c
    <3>3. QED
      BY <2>2, <3>1, <3>2, DropKeepsNesting DEF IndexCoherent
  <2>5. CASE unsubscribeSession(s, c.stream, c.identifier)
    BY <2>5 DEF unsubscribeSession, IndexCoherent
  <2>6. QED
    BY <1>3, <2>4, <2>5 DEF RunSubscribe
<1>4. CASE RunRegister
  <2> DEFINE s == Head(register)
  <2>1. s \in Sessions
    BY <1>4, HeadTail DEF RunRegister, TypeOK, ChannelsTypeOK
  <2>2. CASE unsubscribeSessionFromAllChannels(s)
    <3> HIDE DEF s
    <3>1. dropFromStreams(s, Channels) /\ sessionsStreams' = {t \in sessionsStreams : t[1] # s}
      BY <2>2 DEF unsubscribeSessionFromAllChannels
    <3>2. \A t \in streamIds' : <<t[2], t[3], t[1]>> \in sessionsStreams'
      BY <2>1, <2>2, <3>1, DropKeepsNesting, DropAllChannels DEF IndexCoherent
    <3>3. \A p \in streamSessions' : \E ch \in Channels : <<p[2], ch, p[1]>> \in sessionsStreams'
      BY <2>1, <2>2, <3>1, DropKeepsNesting, DropAllChannels DEF IndexCoherent
    <3>4. QED
      BY <2>1, <3>1, <3>2, <3>3, DropKeepsNesting DEF IndexCoherent
  <2>3. QED
    BY <1>1, <1>4, <2>2 DEF RunRegister
<1>5. QED
  BY <1>1, <1>2, <1>3, <1>4, IndexFrame

\* The empty index of NewHub is coherent.
LEMMA IndexInitially == Init => IndexCoherent
  BY DEF Init, IndexCoherent

\* In every behaviour, each key of the nested maps of h.streams can be found
\* again from h.sessionsStreams and no stream is kept without a session. It is
\* inductive together with the types.
THEOREM IndexIsCoherent == Spec => []IndexCoherent
<1>1. TypeOK /\ IndexCoherent /\ [Next]_vars => IndexCoherent'
  <2>1. UNCHANGED vars /\ IndexCoherent => IndexCoherent'
    BY DEF vars, hubSide, mapVars, indexVars, IndexCoherent
  <2>2. QED
    BY <2>1, IndexStep
<1>2. QED
  BY <1>1, IndexInitially, TypeCorrect, PTL DEF Spec

\* removeSession leaves nothing of the removed session in the index, however
\* its direct and its queued hub calls were interleaved before.
THEOREM RemovalIsClean == Spec => RemovalCleansIndex
<1> DEFINE Clean ==
      hubSid' # NoSession /\ hubSid' # hubSid =>
        /\ ~\E st \in Streams : <<st, hubSid'>> \in streamSessions'
        /\ ~\E t \in sessionsStreams' : t[1] = hubSid'
<1>1. TypeOK /\ IndexCoherent /\ [Next]_vars => [Clean]_vars
  <2> SUFFICES ASSUME TypeOK, IndexCoherent, Next, hubSid' # NoSession, hubSid' # hubSid
               PROVE  /\ ~\E st \in Streams : <<st, hubSid'>> \in streamSessions'
                      /\ ~\E t \in sessionsStreams' : t[1] = hubSid'
    OBVIOUS
  <2>1. RunRegister
    <3>1. ASSUME NEW j, BroadcastStep(j) \/ CommandStep(j) \/ SignalStep(j) PROVE hubSid' = hubSid
      BY <3>1 DEF BroadcastStep, CommandStep, SignalStep, StartBroadcast, SendTo, RemoveKicked,
         Finish, StartDisconnect, Kick, ShutdownSize, StartClosing, hubVars
    <3>2. ~Arrival
      BY DEF Arrival, Broadcast, RemoteDisconnect, Shutdown, hubVars
    <3>3. ASSUME NEW s, SessionStep(s) PROVE hubSid' = hubSid
      BY <3>3 DEF SessionStep, AuthenticateSuccess, addSession, AuthenticateFailure, Drop,
         ReaderExit, RemoveSession, RemoveSubscription, ReplyDisconnect, subscribeSession,
         Subscribe, Unsubscribe, Perform, Command, hubSide, hubVars
    <3>4. RunStep
      BY <3>1, <3>2, <3>3 DEF Next
    <3>5. QED
      BY <3>4 DEF RunStep, RunSubscribe, removeSession, RunBroadcast, RunDisconnect,
         RunSchedule, RunShutdown, hubVars
  <2>2. hubSid' \in Sessions /\ unsubscribeSessionFromAllChannels(hubSid')
    BY <2>1, HeadTail DEF RunRegister, hubVars, TypeOK, ChannelsTypeOK
  <2>3. QED
    BY <2>2, DropAllChannels
<1>2. QED
  BY <1>1, TypeCorrect, IndexIsCoherent, PTL DEF Spec, RemovalCleansIndex

-----------------------------------------------------------------------------
(* Subscriptions the client has given up do not survive. *)

\* Strengthening: an addition still to be made is one the client wants, because
\* a reader starts a command only when the calls of the last one are made.
AddsIntended ==
  \A s \in Sessions : \A i \in DOMAIN calls[s] :
    calls[s][i].event = "add" =>
      <<calls[s][i].stream, s, calls[s][i].identifier>> \in intended

\* The calls made for a reply remove all it stops, and add only what it starts.
LEMMA HubCallsMeaning ==
  ASSUME NEW s \in Sessions, NEW ch \in Channels, NEW r \in Reply
  PROVE  /\ \A t \in Stopped(s, ch, r) :
              \E i \in DOMAIN hubCalls(ch, r) : Covers(hubCalls(ch, r)[i], s, t)
         /\ \A i \in DOMAIN hubCalls(ch, r) :
              hubCalls(ch, r)[i].event = "add" =>
                <<hubCalls(ch, r)[i].stream, s, hubCalls(ch, r)[i].identifier>> \in Started(s, ch, r)
<1> DEFINE stops == stopCalls(ch, r)
           adds == startCalls(ch, r)
           close == closeCalls(ch, r)
           front == stops \o adds
           all == hubCalls(ch, r)
<1>1. /\ stops \in Seq(Call) /\ adds \in Seq(Call) /\ close \in Seq(Call)
      /\ \A i \in DOMAIN stops : stops[i].event # "add"
      /\ \A i \in DOMAIN close : close[i].event # "add"
      /\ \A t \in Stopped(s, ch, r) : \E i \in DOMAIN stops : Covers(stops[i], s, t)
      /\ \A i \in DOMAIN adds : <<adds[i].stream, s, adds[i].identifier>> \in Started(s, ch, r)
  BY StopCalls, StartCalls, CloseCalls, Zenon
<1>2. all = front \o close
  BY DEF hubCalls
<1>3. stops \in Seq(Call) /\ adds \in Seq(Call) /\ close \in Seq(Call)
  BY <1>1
<1> HIDE DEF stops, adds, close, all
<1>4. /\ front \in Seq(Call)
      /\ \A i \in DOMAIN front :
           \/ i \in DOMAIN stops /\ front[i] = stops[i]
           \/ \E k \in DOMAIN adds : front[i] = adds[k]
      /\ \A i \in DOMAIN stops : i \in DOMAIN front /\ front[i] = stops[i]
  BY <1>3, ConcatParts, Zenon
<1> HIDE DEF front
<1>5. /\ \A i \in DOMAIN all :
           \/ i \in DOMAIN front /\ all[i] = front[i]
           \/ \E k \in DOMAIN close : all[i] = close[k]
      /\ \A i \in DOMAIN front : i \in DOMAIN all /\ all[i] = front[i]
  <2>1. front \in Seq(Call) /\ close \in Seq(Call)
    BY <1>3, <1>4
  <2>2. /\ front \o close \in Seq(Call)
        /\ \A i \in DOMAIN (front \o close) :
             \/ i \in DOMAIN front /\ (front \o close)[i] = front[i]
             \/ \E k \in DOMAIN close : (front \o close)[i] = close[k]
        /\ \A i \in DOMAIN front : i \in DOMAIN (front \o close) /\ (front \o close)[i] = front[i]
    BY <2>1, ConcatParts, Zenon
  <2>3. QED
    BY <1>2, <2>2, Zenon
<1>6. \A t \in Stopped(s, ch, r) : \E i \in DOMAIN all : Covers(all[i], s, t)
  BY <1>1, <1>4, <1>5, Zenon
<1>7. ASSUME NEW i \in DOMAIN all, all[i].event = "add"
      PROVE  <<all[i].stream, s, all[i].identifier>> \in Started(s, ch, r)
  <2>1. \E k \in DOMAIN adds : all[i] = adds[k]
    BY <1>1, <1>4, <1>5, <1>7, Zenon
  <2>2. QED
    BY <1>1, <2>1, Zenon
<1>8. QED
  BY <1>6, <1>7, Zenon DEF all

\* Taking the first call off a list, or off h.subscribe, loses no other.
LEMMA TailParts ==
  ASSUME NEW S, NEW q \in Seq(S), q # <<>>
  PROVE  /\ \A i \in DOMAIN q : q[i] = Head(q) \/ \E k \in DOMAIN Tail(q) : Tail(q)[k] = q[i]
         /\ \A k \in DOMAIN Tail(q) : \E i \in DOMAIN q : q[i] = Tail(q)[k]
<1>1. DOMAIN Tail(q) = 1..(Len(q) - 1) /\ \A k \in DOMAIN Tail(q) : Tail(q)[k] = q[k + 1]
  OBVIOUS
<1>2. ASSUME NEW i \in DOMAIN q, q[i] # Head(q)
      PROVE  \E k \in DOMAIN Tail(q) : Tail(q)[k] = q[i]
  <2>1. i - 1 \in DOMAIN Tail(q) /\ Tail(q)[i - 1] = q[i]
    BY <1>1, <1>2
  <2>2. QED
    BY <2>1
<1>3. ASSUME NEW k \in DOMAIN Tail(q)
      PROVE  \E i \in DOMAIN q : q[i] = Tail(q)[k]
  <2>1. k + 1 \in DOMAIN q
    BY <1>1
  <2>2. QED
    BY <1>1, <2>1
<1>4. QED
  BY <1>2, <1>3

\* The steps that do not concern what a session asked for or holds.
LEMMA GhostFrame ==
  ASSUME Next
  PROVE  \/ UNCHANGED <<calls, intended, subscribe, streamIds>>
         \/ \E s \in Sessions :
              \/ subscribeSession(s) \/ RemoveSubscription(s) \/ ReplyDisconnect(s)
              \/ \E ch \in Channels, r \in Reply : Command(s, ch, r)
         \/ RunSubscribe \/ RunRegister
<1> USE DEF sessionSide, readerVars, indexVars, channelVars, mapVars, hubSide
<1>1. ASSUME NEW j, BroadcastStep(j) \/ CommandStep(j) \/ SignalStep(j)
      PROVE UNCHANGED <<calls, intended, subscribe, streamIds>>
  BY <1>1 DEF BroadcastStep, CommandStep, SignalStep, StartBroadcast, SendTo, RemoveKicked,
     Finish, StartDisconnect, Kick, ShutdownSize, StartClosing
<1>2. ASSUME Arrival PROVE UNCHANGED <<calls, intended, subscribe, streamIds>>
  BY <1>2 DEF Arrival, Broadcast, RemoteDisconnect, Shutdown
<1>3. ASSUME NEW s \in Sessions, SessionStep(s)
      PROVE  \/ subscribeSession(s) \/ RemoveSubscription(s) \/ ReplyDisconnect(s)
             \/ \E ch \in Channels, r \in Reply : Command(s, ch, r)
             \/ UNCHANGED <<calls, intended, subscribe, streamIds>>
  <2>1. ASSUME NEW ch \in Channels, NEW r \in Replies,
               Subscribe(s, ch, r) \/ Unsubscribe(s, ch, r) \/ Perform(s, ch, r)
        PROVE  \E q \in Reply : Command(s, ch, q)
    <3>1. r \in Reply
      BY ConstantsAssumption
    <3>2. [r EXCEPT !.stopAll = TRUE] \in Reply
      BY <3>1 DEF Reply
    <3>3. QED
      BY <2>1, <3>1, <3>2 DEF Subscribe, Unsubscribe, Perform
  <2>2. QED
    BY <1>3, <2>1 DEF SessionStep, AuthenticateSuccess, addSession, AuthenticateFailure, Drop,
       ReaderExit, RemoveSession
<1>4. ASSUME RunStep
      PROVE  RunSubscribe \/ RunRegister \/ UNCHANGED <<calls, intended, subscribe, streamIds>>
  BY <1>4 DEF RunStep, removeSession, RunBroadcast, RunDisconnect, RunSchedule,
     RunShutdown
<1>5. QED
  BY <1>1, <1>2, <1>3, <1>4 DEF Next

\* Every step keeps AddsIntended: the additions a reader has still to make are
\* all intended.
LEMMA AddsStep ==
  ASSUME TypeOK, AddsIntended, Next
  PROVE  AddsIntended'
<1>1. CASE UNCHANGED <<calls, intended, subscribe, streamIds>>
  BY <1>1 DEF AddsIntended
<1>2. ASSUME NEW s \in Sessions,
             subscribeSession(s) \/ RemoveSubscription(s) \/ ReplyDisconnect(s)
      PROVE  AddsIntended'
  <2>1. /\ calls[s] # <<>> /\ calls' = [calls EXCEPT ![s] = Tail(calls[s])]
        /\ intended' = intended
    BY <1>2 DEF subscribeSession, RemoveSubscription, ReplyDisconnect
  <2>2. calls \in [Sessions -> Seq(Call)]
    BY DEF TypeOK, SessionsTypeOK
  <2>3. \A k \in DOMAIN Tail(calls[s]) : \E i \in DOMAIN calls[s] : calls[s][i] = Tail(calls[s])[k]
    <3>1. calls[s] \in Seq(Call) /\ calls[s] # <<>>
      BY <2>1, <2>2
    <3>2. QED
      BY <3>1, TailParts, Zenon
  <2>4. \A s1 \in Sessions : s1 # s => calls'[s1] = calls[s1]
    BY <2>1, <2>2
  <2>5. calls'[s] = Tail(calls[s])
    BY <2>1, <2>2
  <2>6. SUFFICES ASSUME NEW s1 \in Sessions, NEW i \in DOMAIN calls'[s1], calls'[s1][i].event = "add"
                 PROVE  <<calls'[s1][i].stream, s1, calls'[s1][i].identifier>> \in intended
    BY <2>1, Zenon DEF AddsIntended
  <2>7. CASE s1 = s
    <3>1. PICK j \in DOMAIN calls[s] : calls[s][j] = calls'[s1][i]
      BY <2>3, <2>5, <2>6, <2>7, Zenon
    <3>2. QED
      BY <2>6, <2>7, <3>1, Zenon DEF AddsIntended
  <2>8. CASE s1 # s
    BY <2>4, <2>6, <2>8, Zenon DEF AddsIntended
  <2>9. QED
    BY <2>7, <2>8
<1>3. ASSUME NEW s \in Sessions, NEW ch \in Channels, NEW r \in Reply, Command(s, ch, r)
      PROVE  AddsIntended'
  <2>1. /\ calls' = [calls EXCEPT ![s] = hubCalls(ch, r)]
        /\ intended' = (intended \ Stopped(s, ch, r)) \cup Started(s, ch, r)
    BY <1>3 DEF Command
  <2>2. calls \in [Sessions -> Seq(Call)]
    BY DEF TypeOK, SessionsTypeOK
  <2>3. \A u \in Sessions : u # s => calls'[u] = calls[u]
    BY <2>1, <2>2
  <2>4. \A u \in Sessions : \A st, c : u # s => <<st, u, c>> \notin Stopped(s, ch, r)
    BY DEF Stopped
  <2>5. ASSUME NEW u \in Sessions, NEW i \in DOMAIN calls'[u], calls'[u][i].event = "add"
        PROVE  <<calls'[u][i].stream, u, calls'[u][i].identifier>> \in intended'
    <3>1. CASE u = s
      <4>1. calls'[s] = hubCalls(ch, r)
        BY <2>1, <2>2
      <4>2. \A k \in DOMAIN hubCalls(ch, r) : hubCalls(ch, r)[k].event = "add" =>
              <<hubCalls(ch, r)[k].stream, s, hubCalls(ch, r)[k].identifier>> \in Started(s, ch, r)
        BY HubCallsMeaning
      <4>3. i \in DOMAIN hubCalls(ch, r) /\ hubCalls(ch, r)[i].event = "add"
        BY <2>5, <3>1, <4>1, Zenon
      <4>4. <<hubCalls(ch, r)[i].stream, s, hubCalls(ch, r)[i].identifier>> \in Started(s, ch, r)
        BY <4>2, <4>3, Zenon
      <4>5. <<hubCalls(ch, r)[i].stream, s, hubCalls(ch, r)[i].identifier>> \in intended'
        BY <2>1, <4>4, Zenon
      <4>6. QED
        BY <3>1, <4>1, <4>5, Zenon
    <3>2. CASE u # s
      <4>1. calls'[u] = calls[u]
        BY <2>3, <3>2
      <4>2. <<calls[u][i].stream, u, calls[u][i].identifier>> \in intended
        BY <2>5, <4>1, Zenon DEF AddsIntended
      <4>3. QED
        BY <2>1, <2>4, <3>2, <4>1, <4>2, SMTT(30)
    <3>3. QED
      BY <3>1, <3>2
  <2>6. QED
    BY <2>5 DEF AddsIntended
<1>4. CASE RunSubscribe \/ RunRegister
  BY <1>4 DEF RunSubscribe, RunRegister, sessionSide, readerVars, AddsIntended
<1>5. QED
  BY <1>1, <1>2, <1>3, <1>4, GhostFrame

\* Every step keeps NoGhostSubscription, given the types, the coherence of the
\* index and AddsIntended.
LEMMA GhostStep ==
  ASSUME TypeOK, IndexCoherent, AddsIntended, NoGhostSubscription, Next
  PROVE  NoGhostSubscription'
<1> USE DEF NoGhostSubscription
<1>0. /\ calls \in [Sessions -> Seq(Call)]
      /\ subscribe \in Seq([session : Sessions, call : Call])
      /\ streamIds \subseteq Triples
  BY DEF TypeOK, SessionsTypeOK, ChannelsTypeOK, MapsTypeOK
<1>1. CASE UNCHANGED <<calls, intended, subscribe, streamIds>>
  BY <1>1 DEF Doomed
<1>2. ASSUME NEW s \in Sessions, subscribeSession(s)
      PROVE  NoGhostSubscription'
  <2> DEFINE c == Head(calls[s])
  <2>1. /\ calls[s] # <<>> /\ c.event = "add"
        /\ calls' = [calls EXCEPT ![s] = Tail(calls[s])]
        /\ intended' = intended /\ subscribe' = subscribe
        /\ streamIds' = streamIds \cup {<<c.stream, s, c.identifier>>}
    BY <1>2 DEF subscribeSession, channelVars
  <2>2. <<c.stream, s, c.identifier>> \in intended
    <3>1. c = calls[s][1] /\ 1 \in DOMAIN calls[s]
      BY <1>0, <2>1
    <3>2. QED
      BY <2>1, <3>1 DEF AddsIntended
  <2>3. ASSUME NEW t \in Triples, Doomed(t) PROVE Doomed(t)'
    <3>1. CASE \E i \in DOMAIN calls[t[2]] : Covers(calls[t[2]][i], t[2], t)
      <4>1. PICK i \in DOMAIN calls[t[2]] : Covers(calls[t[2]][i], t[2], t)
        BY <3>1
      <4>2. t[2] \in Sessions
        BY DEF Triples
      <4>3. calls[t[2]][i].event # "add"
        BY <4>1 DEF Covers
      <4>4. CASE t[2] = s
        <5>1. PICK k \in DOMAIN Tail(calls[s]) : Tail(calls[s])[k] = calls[s][i]
          <6>1. calls[s] \in Seq(Call) /\ calls[s] # <<>>
            BY <1>0, <2>1
          <6>2. \A n \in DOMAIN calls[s] : calls[s][n] = Head(calls[s])
                  \/ \E k \in DOMAIN Tail(calls[s]) : Tail(calls[s])[k] = calls[s][n]
            BY <6>1, TailParts, Zenon
          <6>3. i \in DOMAIN calls[s] /\ calls[s][i] # Head(calls[s])
            BY <2>1, <4>3, <4>4
          <6>4. QED
            BY <6>2, <6>3, Zenon
        <5>2. calls'[s] = Tail(calls[s])
          BY <1>0, <2>1
        <5>3. QED
          BY <4>1, <4>4, <5>1, <5>2 DEF Doomed
      <4>5. CASE t[2] # s
        <5>1. calls'[t[2]] = calls[t[2]]
          BY <1>0, <2>1, <4>2, <4>5
        <5>2. QED
          BY <4>1, <5>1 DEF Doomed
      <4>6. QED
        BY <4>4, <4>5
    <3>2. CASE \E i \in DOMAIN subscribe : Covers(subscribe[i].call, subscribe[i].session, t)
      BY <2>1, <3>2 DEF Doomed
    <3>3. QED
      BY <2>3, <3>1, <3>2 DEF Doomed
  <2>4. QED
    BY <1>0, <2>1, <2>2, <2>3
<1>3. ASSUME NEW s \in Sessions, RemoveSubscription(s) \/ ReplyDisconnect(s)
      PROVE  NoGhostSubscription'
  <2>1. /\ calls[s] # <<>> /\ calls' = [calls EXCEPT ![s] = Tail(calls[s])]
        /\ intended' = intended /\ streamIds' = streamIds
    BY <1>3 DEF RemoveSubscription, ReplyDisconnect, mapVars, indexVars, hubSide
  <2>2. \A i \in DOMAIN subscribe : i \in DOMAIN subscribe' /\ subscribe'[i] = subscribe[i]
    <3>1. CASE ReplyDisconnect(s)
      BY <3>1 DEF ReplyDisconnect, hubSide, channelVars
    <3>2. CASE RemoveSubscription(s)
      <4>1. [session |-> s, call |-> Head(calls[s])] \in [session : Sessions, call : Call]
        BY <1>0, <2>1, HeadTail
      <4> DEFINE S == [session : Sessions, call : Call]
                 e == [session |-> s, call |-> Head(calls[s])]
      <4>2. subscribe \in Seq(S) /\ e \in S
        BY <1>0, <4>1
      <4>3. subscribe' = Append(subscribe, e)
        BY <3>2 DEF RemoveSubscription
      <4> HIDE DEF S, e
      <4>4. \A i \in DOMAIN subscribe :
              i \in DOMAIN Append(subscribe, e) /\ Append(subscribe, e)[i] = subscribe[i]
        BY <4>2
      <4>5. QED
        BY <4>3, <4>4, Zenon
    <3>3. QED
      BY <1>3, <3>1, <3>2
  <2>3. ASSUME NEW t \in Triples, t[2] = s, Covers(Head(calls[s]), s, t)
        PROVE  \E k \in DOMAIN subscribe' : Covers(subscribe'[k].call, subscribe'[k].session, t)
    <3>1. RemoveSubscription(s)
      BY <1>3, <2>3 DEF Covers, ReplyDisconnect
    <3> DEFINE e == [session |-> s, call |-> Head(calls[s])]
    <3>2. e \in [session : Sessions, call : Call] /\ e.session = s /\ e.call = Head(calls[s])
      BY <1>0, <2>1, HeadTail
    <3>3. subscribe' = Append(subscribe, e)
      BY <3>1 DEF RemoveSubscription
    <3> HIDE DEF e
    <3>4. PICK k \in DOMAIN subscribe' : subscribe'[k] = e
      <4> DEFINE S == [session : Sessions, call : Call]
      <4>0. subscribe \in Seq(S) /\ e \in S
        BY <1>0, <3>2
      <4> HIDE DEF S
      <4>1. /\ Len(subscribe) + 1 \in DOMAIN Append(subscribe, e)
            /\ Append(subscribe, e)[Len(subscribe) + 1] = e
        BY <4>0
      <4>2. QED
        BY <3>3, <4>1, Zenon
    <3>5. QED
      BY <2>3, <3>2, <3>4
  <2>4. ASSUME NEW t \in Triples, Doomed(t) PROVE Doomed(t)'
    <3>1. CASE \E i \in DOMAIN calls[t[2]] : Covers(calls[t[2]][i], t[2], t)
      <4>1. PICK i \in DOMAIN calls[t[2]] : Covers(calls[t[2]][i], t[2], t)
        BY <3>1
      <4>2. t[2] \in Sessions
        BY DEF Triples
      <4>3. CASE t[2] = s /\ calls[s][i] = Head(calls[s])
        BY <2>3, <4>1, <4>3 DEF Doomed
      <4>4. CASE t[2] = s /\ calls[s][i] # Head(calls[s])
        <5>1. PICK k \in DOMAIN Tail(calls[s]) : Tail(calls[s])[k] = calls[s][i]
          <6>1. calls[s] \in Seq(Call) /\ calls[s] # <<>>
            BY <1>0, <2>1
          <6>2. \A n \in DOMAIN calls[s] : calls[s][n] = Head(calls[s])
                  \/ \E k \in DOMAIN Tail(calls[s]) : Tail(calls[s])[k] = calls[s][n]
            BY <6>1, TailParts, Zenon
          <6>3. i \in DOMAIN calls[s] /\ calls[s][i] # Head(calls[s])
            BY <4>4
          <6>4. QED
            BY <6>2, <6>3, Zenon
        <5>2. calls'[s] = Tail(calls[s])
          BY <1>0, <2>1
        <5>3. QED
          BY <4>1, <4>4, <5>1, <5>2 DEF Doomed
      <4>5. CASE t[2] # s
        <5>1. calls'[t[2]] = calls[t[2]]
          BY <1>0, <2>1, <4>2, <4>5
        <5>2. QED
          BY <4>1, <5>1 DEF Doomed
      <4>6. QED
        BY <4>3, <4>4, <4>5
    <3>2. CASE \E i \in DOMAIN subscribe : Covers(subscribe[i].call, subscribe[i].session, t)
      BY <2>2, <3>2 DEF Doomed
    <3>3. QED
      BY <2>4, <3>1, <3>2 DEF Doomed
  <2>5. QED
    BY <1>0, <2>1, <2>4
<1>4. ASSUME NEW s \in Sessions, NEW ch \in Channels, NEW r \in Reply, Command(s, ch, r)
      PROVE  NoGhostSubscription'
  <2>1. /\ calls[s] = <<>> /\ calls' = [calls EXCEPT ![s] = hubCalls(ch, r)]
        /\ intended' = (intended \ Stopped(s, ch, r)) \cup Started(s, ch, r)
        /\ streamIds' = streamIds /\ subscribe' = subscribe
    BY <1>4 DEF Command, hubSide, mapVars, indexVars, channelVars
  <2>2. calls'[s] = hubCalls(ch, r) /\ \A u \in Sessions : u # s => calls'[u] = calls[u]
    BY <1>0, <2>1
  <2>3. ASSUME NEW t \in Stopped(s, ch, r) PROVE Doomed(t)'
    <3>1. t[2] = s
      BY DEF Stopped
    <3>2. QED
      BY <2>2, <3>1, HubCallsMeaning, ZenonT(60) DEF Doomed
  <2>4. ASSUME NEW t \in Triples, Doomed(t) PROVE Doomed(t)'
    <3>1. t[2] \in Sessions
      BY DEF Triples
    <3>2. ASSUME NEW i \in DOMAIN calls[t[2]] PROVE t[2] # s
      <4>1. DOMAIN <<>> = {}
        OBVIOUS
      <4>2. QED
        BY <2>1, <4>1, Zenon
    <3>3. QED
      BY <2>1, <2>2, <2>4, <3>1, <3>2 DEF Doomed
  <2>5. QED
    BY <1>0, <2>1, <2>3, <2>4
<1>5. CASE RunSubscribe
  <2> DEFINE s == Head(subscribe).session
             c == Head(subscribe).call
  <2>1. /\ subscribe # <<>> /\ subscribe' = Tail(subscribe)
        /\ calls' = calls /\ intended' = intended
        /\ IF c.event = "removeAll" THEN unsubscribeSessionFromChannel(s, c.identifier)
                                    ELSE unsubscribeSession(s, c.stream, c.identifier)
    BY <1>5 DEF RunSubscribe, sessionSide, readerVars
  <2>2. streamIds' \subseteq streamIds
    BY <2>1 DEF unsubscribeSessionFromChannel, unsubscribeSession, dropFromStreams, idsWithout
  <2>3. ASSUME NEW t \in streamIds, Covers(c, s, t) PROVE t \notin streamIds'
    <3>1. t[2] = s /\ t[3] = c.identifier /\ t = <<t[1], t[2], t[3]>>
      <4>1. t \in Triples
        BY <1>0
      <4>2. t = <<t[1], t[2], t[3]>>
        BY <4>1 DEF Triples
      <4>3. QED
        BY <2>3, <4>2 DEF Covers
    <3>2. <<s, t[3], t[1]>> \in sessionsStreams
      BY <3>1 DEF IndexCoherent
    <3>3. CASE c.event = "removeAll"
      BY <2>1, <3>1, <3>2, <3>3 DEF unsubscribeSessionFromChannel, dropFromStreams, idsWithout
    <3>4. CASE c.event # "removeAll"
      BY <2>1, <2>3, <3>1, <3>4 DEF unsubscribeSession, Covers
    <3>5. QED
      BY <3>3, <3>4
  <2>4. ASSUME NEW t \in streamIds', Doomed(t) PROVE Doomed(t)'
    <3>1. CASE \E i \in DOMAIN calls[t[2]] : Covers(calls[t[2]][i], t[2], t)
      BY <2>1, <3>1 DEF Doomed
    <3>2. CASE \E i \in DOMAIN subscribe : Covers(subscribe[i].call, subscribe[i].session, t)
      <4>1. PICK i \in DOMAIN subscribe : Covers(subscribe[i].call, subscribe[i].session, t)
        BY <3>2
      <4>2. subscribe[i] # Head(subscribe)
        BY <2>2, <2>3, <2>4, <4>1
      <4>3. PICK k \in DOMAIN Tail(subscribe) : Tail(subscribe)[k] = subscribe[i]
        BY <1>0, <2>1, <4>2, TailParts
      <4>4. QED
        BY <2>1, <4>1, <4>3 DEF Doomed
    <3>3. QED
      BY <2>4, <3>1, <3>2 DEF Doomed
  <2>5. QED
    BY <2>1, <2>2, <2>4
<1>6. CASE RunRegister
  <2>1. calls' = calls /\ intended' = intended /\ subscribe' = subscribe
    BY <1>6 DEF RunRegister, sessionSide, readerVars
  <2>2. streamIds' \subseteq streamIds
    BY <1>6 DEF RunRegister, unsubscribeSessionFromAllChannels, dropFromStreams, idsWithout, indexVars
  <2>3. QED
    BY <2>1, <2>2 DEF Doomed
<1>7. QED
  BY <1>1, <1>2, <1>3, <1>4, <1>5, <1>6, GhostFrame

\* A subscription the client has given up does not survive in the hub: whatever
\* the order in which direct additions and queued removals reach the index, one
\* that is not wanted any more has a removal on its way. Inductive with the
\* types, the coherence of the index (a removal of a channel finds its streams
\* in h.sessionsStreams) and AddsIntended.
THEOREM NoGhosts == Spec => []NoGhostSubscription
<1>1. Init => AddsIntended /\ NoGhostSubscription
  <2>1. Init => calls = [s \in Sessions |-> <<>>] /\ streamIds = {}
    BY DEF Init
  <2>2. DOMAIN <<>> = {}
    OBVIOUS
  <2>3. QED
    BY <2>1, <2>2 DEF AddsIntended, NoGhostSubscription
<1>2. TypeOK /\ IndexCoherent /\ AddsIntended /\ NoGhostSubscription /\ [Next]_vars
        => AddsIntended' /\ NoGhostSubscription'
  <2>1. UNCHANGED vars /\ AddsIntended /\ NoGhostSubscription => AddsIntended' /\ NoGhostSubscription'
    BY DEF vars, sessionSide, readerVars, hubSide, mapVars, indexVars, channelVars,
       AddsIntended, NoGhostSubscription, Doomed
  <2>2. QED
    BY <2>1, AddsStep, GhostStep
<1>3. QED
  BY <1>1, <1>2, TypeCorrect, IndexIsCoherent, PTL DEF Spec

-----------------------------------------------------------------------------
\* The messages in h.broadcast are distinct, and wait for Hub.Run.
QueuedOnce == Once(broadcast) /\ \A b \in Range(broadcast) : at[b] = "queued"

\* Nothing that concerns the task of broadcast b changes in this step.
TaskUntouched(b) ==
  /\ at'[b] = at[b] /\ to'[b] = to[b] /\ snapshot'[b] = snapshot[b] /\ todo'[b] = todo[b]
  /\ \A x \in sent' \ sent : x[1] # b

\* The steps that move the task of a broadcast on; no other step touches it.
LEMMA TaskFrame ==
  ASSUME TypeOK, Next, NEW b \in Broadcasts
  PROVE  \/ TaskUntouched(b)
         \/ \E st \in Streams : Broadcast(b, st)
         \/ RunBroadcast /\ Head(broadcast) = b
         \/ RunSchedule(b) \/ StartBroadcast(b)
         \/ \E s \in Sessions : SendTo(b, s)
         \/ Finish(b)
<1>0. /\ at \in [Jobs -> Stage] /\ to \in [Jobs -> Streams \cup Idents \cup {Orphan}]
      /\ snapshot \in [Jobs -> SUBSET (Sessions \X Channels)] /\ todo \in [Jobs -> SUBSET Sessions]
      /\ b \in Jobs /\ b \notin Commands /\ b \notin Signals
      /\ broadcast \in Seq(Broadcasts) /\ disconnect \in Seq(Commands)
  BY ConstantsAssumption DEF TypeOK, JobsTypeOK, ChannelsTypeOK, Jobs
<1>1. ASSUME NEW s, SessionStep(s) PROVE TaskUntouched(b)
  BY <1>1, Zenon DEF SessionStep, AuthenticateSuccess, addSession, AuthenticateFailure, Drop,
     ReaderExit, RemoveSession, subscribeSession, RemoveSubscription, ReplyDisconnect, Subscribe,
     Unsubscribe, Perform, Command, hubSide, jobVars, TaskUntouched
<1>2. CASE Arrival
  <2>1. ASSUME NEW j \in Broadcasts, NEW st \in Streams, Broadcast(j, st), j # b PROVE TaskUntouched(b)
    BY <1>0, <2>1 DEF Broadcast, TaskUntouched
  <2>2. ASSUME NEW j \in Commands, NEW id \in Idents, RemoteDisconnect(j, id) PROVE TaskUntouched(b)
    BY <1>0, <2>2 DEF RemoteDisconnect, TaskUntouched
  <2>3. ASSUME NEW j \in Signals, Shutdown(j) PROVE TaskUntouched(b)
    BY <1>0, <2>3 DEF Shutdown, TaskUntouched
  <2>4. QED
    BY <1>2, <2>1, <2>2, <2>3, Zenon DEF Arrival
<1>3. CASE RunStep
  <2>1. CASE RunSubscribe \/ RunRegister
    BY <2>1 DEF RunSubscribe, RunRegister, jobVars, TaskUntouched
  <2>2. CASE removeSession
    BY <1>0, <2>2 DEF removeSession, TaskUntouched
  <2>3. CASE RunBroadcast /\ Head(broadcast) # b
    BY <1>0, <2>3 DEF RunBroadcast, TaskUntouched
  <2>4. CASE RunDisconnect
    <3>1. Head(disconnect) \in Commands
      <4>1. disconnect # <<>>
        BY <2>4 DEF RunDisconnect
      <4>2. disconnect \in Seq(Commands)
        BY <1>0
      <4>3. QED
        BY <4>1, <4>2, HeadTail
    <3>2. b # Head(disconnect)
      BY <1>0, <3>1
    <3>3. /\ \/ at' = [at EXCEPT ![Head(disconnect)] = "schedule"]
             \/ at' = [at EXCEPT ![Head(disconnect)] = "done"]
          /\ to' = to /\ snapshot' = snapshot /\ todo' = todo /\ sent' = sent
      BY <2>4 DEF RunDisconnect
    <3>4. at'[b] = at[b]
      BY <1>0, <3>2, <3>3
    <3>5. QED
      BY <3>3, <3>4 DEF TaskUntouched
  <2>5. ASSUME NEW j \in Jobs, RunSchedule(j), j # b PROVE TaskUntouched(b)
    BY <1>0, <2>5 DEF RunSchedule, TaskUntouched
  <2>6. ASSUME NEW j \in Signals, RunShutdown(j) PROVE TaskUntouched(b)
    BY <1>0, <2>6 DEF RunShutdown, TaskUntouched
  <2>7. QED
    BY <1>3, <2>1, <2>2, <2>3, <2>4, <2>5, <2>6, Zenon DEF RunStep
<1>4. ASSUME NEW j \in Jobs, RemoveKicked(j) PROVE TaskUntouched(b)
  BY <1>4 DEF RemoveKicked, TaskUntouched
<1>5. ASSUME NEW j \in Jobs, j # b, NEW s \in Sessions, SendTo(j, s) \/ Kick(j, s)
      PROVE  TaskUntouched(b)
  <2>1. /\ at' = at /\ to' = to /\ snapshot' = snapshot
        /\ todo' = [todo EXCEPT ![j] = restAfter(j, s)]
    BY <1>5, Zenon DEF SendTo, Kick
  <2>2. ASSUME NEW x \in sent', x \notin sent PROVE x[1] = j
    <3>1. \/ sent' = sent
          \/ sent' = sent \cup {<<j, s, ch>> : ch \in {c \in Channels : <<s, c>> \in snapshot[j]}}
      BY <1>5, Zenon DEF SendTo, Kick
    <3>2. PICK ch \in Channels : x = <<j, s, ch>>
      BY <2>2, <3>1, Zenon
    <3>3. QED
      BY <3>2
  <2>3. QED
    BY <1>0, <1>5, <2>1, <2>2 DEF TaskUntouched
<1>6. ASSUME NEW j \in Jobs, j # b,
             StartBroadcast(j) \/ StartDisconnect(j) \/ ShutdownSize(j) \/ StartClosing(j) \/ Finish(j)
      PROVE  TaskUntouched(b)
  BY <1>0, <1>6 DEF StartBroadcast, StartDisconnect, ShutdownSize, StartClosing, Finish, TaskUntouched
<1>7. ASSUME NEW j \in Broadcasts, BroadcastStep(j), j # b PROVE TaskUntouched(b)
  BY <1>4, <1>5, <1>6, <1>7, Zenon DEF BroadcastStep, Jobs
<1>8. ASSUME NEW j \in Commands, CommandStep(j) PROVE TaskUntouched(b)
  BY <1>0, <1>4, <1>5, <1>6, <1>8, Zenon DEF CommandStep, Jobs
<1>9. ASSUME NEW j \in Signals, SignalStep(j) PROVE TaskUntouched(b)
  BY <1>0, <1>4, <1>5, <1>6, <1>9, Zenon DEF SignalStep, Jobs
<1>10. CASE BroadcastStep(b)
  BY <1>0, <1>4, <1>10, Zenon DEF BroadcastStep
<1>11. QED
  BY <1>1, <1>2, <1>3, <1>7, <1>8, <1>9, <1>10, Zenon DEF Next

\* A message enters h.broadcast when it arrives and leaves it for good.
LEMMA QueuedStep ==
  ASSUME TypeOK, QueuedOnce, Next
  PROVE  QueuedOnce'
<1>0. /\ at \in [Jobs -> Stage] /\ broadcast \in Seq(Broadcasts) /\ Broadcasts \subseteq Jobs
      /\ Range(broadcast) \subseteq Broadcasts
  BY RangeType DEF TypeOK, JobsTypeOK, ChannelsTypeOK, Jobs
<1>1. ASSUME NEW j \in Broadcasts, NEW st \in Streams, Broadcast(j, st)
      PROVE  QueuedOnce'
  <2>1. /\ broadcast' = Append(broadcast, j) /\ at[j] = "idle"
        /\ at'[j] = "queued" /\ \A b \in Broadcasts : b # j => at'[b] = at[b]
    BY <1>0, <1>1 DEF Broadcast
  <2>2. j \notin Range(broadcast)
    BY <2>1 DEF QueuedOnce
  <2>3. Once(broadcast') /\ Range(broadcast') = Range(broadcast) \cup {j}
    BY <1>0, <2>1, <2>2, AppendOnce DEF QueuedOnce
  <2>4. QED
    BY <1>0, <2>1, <2>3 DEF QueuedOnce, Once, Range
<1>2. CASE RunBroadcast
  <2>1. /\ broadcast # <<>> /\ broadcast' = Tail(broadcast)
        /\ \A b \in Broadcasts : b # Head(broadcast) => at'[b] = at[b]
    BY <1>0, <1>2 DEF RunBroadcast
  <2>2. Once(broadcast') /\ Range(broadcast') = Range(broadcast) \ {Head(broadcast)}
    BY <1>0, <2>1, TailOnce DEF QueuedOnce
  <2>3. QED
    BY <1>0, <2>1, <2>2 DEF QueuedOnce, Once, Range
<1>3. ASSUME broadcast' = broadcast, ~RunBroadcast,
             ~\E j \in Broadcasts, st \in Streams : Broadcast(j, st)
      PROVE  QueuedOnce'
  <2>1. ASSUME NEW b \in Range(broadcast) PROVE at'[b] = "queued"
    <3>1. b \in Broadcasts /\ at[b] = "queued"
      BY <1>0 DEF QueuedOnce
    <3>2. TaskUntouched(b)
      BY <1>3, <3>1, TaskFrame DEF RunSchedule, StartBroadcast, SendTo, Finish
    <3>3. QED
      BY <3>1, <3>2 DEF TaskUntouched
  <2>2. Once(broadcast)' /\ Range(broadcast)' = Range(broadcast)
    BY <1>3 DEF QueuedOnce, Once, Range
  <2>3. QED
    BY <2>1, <2>2 DEF QueuedOnce
<1>4. \/ RunBroadcast \/ (\E j \in Broadcasts, st \in Streams : Broadcast(j, st))
      \/ broadcast' = broadcast
  <2>1. ASSUME NEW j, BroadcastStep(j) \/ CommandStep(j) \/ SignalStep(j) PROVE broadcast' = broadcast
    BY <2>1 DEF BroadcastStep, CommandStep, SignalStep, StartBroadcast, SendTo, RemoveKicked,
       Finish, StartDisconnect, Kick, ShutdownSize, StartClosing, channelVars
  <2>2. ASSUME NEW s, SessionStep(s) PROVE broadcast' = broadcast
    BY <2>2, Zenon DEF SessionStep, AuthenticateSuccess, addSession, AuthenticateFailure, Drop,
       ReaderExit, RemoveSession, subscribeSession, RemoveSubscription, ReplyDisconnect, Subscribe,
       Unsubscribe, Perform, Command, hubSide, channelVars
  <2>3. ASSUME RunStep PROVE RunBroadcast \/ broadcast' = broadcast
    BY <2>3 DEF RunStep, RunSubscribe, RunRegister, removeSession, RunDisconnect,
       RunSchedule, RunShutdown, channelVars
  <2>4. QED
    BY <2>1, <2>2, <2>3 DEF Next, Arrival, RemoteDisconnect, Shutdown, channelVars
<1>5. QED
  BY <1>1, <1>2, <1>3, <1>4

\* What NoUnwantedDelivery needs: while a message is in flight, whatever the
\* index holds may get it, and so may what its task has found.
InFlight(b) == at[b] \notin {"idle", "done"}
DeliveryInv ==
  /\ \A b \in Broadcasts :
       /\ at[b] = "idle" => snapshot[b] = {} /\ \A x \in sent : x[1] # b
       /\ InFlight(b) => streamIds \subseteq may[b]
       /\ \A p \in snapshot[b] : <<to[b], p[1], p[2]>> \in may[b]
  /\ NoUnwantedDelivery

\* What a step may do to the task of broadcast b: it is handled once, it keeps
\* its stream, finds its sessions in the index, and sends to those it found.
TaskMoves(b) ==
  /\ at[b] # "idle" => at'[b] # "idle" /\ to'[b] = to[b]
  /\ at[b] = "idle" => snapshot'[b] = snapshot[b]
  /\ InFlight(b)' => at[b] # "done"
  /\ \A p \in snapshot'[b] :
       p \in snapshot[b] \/ (InFlight(b) /\ <<to[b], p[1], p[2]>> \in streamIds)
  /\ \A x \in sent' \ sent : x[1] = b => at[b] = "running" /\ <<x[2], x[3]>> \in snapshot[b]

\* Every step moves the task of a broadcast on that way, or leaves it alone.
LEMMA TaskSteps ==
  ASSUME TypeOK, QueuedOnce, Next, NEW b \in Broadcasts
  PROVE  TaskMoves(b)
<1>0. /\ at \in [Jobs -> Stage] /\ to \in [Jobs -> Streams \cup Idents \cup {Orphan}]
      /\ snapshot \in [Jobs -> SUBSET (Sessions \X Channels)] /\ todo \in [Jobs -> SUBSET Sessions]
      /\ Broadcasts \subseteq Jobs /\ broadcast \in Seq(Broadcasts)
  BY DEF TypeOK, JobsTypeOK, ChannelsTypeOK, Jobs
<1>1. CASE TaskUntouched(b)
  BY <1>1 DEF TaskUntouched, InFlight, TaskMoves
<1>2. ASSUME NEW st \in Streams, Broadcast(b, st) PROVE TaskMoves(b)
  BY <1>0, <1>2 DEF Broadcast, InFlight, TaskMoves
<1>3. CASE RunBroadcast /\ Head(broadcast) = b
  <2>1. at[b] = "queued"
    <3>1. broadcast # <<>>
      BY <1>3 DEF RunBroadcast
    <3>2. 1 \in DOMAIN broadcast /\ broadcast[1] = b
      BY <1>0, <1>3, <3>1
    <3>3. QED
      BY <3>2, Zenon DEF QueuedOnce, Range
  <2>2. QED
    BY <1>0, <1>3, <2>1 DEF RunBroadcast, InFlight, TaskMoves
<1>4. CASE RunSchedule(b)
  BY <1>0, <1>4 DEF RunSchedule, InFlight, TaskMoves
<1>5. CASE StartBroadcast(b)
  BY <1>0, <1>5 DEF StartBroadcast, InFlight, TaskMoves
<1>6. ASSUME NEW s \in Sessions, SendTo(b, s) PROVE TaskMoves(b)
  <2>1. at' = at /\ to' = to /\ snapshot' = snapshot /\ at[b] = "running"
    BY <1>6, Zenon DEF SendTo
  <2>2. ASSUME NEW x \in sent', x \notin sent PROVE <<x[2], x[3]>> \in snapshot[b]
    <3>1. \/ sent' = sent
          \/ sent' = sent \cup {<<b, s, ch>> : ch \in {c \in Channels : <<s, c>> \in snapshot[b]}}
      BY <1>6, Zenon DEF SendTo
    <3>2. PICK ch \in Channels : x = <<b, s, ch>> /\ <<s, ch>> \in snapshot[b]
      BY <2>2, <3>1
    <3>3. QED
      BY <3>2
  <2>3. QED
    BY <2>1, <2>2 DEF InFlight, TaskMoves
<1>7. CASE Finish(b)
  BY <1>0, <1>7 DEF Finish, InFlight, TaskMoves
<1>8. QED
  BY <1>1, <1>2, <1>3, <1>4, <1>5, <1>6, <1>7, TaskFrame

\* Every step keeps DeliveryInv.
LEMMA DeliveryStep ==
  ASSUME TypeOK, NoGhostSubscription', TypeOK', QueuedOnce, DeliveryInv, Next
  PROVE  DeliveryInv'
<1>0. sent' \subseteq Broadcasts \X Sessions \X Channels /\ streamIds' \subseteq Triples
  BY DEF TypeOK, JobsTypeOK, MapsTypeOK
<1>1. \A b \in Broadcasts : TaskMoves(b)
  BY TaskSteps
<1>2. ASSUME NEW b \in Broadcasts
      PROVE  may[b] \subseteq may'[b] /\ (InFlight(b)' => streamIds' \subseteq may'[b])
  <2>1. may'[b] = IF at'[b] = "idle" \/ at[b] = "done" THEN may[b] ELSE may[b] \cup Wanted'
    BY StepFrame DEF Track
  <2>2. streamIds' \subseteq Wanted'
    BY <1>0 DEF NoGhostSubscription, Wanted
  <2>3. QED
    BY <1>1, <2>1, <2>2 DEF InFlight, TaskMoves
<1>3. ASSUME NEW b \in Broadcasts
      PROVE  \A p \in snapshot'[b] : <<to'[b], p[1], p[2]>> \in may'[b]
  <2> SUFFICES ASSUME NEW p \in snapshot'[b] PROVE <<to'[b], p[1], p[2]>> \in may'[b]
    OBVIOUS
  <2>1. /\ at[b] # "idle" => to'[b] = to[b]
        /\ p \in snapshot[b] \/ (InFlight(b) /\ <<to[b], p[1], p[2]>> \in streamIds)
        /\ at[b] = "idle" => snapshot'[b] = snapshot[b]
    BY <1>1 DEF TaskMoves
  <2>2. /\ at[b] = "idle" => snapshot[b] = {}
        /\ InFlight(b) => streamIds \subseteq may[b]
        /\ p \in snapshot[b] => <<to[b], p[1], p[2]>> \in may[b]
    BY Zenon DEF DeliveryInv
  <2>3. to'[b] = to[b] /\ <<to[b], p[1], p[2]>> \in may[b]
    BY <2>1, <2>2
  <2>4. QED
    BY <1>2, <2>3
<1>4. ASSUME NEW b \in Broadcasts, at'[b] = "idle"
      PROVE  snapshot'[b] = {} /\ \A x \in sent' : x[1] # b
  <2>1. /\ at[b] = "idle" /\ snapshot'[b] = snapshot[b]
        /\ \A x \in sent' \ sent : x[1] = b => at[b] = "running"
    BY <1>1, <1>4 DEF TaskMoves
  <2>2. snapshot[b] = {} /\ \A x \in sent : x[1] # b
    BY <2>1, Zenon DEF DeliveryInv
  <2>3. QED
    BY <2>1, <2>2
<1>5. ASSUME NEW x \in sent' PROVE <<to'[x[1]], x[2], x[3]>> \in may'[x[1]]
  <2>1. x[1] \in Broadcasts
    BY <1>0
  <2>2. CASE x \in sent
    BY <1>1, <1>2, <2>1, <2>2 DEF DeliveryInv, NoUnwantedDelivery, TaskMoves
  <2>3. CASE x \notin sent
    <3>1. at[x[1]] = "running" /\ <<x[2], x[3]>> \in snapshot[x[1]]
      BY <1>1, <2>1, <2>3 DEF TaskMoves
    <3>2. <<to[x[1]], x[2], x[3]>> \in may[x[1]]
      BY <2>1, <3>1 DEF DeliveryInv
    <3>3. QED
      BY <1>1, <1>2, <2>1, <3>1, <3>2 DEF TaskMoves
  <2>4. QED
    BY <2>2, <2>3
<1>6. QED
  BY <1>2, <1>3, <1>4, <1>5 DEF DeliveryInv, NoUnwantedDelivery, InFlight

\* In every behaviour a message is given to Session.Send only for subscriptions
\* that the client wanted, or whose removal was on its way, while the message
\* was in flight: the snapshot a pool worker takes of the stream is never older
\* than the message.
THEOREM DeliveryWanted == Spec => []NoUnwantedDelivery
<1>1. Init => QueuedOnce /\ DeliveryInv
  <2> SUFFICES ASSUME Init PROVE QueuedOnce /\ DeliveryInv
    OBVIOUS
  <2>0. broadcast = <<>> /\ sent = {}
    BY DEF Init
  <2>1. broadcast = <<>> /\ sent = {} /\ DOMAIN broadcast = {}
    BY <2>0
  <2>2. \A b \in Broadcasts : at[b] = "idle" /\ snapshot[b] = {}
    BY DEF Init, Jobs
  <2>3. QED
    BY <2>1, <2>2 DEF QueuedOnce, Once, Range, DeliveryInv, NoUnwantedDelivery, InFlight
<1>2. /\ TypeOK /\ TypeOK' /\ NoGhostSubscription' /\ QueuedOnce /\ DeliveryInv /\ [Next]_vars
      => QueuedOnce' /\ DeliveryInv'
  <2>1. ASSUME UNCHANGED vars, QueuedOnce, DeliveryInv PROVE QueuedOnce' /\ DeliveryInv'
    <3>1. UNCHANGED <<broadcast, at, to, snapshot, sent, streamIds, may>>
      BY <2>1 DEF vars, hubSide, mapVars, indexVars, channelVars, jobVars
    <3>2. QueuedOnce'
      BY <2>1, <3>1 DEF QueuedOnce, Once, Range
    <3>3. DeliveryInv'
      BY <2>1, <3>1 DEF DeliveryInv, NoUnwantedDelivery, InFlight
    <3>4. QED
      BY <3>2, <3>3
  <2>2. QED
    BY <2>1, QueuedStep, DeliveryStep
<1>3. DeliveryInv => NoUnwantedDelivery
  BY DEF DeliveryInv
<1>4. QED
  BY <1>1, <1>2, <1>3, TypeCorrect, NoGhosts, PTL DEF Spec

\* What BroadcastComplete needs: whoever must still get a message in flight is
\* in the index and registered, and once the task runs each of them has got it
\* or is still to be visited.
CompleteInv ==
  /\ \A b \in Broadcasts :
       /\ InFlight(b) => must[b] \subseteq Live
       /\ at[b] = "running" =>
            \A t \in must[b] : t[1] = to[b] =>
              \/ <<b, t[2], t[3]>> \in sent
              \/ t[2] \in todo[b] /\ <<t[2], t[3]>> \in snapshot[b]
  /\ BroadcastComplete

\* Every step keeps CompleteInv.
LEMMA CompleteStep ==
  ASSUME TypeOK, IndexCoherent, QueuedOnce, CompleteInv, Next
  PROVE  CompleteInv'
<1> SUFFICES ASSUME NEW b \in Broadcasts
             PROVE  /\ InFlight(b)' => must'[b] \subseteq Live'
                    /\ at'[b] = "running" =>
                         \A t \in must'[b] : t[1] = to'[b] =>
                           \/ <<b, t[2], t[3]>> \in sent'
                           \/ t[2] \in todo'[b] /\ <<t[2], t[3]>> \in snapshot'[b]
                    /\ at'[b] = "done" =>
                         \A t \in must'[b] : t[1] = to'[b] => <<b, t[2], t[3]>> \in sent'
  BY DEF CompleteInv, BroadcastComplete, InFlight
<1>0. /\ at \in [Jobs -> Stage] /\ todo \in [Jobs -> SUBSET Sessions]
      /\ snapshot \in [Jobs -> SUBSET (Sessions \X Channels)]
      /\ b \in Jobs /\ broadcast \in Seq(Broadcasts) /\ streamIds \subseteq Triples
      /\ must \in [Broadcasts -> SUBSET Triples]
  BY DEF TypeOK, JobsTypeOK, ChannelsTypeOK, MapsTypeOK, HistoryTypeOK, Jobs
<1>1. TaskMoves(b)
  BY TaskSteps
<1>2. /\ must'[b] = IF at'[b] = "idle" \/ at[b] = "done" THEN must[b] ELSE must[b] \cap Live'
      /\ sent \subseteq sent'
  BY StepFrame DEF Track
<1>3. must'[b] \subseteq must[b] /\ (at'[b] # "idle" /\ at[b] # "done" => must'[b] \subseteq Live')
  BY <1>2
<1>4. InFlight(b)' => must'[b] \subseteq Live'
  BY <1>1, <1>3 DEF InFlight, TaskMoves
<1>5. ASSUME NEW t \in must'[b], t[1] = to'[b], at'[b] = "running"
      PROVE  <<b, t[2], t[3]>> \in sent' \/ (t[2] \in todo'[b] /\ <<t[2], t[3]>> \in snapshot'[b])
  <2>0. t \in must[b] /\ t \in Live' /\ t \in Triples
    BY <1>0, <1>3, <1>4, <1>5 DEF InFlight
  <2>1. CASE TaskUntouched(b)
    BY <1>2, <1>5, <2>0, <2>1 DEF TaskUntouched, CompleteInv
  <2>2. CASE StartBroadcast(b)
    <3>1. /\ at[b] = "pooled" /\ to' = to
          /\ snapshot'[b] = {p \in Sessions \X Channels : <<to[b], p[1], p[2]>> \in streamIds}
          /\ todo'[b] = {s \in Sessions : <<to[b], s>> \in streamSessions}
      BY <1>0, <2>2 DEF StartBroadcast
    <3>2. t \in streamIds /\ t[2] \in Sessions /\ t[3] \in Channels /\ t = <<to[b], t[2], t[3]>>
      <4>1. t \in streamIds
        <5>1. InFlight(b)
          BY <3>1 DEF InFlight
        <5>2. must[b] \subseteq Live
          BY <5>1, Zenon DEF CompleteInv
        <5>3. QED
          BY <2>0, <5>2 DEF Live
      <4>2. t[2] \in Sessions /\ t[3] \in Channels /\ t = <<t[1], t[2], t[3]>>
        <5>1. t \in Streams \X Sessions \X Channels
          BY <2>0 DEF Triples
        <5>2. QED
          BY <5>1, SMTT(60)
      <4>3. t[1] = to[b]
        BY <1>5, <3>1
      <4>4. QED
        BY <4>1, <4>2, <4>3
    <3>3. <<to[b], t[2]>> \in streamSessions
      BY <1>5, <3>1, <3>2, Zenon DEF IndexCoherent
    <3>4. QED
      BY <3>1, <3>2, <3>3
  <2>3. ASSUME NEW s \in Sessions, SendTo(b, s)
        PROVE  <<b, t[2], t[3]>> \in sent' \/ (t[2] \in todo'[b] /\ <<t[2], t[3]>> \in snapshot'[b])
    <3>1. /\ at[b] = "running" /\ to' = to /\ snapshot' = snapshot /\ sessions' = sessions
          /\ todo'[b] = todo[b] \ {s}
      BY <1>0, <2>3 DEF SendTo, restAfter, mapVars, registryVars
    <3>2. CASE t[2] # s
      BY <1>2, <1>5, <2>0, <3>1, <3>2 DEF CompleteInv
    <3>3. CASE t[2] = s /\ <<t[2], t[3]>> \in snapshot[b]
      <4>1. s \in sessions /\ t[3] \in Channels
        BY <2>0, <3>1, <3>3 DEF Live, Triples
      <4>2. sent' = sent \cup {<<b, s, ch>> : ch \in {c \in Channels : <<s, c>> \in snapshot[b]}}
        BY <2>3, <4>1, Zenon DEF SendTo
      <4>3. QED
        BY <3>3, <4>1, <4>2
    <3>4. QED
      BY <1>2, <1>5, <2>0, <3>1, <3>2, <3>3 DEF CompleteInv
  <2>4. CASE RunBroadcast \/ RunSchedule(b) \/ Finish(b) \/ \E st \in Streams : Broadcast(b, st)
    <3>1. at'[b] = at[b] \/ at'[b] # "running"
      BY <1>0, <2>4 DEF RunBroadcast, RunSchedule, Finish, Broadcast
    <3>2. at[b] # "running" \/ (RunBroadcast /\ to' = to /\ snapshot' = snapshot /\ todo' = todo)
      BY <1>0, <1>5, <2>4 DEF RunBroadcast, RunSchedule, Finish, Broadcast
    <3>3. QED
      BY <1>2, <1>5, <2>0, <3>1, <3>2 DEF CompleteInv
  <2>5. QED
    BY <2>1, <2>2, <2>3, <2>4, TaskFrame
<1>6. ASSUME NEW t \in must'[b], t[1] = to'[b], at'[b] = "done"
      PROVE  <<b, t[2], t[3]>> \in sent'
  <2>1. CASE at[b] = "done"
    BY <1>1, <1>2, <1>3, <1>6, <2>1 DEF TaskMoves, CompleteInv, BroadcastComplete
  <2>2. CASE at[b] # "done" /\ RunBroadcast /\ Head(broadcast) = b
    <3>1. to' = to /\ streamIds' = streamIds /\ to[b] \notin streams
      BY <1>0, <1>6, <2>2 DEF RunBroadcast, mapVars, indexVars
    <3>2. t \in streamIds
      BY <1>3, <1>6, <2>2, <3>1 DEF Live
    <3>3. t[1] \in streams
      BY <3>2, Zenon DEF IndexCoherent
    <3>4. QED
      BY <1>6, <3>1, <3>3
  <2>3. CASE at[b] # "done" /\ Finish(b)
    <3>1. at[b] = "running" /\ todo[b] = {} /\ to' = to
      BY <2>3 DEF Finish, loopOver
    <3>2. QED
      BY <1>2, <1>3, <1>6, <3>1, Zenon DEF CompleteInv
  <2>4. CASE /\ at[b] # "done" /\ ~Finish(b)
             /\ ~(RunBroadcast /\ Head(broadcast) = b)
    BY <1>0, <1>6, <2>4, TaskFrame DEF TaskUntouched, RunSchedule, StartBroadcast, SendTo, Broadcast
  <2>5. QED
    BY <2>1, <2>2, <2>3, <2>4
<1>7. QED
  BY <1>4, <1>5, <1>6

\* In every behaviour a subscription that a registered session holds from the
\* moment a message is published until its task has finished gets the message:
\* neither the way through h.broadcast and the pool nor the sessions that leave
\* the stream in between make the task skip it.
THEOREM BroadcastIsComplete == Spec => []BroadcastComplete
<1>1. Init => QueuedOnce /\ CompleteInv
  <2> SUFFICES ASSUME Init PROVE QueuedOnce /\ CompleteInv
    OBVIOUS
  <2>1. broadcast = <<>> /\ DOMAIN broadcast = {}
    BY DEF Init
  <2>2. \A b \in Broadcasts : at[b] = "idle"
    BY DEF Init, Jobs
  <2>3. QED
    BY <2>1, <2>2 DEF QueuedOnce, Once, Range, CompleteInv, BroadcastComplete, InFlight
<1>2. TypeOK /\ IndexCoherent /\ QueuedOnce /\ CompleteInv /\ [Next]_vars
        => QueuedOnce' /\ CompleteInv'
  <2>1. ASSUME UNCHANGED vars, QueuedOnce, CompleteInv PROVE QueuedOnce' /\ CompleteInv'
    <3>1. UNCHANGED <<broadcast, at, to, snapshot, todo, sent, streamIds, sessions, must>>
      BY <2>1 DEF vars, hubSide, mapVars, registryVars, indexVars, channelVars, jobVars
    <3>2. QueuedOnce'
      BY <2>1, <3>1 DEF QueuedOnce, Once, Range
    <3>3. CompleteInv'
      BY <2>1, <3>1 DEF CompleteInv, BroadcastComplete, InFlight, Live
    <3>4. QED
      BY <3>2, <3>3
  <2>2. QED
    BY <2>1, QueuedStep, CompleteStep
<1>3. CompleteInv => BroadcastComplete
  BY DEF CompleteInv
<1>4. QED
  BY <1>1, <1>2, <1>3, TypeCorrect, IndexIsCoherent, PTL DEF Spec
=============================================================================
