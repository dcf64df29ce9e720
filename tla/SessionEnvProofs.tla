-------------------------- MODULE SessionEnvProofs --------------------------
(* Theorems about the data of a session: what its requests carry, and what *)
(* the application has been told when it is over. They hold for any        *)
(* channels, field values and replies, and any number of commands, retries *)
(* and calls of MergeEnv.                                                  *)
EXTENDS SessionEnv, FiniteSetTheorems, TLAPS

Fields == Values \cup {""}
Data == [Maps -> [Keys -> Fields]]

ReaderPlaces == {"idle", "build", "encode", "sent", "record", "mergeI", "mergeC", "over"}
WorkerPlaces == {"none", "queued", "list", "build", "encode", "sent", "failed", "told"}

TypeInv ==
  /\ env \in Data /\ truth \in Data /\ message \in [Callers -> Data]
  /\ subscriptions \subseteq Channels /\ listed \subseteq Channels
  /\ reader \in ReaderPlaces /\ worker \in WorkerPlaces
  /\ cmd \in [kind : Kinds \cup {"connect"}, channel : Maps]
  /\ (cmd.kind = "connect") <=> (cmd.channel = Conn)
  /\ reader = "mergeI" => cmd.kind # "connect"
  /\ reply \in [status : Statuses, change : Change]

DomainInv == DOMAIN disturbed = Callers

\* The reader has a reply that it has not merged yet.
Pending == reader \in {"record", "mergeI", "mergeC"}
Rejected == reader = "record" /\ cmd.kind = "connect" /\ error(reply.status)

\* What a field will be once the reply at hand is merged.
Expected(m, k) ==
  IF k = "app" /\ m = Conn /\ Pending /\ ~Rejected THEN merged(env[m][k], reply.change[1])
  ELSE IF k = "app" /\ m = cmd.channel /\ m # Conn /\ reader \in {"record", "mergeI"}
       THEN merged(env[m][k], reply.change[2])
  ELSE env[m][k]

EnvInv == \A m \in Maps, k \in Keys : truth[m][k] = Expected(m, k)

\* Only the reader writes the application's fields, and not while it calls.
ReaderInv ==
  reader \in {"encode", "sent"} =>
    \A m \in Carries("reader") : message["reader"][m]["app"] = env[m]["app"]

\* A request that was not disturbed holds what is in the maps, ...
Quiet(w) ==
  Place(w) \in {"encode", "sent"} /\ ~disturbed[w] => \A m \in Carries(w) : message[w][m] = env[m]
QuietInv == \A w \in Callers : Quiet(w)

\* ... and for that of the worker the reader has nothing left to merge.
MergedInv == Busy("worker") /\ ~disturbed["worker"] => ~Pending

\* The replies and s.subscriptions agree once the reply is recorded.
ListedInv ==
  /\ listed = IF reader = "record" THEN recorded(subscriptions, reply.status) ELSE subscriptions
  /\ IsFiniteSet(subscriptions) /\ IsFiniteSet(list)
  /\ worker \in {"list", "build", "encode", "sent"} /\ ~disturbed["worker"] => list = subscriptions

CarryInv == TypeInv /\ DomainInv /\ EnvInv /\ ReaderInv /\ QuietInv /\ MergedInv /\ ListedInv

\* The channel of a Subscribe that has been answered and not recorded.
Unrecorded ==
  IF reader = "record" /\ cmd.kind = "subscribe" /\ ~error(reply.status) THEN {cmd.channel} ELSE {}

\* The application holds nothing but what the replies said or could not say;
\* once the subscriptions are listed, nothing but what is in the list, what is
\* excused, and what is about to be.
ToldInv ==
  /\ opened \subseteq listed \cup excused
  /\ worker \in {"list", "build", "encode", "sent"} =>
       opened \subseteq list \cup excused \cup Unrecorded
  /\ worker = "told" => opened \subseteq excused \cup Unrecorded

-----------------------------------------------------------------------------
(* Fields of maps.                                                         *)

\* A merge writes one field of one map, ...
LEMMA MergeAt ==
  ASSUME NEW data \in Data, NEW m \in Maps, NEW k \in Keys, NEW new
  PROVE  \A n \in Maps, j \in Keys :
           Merge(data, m, k, new)[n][j] =
             IF n = m /\ j = k THEN merged(data[m][k], new) ELSE data[n][j]
BY DEF Data, Merge

\* ... with a value a field can have.
LEMMA MergeType ==
  ASSUME NEW data \in Data, NEW m \in Maps, NEW k \in Keys, NEW new \in Fields \cup {Keep}
  PROVE  Merge(data, m, k, new) \in Data
<1>1. merged(data[m][k], new) \in Fields
  BY DEF Data, merged
<1>2. QED
  BY <1>1 DEF Data, Merge

\* What the application and the callers of MergeEnv mean is the same write.
LEMMA MeantAt ==
  ASSUME NEW data \in Data, NEW m \in Maps, NEW k \in Keys, NEW new
  PROVE  \A n \in Maps, j \in Keys :
           Meant(data, m, k, new)[n][j] =
             IF n = m /\ j = k THEN merged(data[m][k], new) ELSE data[n][j]
BY DEF Data, Meant, merged

\* It leaves maps of fields.
LEMMA MeantType ==
  ASSUME NEW data \in Data, NEW m \in Maps, NEW k \in Keys, NEW new \in Fields \cup {Keep}
  PROVE  Meant(data, m, k, new) \in Data
BY DEF Data, Meant

\* The changes a reply carries are of fields, or say nothing.
LEMMA ChangeType ==
  ASSUME NEW change \in Change
  PROVE  change[1] \in Fields \cup {Keep} /\ change[2] \in Fields \cup {Keep}
BY DEF Change, Fields

-----------------------------------------------------------------------------
(* The steps, by what they write.                                          *)

\* The steps that write neither the maps nor what they should hold: the reader
\* is about to call, calls, or stays where it is.
LEMMA Silent ==
  ASSUME TypeInv,
         \/ \E w \in Callers : Build(w) \/ Encoded(w) \/ Lost(w)
         \/ \E status \in Statuses : DisconnectAnswer(status)
         \/ ListLen \/ ListKeys \/ Disconnect \/ UNCHANGED vars
         \/ \E kind \in Kinds, ch \in Channels : Refuse(kind, ch) \/ Begin(kind, ch)
  PROVE  /\ UNCHANGED <<env, truth, subscriptions, listed, reply>>
         /\ \/ UNCHANGED <<reader, cmd>>
            \/ ~Pending /\ ~Pending'
<1>1. ASSUME NEW w \in Callers, Build(w) \/ Encoded(w) \/ Lost(w)
      PROVE  /\ UNCHANGED <<env, truth, subscriptions, listed, reply, cmd>>
             /\ reader' = reader \/ (~Pending /\ ~Pending')
  <2>1. UNCHANGED <<env, truth, subscriptions, listed, reply, cmd>>
    BY <1>1 DEF Build, Encoded, Lost, dataVars, historyVars
  <2>2. reader' = reader \/ (~Pending /\ ~Pending')
    BY <1>1 DEF Build, Encoded, Lost, Goto, Place, Pending, Callers
  <2>3. QED
    BY <2>1, <2>2
<1>2. ASSUME NEW kind \in Kinds, NEW ch \in Channels, Begin(kind, ch)
      PROVE  /\ UNCHANGED <<env, truth, subscriptions, listed, reply>> /\ ~Pending /\ ~Pending'
  BY <1>2 DEF Begin, Pending, dataVars, historyVars
<1>3. ASSUME \/ \E status \in Statuses : DisconnectAnswer(status)
             \/ ListLen \/ ListKeys \/ Disconnect \/ UNCHANGED vars
             \/ \E kind \in Kinds, ch \in Channels : Refuse(kind, ch)
      PROVE  UNCHANGED <<env, truth, subscriptions, listed, reply, reader, cmd>>
  BY <1>3 DEF DisconnectAnswer, ListLen, ListKeys, Disconnect, Refuse, vars, dataVars,
              historyVars, readerVars
<1>4. QED
  BY <1>1, <1>2, <1>3

\* The maps agree with what they should hold as long as none is written.
LEMMA EnvFrame ==
  ASSUME EnvInv, UNCHANGED <<env, truth, reply>>,
         UNCHANGED <<reader, cmd>> \/ (~Pending /\ ~Pending')
  PROVE  EnvInv'
<1>1. ASSUME NEW m \in Maps, NEW k \in Keys PROVE Expected(m, k)' = Expected(m, k)
  <2>1. CASE UNCHANGED <<reader, cmd>>
    BY <2>1 DEF Expected, Pending, Rejected, merged
  <2>2. CASE ~Pending /\ ~Pending'
    BY <2>2 DEF Expected, Pending
  <2>3. QED
    BY <2>1, <2>2
<1>2. QED
  BY <1>1 DEF EnvInv

\* A reply changes what the maps should hold; they will once it is merged.
LEMMA EnvAnswer ==
  ASSUME TypeInv, EnvInv, NEW status \in Statuses, NEW change \in Changes, Answer(status, change)
  PROVE  EnvInv' /\ truth' \in Data
<1> DEFINE c1 == change[1]
           c2 == change[2]
           t1 == Meant(truth, Conn, "app", c1)
           ch == cmd.channel
<1>1. /\ reader = "sent" /\ reader' = "record" /\ reply' = [status |-> status, change |-> change]
      /\ UNCHANGED <<env, cmd>>
      /\ truth' = CASE cmd.kind # "connect" -> Meant(t1, ch, "app", c2)
                    [] cmd.kind = "connect" /\ status # "ERROR" -> t1
                    [] OTHER -> truth
  BY DEF Answer, dataVars
<1>2. c1 \in Fields \cup {Keep} /\ c2 \in Fields \cup {Keep} /\ change \in Change
  BY SessionEnvAssumption, ChangeType
<1>3. reply'.status = status /\ reply'.change = change
  BY <1>1
<1>4. /\ env \in Data /\ truth \in Data /\ ch \in Maps /\ Conn \in Maps
      /\ "app" \in Keys /\ (cmd.kind = "connect" <=> ch = Conn)
  BY DEF TypeInv, Maps, Keys
<1>5. \A m \in Maps, k \in Keys : truth[m][k] = env[m][k]
  BY <1>1 DEF EnvInv, Expected, Pending
<1>6. t1 \in Data
  BY <1>2, <1>4, MeantType
<1>7. \A m \in Maps, k \in Keys :
        t1[m][k] = IF m = Conn /\ k = "app" THEN merged(truth[Conn]["app"], c1) ELSE truth[m][k]
  BY <1>4, MeantAt
<1>8. CASE cmd.kind # "connect"
  <2>1. truth' = Meant(t1, ch, "app", c2)
    BY <1>1, <1>8
  <2>2. truth' \in Data
    BY <1>2, <1>4, <1>6, <2>1, MeantType
  <2>3. \A m \in Maps, k \in Keys :
          truth'[m][k] = IF m = ch /\ k = "app" THEN merged(t1[ch]["app"], c2) ELSE t1[m][k]
    BY <1>4, <1>6, <2>1, MeantAt
  <2>4. ASSUME NEW m \in Maps, NEW k \in Keys PROVE truth'[m][k] = Expected(m, k)'
    <3>1. Pending' /\ ~Rejected' /\ ch # Conn
      BY <1>1, <1>4, <1>8 DEF Pending, Rejected
    <3>2. Expected(m, k)' = IF k = "app" /\ m = Conn THEN merged(env[m][k], c1)
                            ELSE IF k = "app" /\ m = ch THEN merged(env[m][k], c2) ELSE env[m][k]
      BY <1>1, <1>3, <3>1 DEF Expected, merged
    <3>3. QED
      BY <1>4, <1>5, <1>7, <2>3, <3>1, <3>2
  <2>5. QED
    BY <2>2, <2>4 DEF EnvInv
<1>9. CASE cmd.kind = "connect" /\ status # "ERROR"
  <2>1. truth' = t1
    BY <1>1, <1>9
  <2>2. ASSUME NEW m \in Maps, NEW k \in Keys PROVE truth'[m][k] = Expected(m, k)'
    <3>1. Pending' /\ ~Rejected' /\ ch = Conn
      BY <1>1, <1>3, <1>4, <1>9 DEF Pending, Rejected, error
    <3>2. Expected(m, k)' = IF k = "app" /\ m = Conn THEN merged(env[m][k], c1) ELSE env[m][k]
      BY <1>1, <1>3, <3>1 DEF Expected, merged
    <3>3. QED
      BY <1>4, <1>5, <1>7, <2>1, <3>2
  <2>3. QED
    BY <1>6, <2>1, <2>2 DEF EnvInv
<1>10. CASE cmd.kind = "connect" /\ status = "ERROR"
  <2>1. truth' = truth
    BY <1>1, <1>10
  <2>2. ASSUME NEW m \in Maps, NEW k \in Keys PROVE truth'[m][k] = Expected(m, k)'
    <3>1. Rejected' /\ ch = Conn
      BY <1>1, <1>3, <1>4, <1>10 DEF Rejected, error
    <3>2. Expected(m, k)' = env[m][k]
      BY <1>1, <1>3, <3>1 DEF Expected
    <3>3. QED
      BY <1>5, <2>1, <3>2
  <2>3. QED
    BY <1>4, <2>1, <2>2 DEF EnvInv
<1>11. QED
  BY <1>8, <1>9, <1>10

\* Recording the reply leaves the merges to be done.
LEMMA EnvRecord ==
  ASSUME TypeInv, EnvInv, Record
  PROVE  EnvInv'
<1>1. /\ reader = "record" /\ UNCHANGED <<env, cmd, reply, truth>>
      /\ reader' = IF cmd.kind = "connect"
                   THEN (IF error(reply.status) THEN "over" ELSE "mergeC") ELSE "mergeI"
  BY DEF Record
<1>2. cmd.kind = "connect" <=> cmd.channel = Conn
  BY DEF TypeInv
<1>3. ASSUME NEW m \in Maps, NEW k \in Keys PROVE Expected(m, k)' = Expected(m, k)
  <2>1. CASE cmd.kind = "connect"
    BY <1>1, <1>2, <2>1 DEF Expected, Pending, Rejected, merged, error
  <2>2. CASE cmd.kind # "connect"
    BY <1>1, <1>2, <2>2 DEF Expected, Pending, Rejected, merged, error
  <2>3. QED
    BY <2>1, <2>2
<1>4. QED
  BY <1>1, <1>3 DEF EnvInv

\* The two merges of the reply, one map each.
LEMMA EnvMerge ==
  ASSUME TypeInv, EnvInv, MergeChannelState \/ MergeConnectionState
  PROVE  EnvInv' /\ env' \in Data
<1>0. /\ env \in Data /\ cmd.channel \in Maps /\ Conn \in Maps /\ "app" \in Keys
      /\ reply.change[1] \in Fields \cup {Keep} /\ reply.change[2] \in Fields \cup {Keep}
  BY ChangeType DEF TypeInv, Maps, Keys
<1>1. CASE MergeChannelState
  <2>1. /\ reader = "mergeI" /\ reader' = "mergeC" /\ UNCHANGED <<cmd, reply, truth>>
        /\ env' = Merge(env, cmd.channel, "app", reply.change[2])
    BY <1>1 DEF MergeChannelState
  <2>2. env' \in Data
    BY <1>0, <2>1, MergeType
  <2>3. \A m \in Maps, k \in Keys :
          env'[m][k] = IF m = cmd.channel /\ k = "app"
                       THEN merged(env[cmd.channel]["app"], reply.change[2]) ELSE env[m][k]
    BY <1>0, <2>1, MergeAt
  <2>4. ASSUME NEW m \in Maps, NEW k \in Keys PROVE truth'[m][k] = Expected(m, k)'
    <3>1. cmd.channel # Conn /\ Pending /\ ~Rejected /\ Pending' /\ ~Rejected'
      BY <2>1 DEF TypeInv, Pending, Rejected
    <3>2. Expected(m, k) = IF k = "app" /\ m = Conn THEN merged(env[m][k], reply.change[1])
                           ELSE IF k = "app" /\ m = cmd.channel
                                THEN merged(env[m][k], reply.change[2]) ELSE env[m][k]
      BY <2>1, <3>1 DEF Expected
    <3>3. Expected(m, k)' = IF k = "app" /\ m = Conn THEN merged(env'[m][k], reply.change[1])
                            ELSE env'[m][k]
      BY <2>1, <3>1 DEF Expected, merged
    <3>4. QED
      BY <2>1, <2>3, <3>1, <3>2, <3>3 DEF EnvInv
  <2>5. QED
    BY <2>2, <2>4 DEF EnvInv
<1>2. CASE MergeConnectionState
  <2>1. /\ reader = "mergeC" /\ reader' = "idle" /\ UNCHANGED <<cmd, truth>>
        /\ env' = Merge(env, Conn, "app", reply.change[1])
    BY <1>2 DEF MergeConnectionState
  <2>2. env' \in Data
    BY <1>0, <2>1, MergeType
  <2>3. \A m \in Maps, k \in Keys :
          env'[m][k] = IF m = Conn /\ k = "app"
                       THEN merged(env[Conn]["app"], reply.change[1]) ELSE env[m][k]
    BY <1>0, <2>1, MergeAt
  <2>4. ASSUME NEW m \in Maps, NEW k \in Keys PROVE truth'[m][k] = Expected(m, k)'
    <3>1. ~Pending' /\ Pending /\ ~Rejected
      BY <2>1 DEF Pending, Rejected
    <3>2. Expected(m, k)' = env'[m][k]
      BY <3>1 DEF Expected, Pending
    <3>3. Expected(m, k) = IF k = "app" /\ m = Conn THEN merged(env[m][k], reply.change[1])
                           ELSE env[m][k]
      BY <2>1, <3>1 DEF Expected
    <3>4. QED
      BY <2>1, <2>3, <3>2, <3>3 DEF EnvInv
  <2>5. QED
    BY <2>2, <2>4 DEF EnvInv
<1>3. QED
  BY <1>1, <1>2

\* MergeEnv writes a field of its own, in the maps and in what they should hold.
LEMMA EnvMergeEnv ==
  ASSUME TypeInv, EnvInv, NEW m \in Maps, NEW v \in Values,
         env' = Merge(env, m, "own", v), truth' = Meant(truth, m, "own", v),
         UNCHANGED <<reader, cmd, reply>>
  PROVE  EnvInv' /\ env' \in Data /\ truth' \in Data
<1>0. env \in Data /\ truth \in Data /\ "own" \in Keys /\ v \in Fields \cup {Keep}
  BY DEF TypeInv, Keys, Fields
<1>1. env' \in Data /\ truth' \in Data
  BY <1>0, MergeType, MeantType
<1>2. \A n \in Maps, k \in Keys :
        env'[n][k] = IF n = m /\ k = "own" THEN merged(env[m]["own"], v) ELSE env[n][k]
  BY <1>0, MergeAt
<1>3. \A n \in Maps, k \in Keys :
        truth'[n][k] = IF n = m /\ k = "own" THEN merged(truth[m]["own"], v) ELSE truth[n][k]
  BY <1>0, MeantAt
<1>4. ASSUME NEW n \in Maps, NEW k \in Keys PROVE truth'[n][k] = Expected(n, k)'
  <2>1. truth[n][k] = Expected(n, k)
    BY DEF EnvInv
  <2>2. CASE k = "app"
    <3>1. env'[n][k] = env[n][k] /\ truth'[n][k] = truth[n][k]
      BY <1>2, <1>3, <2>2
    <3>2. Expected(n, k)' = Expected(n, k)
      BY <3>1 DEF Expected, Pending, Rejected, merged
    <3>3. QED
      BY <2>1, <3>1, <3>2
  <2>3. CASE k = "own"
    <3>1. Expected(n, k) = env[n][k] /\ Expected(n, k)' = env'[n][k]
      BY <2>3 DEF Expected
    <3>2. truth[m]["own"] = env[m]["own"]
      BY <1>0 DEF EnvInv, Expected
    <3>3. QED
      BY <1>2, <1>3, <2>1, <3>1, <3>2
  <2>4. QED
    BY <2>2, <2>3 DEF Keys
<1>5. QED
  BY <1>1, <1>4 DEF EnvInv

\* EnvInv is inductive.
LEMMA EnvStep ==
  ASSUME TypeInv, EnvInv, [Next]_vars
  PROVE  EnvInv' /\ env' \in Data /\ truth' \in Data
<1>0. env \in Data /\ truth \in Data
  BY DEF TypeInv
<1>1. ASSUME UNCHANGED <<env, truth, reply>>,
             UNCHANGED <<reader, cmd>> \/ (~Pending /\ ~Pending')
      PROVE  EnvInv' /\ env' \in Data /\ truth' \in Data
  BY <1>0, <1>1, EnvFrame
<1>2. CASE \/ \E w \in Callers : Build(w) \/ Encoded(w) \/ Lost(w)
           \/ \E status \in Statuses : DisconnectAnswer(status)
           \/ ListLen \/ ListKeys \/ Disconnect \/ UNCHANGED vars
           \/ \E kind \in Kinds, ch \in Channels : Refuse(kind, ch) \/ Begin(kind, ch)
  BY <1>1, <1>2, Silent
<1>3. CASE \E status \in Statuses, change \in Changes : Answer(status, change)
  <2>1. env' = env
    BY <1>3 DEF Answer, dataVars
  <2>2. QED
    BY <1>0, <1>3, <2>1, EnvAnswer
<1>4. CASE Record
  <2>1. UNCHANGED <<env, truth>>
    BY <1>4 DEF Record
  <2>2. QED
    BY <1>0, <1>4, <2>1, EnvRecord
<1>5. CASE MergeChannelState \/ MergeConnectionState
  <2>1. truth' = truth
    BY <1>5 DEF MergeChannelState, MergeConnectionState
  <2>2. QED
    BY <1>0, <1>5, <2>1, EnvMerge
<1>6. ASSUME NEW v \in Values, MergeEnvConnection(v)
      PROVE  EnvInv' /\ env' \in Data /\ truth' \in Data
  <2>1. /\ env' = Merge(env, Conn, "own", v) /\ truth' = Meant(truth, Conn, "own", v)
        /\ UNCHANGED <<reader, cmd, reply>> /\ Conn \in Maps
    BY <1>6 DEF MergeEnvConnection, readerVars, Maps
  <2>2. QED
    BY <2>1, EnvMergeEnv
<1>7. ASSUME NEW ch \in Channels, NEW v \in Values, MergeEnvChannel(ch, v)
      PROVE  EnvInv' /\ env' \in Data /\ truth' \in Data
  <2>1. /\ env' = Merge(env, ch, "own", v) /\ truth' = Meant(truth, ch, "own", v)
        /\ UNCHANGED <<reader, cmd, reply>> /\ ch \in Maps
    BY <1>7 DEF MergeEnvChannel, readerVars, Maps
  <2>2. QED
    BY <2>1, EnvMergeEnv
<1>8. QED
  BY <1>2, <1>3, <1>4, <1>5, <1>6, <1>7 DEF Next, Internal

\* What a request is built from and encoded to are fields of the maps.
LEMMA MessageType ==
  ASSUME TypeInv, [Next]_vars
  PROVE  message' \in [Callers -> Data]
<1>0. message \in [Callers -> Data] /\ env \in Data
  BY DEF TypeInv
<1>1. Empty \in Data
  BY DEF Empty, Data, Fields
<1>2. ASSUME NEW w \in Callers, Discard(w) PROVE message' \in [Callers -> Data]
  BY <1>0, <1>1, <1>2 DEF Discard
<1>3. ASSUME NEW w \in Callers, Build(w) PROVE message' \in [Callers -> Data]
  <2>1. build(w) \in Data
    BY <1>0, <1>1 DEF build, Data
  <2>2. QED
    BY <1>0, <1>3, <2>1 DEF Build
<1>4. ASSUME NEW w \in Callers, Encoded(w) PROVE message' \in [Callers -> Data]
  <2>1. PICK new : message' = [message EXCEPT ![w] = encoded(w, new)]
    BY <1>4 DEF Encoded
  <2>2. encoded(w, new) \in Data
    BY <1>0 DEF encoded, Data
  <2>3. QED
    BY <1>0, <2>1, <2>2
<1>5. ASSUME NEW w \in Callers, Lost(w) PROVE message' \in [Callers -> Data]
  BY <1>0, <1>2, <1>5 DEF Lost
<1>6. ASSUME \/ \E status \in Statuses : DisconnectAnswer(status)
             \/ \E status \in Statuses, change \in Changes : Answer(status, change)
      PROVE  message' \in [Callers -> Data]
  BY <1>2, <1>6 DEF DisconnectAnswer, Answer, Callers
<1>7. ASSUME \/ ListLen \/ ListKeys \/ Disconnect \/ UNCHANGED vars
             \/ \E kind \in Kinds, ch \in Channels : Refuse(kind, ch) \/ Begin(kind, ch)
             \/ Record \/ MergeChannelState \/ MergeConnectionState
             \/ \E v \in Values : MergeEnvConnection(v)
             \/ \E ch \in Channels, v \in Values : MergeEnvChannel(ch, v)
      PROVE  message' \in [Callers -> Data]
  <2>1. message' = message
    BY <1>7 DEF ListLen, ListKeys, Disconnect, vars, Refuse, Begin, Record, MergeChannelState,
                MergeConnectionState, MergeEnvConnection, MergeEnvChannel, callVars
  <2>2. QED
    BY <1>0, <2>1
<1>8. QED
  BY <1>3, <1>4, <1>5, <1>6, <1>7 DEF Next, Internal

\* A reply lists and records channels.
LEMMA RecordedType ==
  ASSUME TypeInv, NEW subs \in SUBSET Channels, NEW status
  PROVE  recorded(subs, status) \in SUBSET Channels
<1>1. cmd.kind \in {"subscribe", "unsubscribe"} => cmd.channel \in Channels
  BY DEF TypeInv, Maps
<1>2. QED
  BY <1>1 DEF recorded

\* TypeInv is inductive, given EnvInv.
LEMMA TypeStep ==
  ASSUME TypeInv, EnvInv, [Next]_vars
  PROVE  TypeInv'
<1>1. env' \in Data /\ truth' \in Data /\ message' \in [Callers -> Data]
  BY EnvStep, MessageType
<1>2. ASSUME /\ UNCHANGED <<subscriptions, listed, reply>>
             /\ reader' \in ReaderPlaces /\ worker' \in WorkerPlaces
             /\ cmd' = cmd /\ (reader' = "mergeI" => reader = "mergeI")
      PROVE  TypeInv'
  BY <1>1, <1>2 DEF TypeInv
<1>3. ASSUME NEW w \in Callers, Build(w) \/ Encoded(w) \/ Lost(w) PROVE TypeInv'
  <2>1. UNCHANGED <<subscriptions, listed, reply, cmd>>
    BY <1>3 DEF Build, Encoded, Lost, dataVars, historyVars
  <2>2. PICK p \in {"build", "encode", "sent", "idle", "over", "failed"} :
          Goto(w, p) /\ (w = "reader" => p # "failed") /\ (w = "worker" => p \notin {"idle", "over"})
    BY <1>3 DEF Build, Encoded, Lost, Callers
  <2>3. reader' \in ReaderPlaces /\ worker' \in WorkerPlaces /\ (reader' = "mergeI" => reader = "mergeI")
    BY <2>2 DEF Goto, TypeInv, ReaderPlaces, WorkerPlaces, Callers
  <2>4. QED
    BY <1>2, <2>1, <2>3
<1>4. CASE \/ \E status \in Statuses : DisconnectAnswer(status)
           \/ ListLen \/ ListKeys \/ Disconnect \/ UNCHANGED vars
           \/ \E kind \in Kinds, ch \in Channels : Refuse(kind, ch)
  <2>1. UNCHANGED <<subscriptions, listed, reply, cmd, reader>>
    BY <1>4 DEF DisconnectAnswer, ListLen, ListKeys, Disconnect, Refuse, vars, dataVars,
                historyVars, readerVars
  <2>2. worker' \in WorkerPlaces
    BY <1>4 DEF DisconnectAnswer, ListLen, ListKeys, Disconnect, Refuse, vars, workerVars, TypeInv,
                WorkerPlaces
  <2>3. QED
    BY <1>2, <2>1, <2>2 DEF TypeInv
<1>5. ASSUME NEW kind \in Kinds, NEW ch \in Channels, Begin(kind, ch) PROVE TypeInv'
  <2>1. /\ cmd' = [kind |-> kind, channel |-> ch] /\ reader' = "build"
        /\ UNCHANGED <<subscriptions, listed, reply, worker>>
    BY <1>5 DEF Begin, dataVars, historyVars, workerVars
  <2>2. kind # "connect" /\ ch # Conn /\ ch \in Maps
    BY SessionEnvAssumption DEF Kinds, Maps
  <2>3. QED
    BY <1>1, <2>1, <2>2 DEF TypeInv, ReaderPlaces
<1>6. ASSUME NEW status \in Statuses, NEW change \in Changes, Answer(status, change) PROVE TypeInv'
  <2>1. /\ reader' = "record" /\ reply' = [status |-> status, change |-> change]
        /\ UNCHANGED <<subscriptions, cmd, worker>>
    BY <1>6 DEF Answer, dataVars, workerVars
  <2>2. reply' \in [status : Statuses, change : Change]
    BY <2>1, SessionEnvAssumption
  <2>3. listed' \in SUBSET Channels
    <3>1. cmd.kind \in {"subscribe", "unsubscribe"} => cmd.channel \in Channels
      BY DEF TypeInv, Maps
    <3>2. QED
      BY <1>6, <3>1 DEF Answer, TypeInv
  <2>4. QED
    BY <1>1, <2>1, <2>2, <2>3 DEF TypeInv, ReaderPlaces
<1>7. CASE Record
  <2>1. /\ subscriptions' = recorded(subscriptions, reply.status)
        /\ UNCHANGED <<listed, reply, cmd, worker>>
        /\ reader' \in {"over", "mergeC", "mergeI"}
        /\ reader' = "mergeI" => cmd.kind # "connect"
    BY <1>7 DEF Record, workerVars
  <2>2. subscriptions' \in SUBSET Channels
    BY <2>1, RecordedType DEF TypeInv
  <2>3. QED
    BY <1>1, <2>1, <2>2 DEF TypeInv, ReaderPlaces
<1>8. CASE MergeChannelState \/ MergeConnectionState
  <2>1. UNCHANGED <<subscriptions, listed, cmd, worker>> /\ reader' \in {"mergeC", "idle"}
    BY <1>8 DEF MergeChannelState, MergeConnectionState, workerVars
  <2>2. reply' \in {reply, NoReply}
    BY <1>8 DEF MergeChannelState, MergeConnectionState
  <2>3. NoReply \in [status : Statuses, change : Change]
    BY DEF NoReply, Statuses, Change
  <2>4. QED
    BY <1>1, <2>1, <2>2, <2>3 DEF TypeInv, ReaderPlaces
<1>9. CASE \/ \E v \in Values : MergeEnvConnection(v)
           \/ \E ch \in Channels, v \in Values : MergeEnvChannel(ch, v)
  <2>1. UNCHANGED <<subscriptions, listed, reply, cmd, reader, worker>>
    BY <1>9 DEF MergeEnvConnection, MergeEnvChannel, readerVars, workerVars
  <2>2. QED
    BY <1>2, <2>1 DEF TypeInv
<1>10. QED
  BY <1>3, <1>4, <1>5, <1>6, <1>7, <1>8, <1>9 DEF Next, Internal

\* Only the reader writes the fields of the application, and it does so when no
\* request of its own is under way.
LEMMA ReaderStep ==
  ASSUME TypeInv, ReaderInv, [Next]_vars
  PROVE  ReaderInv'
<1>0. env \in Data /\ message \in [Callers -> Data] /\ cmd.channel \in Maps /\ Conn \in Maps
  BY DEF TypeInv, Maps
<1> DEFINE Carried == {Conn, cmd.channel}
<1>1. Carries("reader") = Carried /\ Carries("reader")' = {Conn, cmd'.channel}
  BY DEF Carries
<1>2. ASSUME UNCHANGED <<env, cmd, message>>, reader' = reader \/ reader' \notin {"encode", "sent"}
      PROVE  ReaderInv'
  BY <1>1, <1>2 DEF ReaderInv
<1>3. ASSUME NEW w \in Callers, Build(w) PROVE ReaderInv'
  <2>1. /\ message' = [message EXCEPT ![w] = build(w)] /\ UNCHANGED <<env, cmd>>
        /\ w = "worker" => reader' = reader
    BY <1>3 DEF Build, Goto, dataVars
  <2>2. CASE w = "reader"
    <3>1. message'["reader"] = build(w)
      BY <1>0, <2>1, <2>2
    <3>2. \A m \in Carried : build(w)[m] = env[m]
      BY <1>0, <1>1, <2>2 DEF build
    <3>3. QED
      BY <1>1, <2>1, <3>1, <3>2 DEF ReaderInv
  <2>3. CASE w = "worker"
    <3>1. message'["reader"] = message["reader"]
      BY <1>0, <2>1, <2>3 DEF Callers
    <3>2. QED
      BY <1>1, <2>1, <2>3, <3>1 DEF ReaderInv
  <2>4. QED
    BY <2>2, <2>3 DEF Callers
<1>4. ASSUME NEW w \in Callers, Encoded(w) PROVE ReaderInv'
  <2>1. PICK new : message' = [message EXCEPT ![w] = encoded(w, new)]
    BY <1>4 DEF Encoded
  <2>2. /\ UNCHANGED <<env, cmd>> /\ Place(w) = "encode"
        /\ w = "worker" => reader' = reader
    BY <1>4 DEF Encoded, Goto, dataVars
  <2>3. CASE w = "reader"
    <3>1. \A m \in Maps : message'["reader"][m]["app"] \in {env[m]["app"], message["reader"][m]["app"]}
      BY <1>0, <2>1, <2>3 DEF encoded, Keys
    <3>2. \A m \in Carried : message["reader"][m]["app"] = env[m]["app"]
      BY <1>1, <2>2, <2>3 DEF ReaderInv, Place
    <3>3. QED
      BY <1>0, <1>1, <2>2, <3>1, <3>2 DEF ReaderInv
  <2>4. CASE w = "worker"
    <3>1. message'["reader"] = message["reader"]
      BY <1>0, <2>1, <2>4 DEF Callers
    <3>2. QED
      BY <1>1, <2>2, <2>4, <3>1 DEF ReaderInv
  <2>5. QED
    BY <2>3, <2>4 DEF Callers
<1>5. ASSUME NEW w \in Callers, Lost(w) PROVE ReaderInv'
  <2>1. /\ UNCHANGED <<env, cmd>>
        /\ message' = message \/ message' = [message EXCEPT ![w] = Empty]
        /\ reader' = IF w = "reader" THEN reader' ELSE reader
        /\ w = "reader" => reader' \in {"build", "over", "idle"}
    BY <1>5 DEF Lost, Discard, Goto, dataVars, Callers
  <2>2. w = "worker" => message'["reader"] = message["reader"]
    BY <1>0, <2>1 DEF Callers
  <2>3. QED
    BY <1>1, <2>1, <2>2 DEF ReaderInv, Callers
<1>6. CASE \E status \in Statuses : DisconnectAnswer(status)
  <2>1. UNCHANGED <<env, cmd, reader>> /\ message' = [message EXCEPT !["worker"] = Empty]
    BY <1>6 DEF DisconnectAnswer, Discard, dataVars, readerVars
  <2>2. message'["reader"] = message["reader"]
    BY <1>0, <2>1 DEF Callers
  <2>3. QED
    BY <1>1, <2>1, <2>2 DEF ReaderInv
<1>7. CASE \/ \E kind \in Kinds, ch \in Channels : Begin(kind, ch)
           \/ \E status \in Statuses, change \in Changes : Answer(status, change)
           \/ Record \/ MergeChannelState \/ MergeConnectionState
  <2>1. reader' \notin {"encode", "sent"}
    BY <1>7 DEF Begin, Answer, Record, MergeChannelState, MergeConnectionState
  <2>2. QED
    BY <2>1 DEF ReaderInv
<1>8. CASE \/ ListLen \/ ListKeys \/ Disconnect \/ UNCHANGED vars
           \/ \E kind \in Kinds, ch \in Channels : Refuse(kind, ch)
  <2>1. UNCHANGED <<env, cmd, message, reader>>
    BY <1>8 DEF ListLen, ListKeys, Disconnect, Refuse, vars, dataVars, readerVars, callVars
  <2>2. QED
    BY <1>2, <2>1
<1>9. ASSUME NEW m \in Maps, NEW v \in Values, env' = Merge(env, m, "own", v),
             UNCHANGED <<cmd, message, reader>>
      PROVE  ReaderInv'
  <2>1. \A n \in Maps : env'[n]["app"] = env[n]["app"]
    <3>1. "own" \in Keys /\ "app" \in Keys /\ "own" # "app"
      BY DEF Keys
    <3>2. \A n \in Maps : Merge(env, m, "own", v)[n]["app"] = env[n]["app"]
      BY <1>0, <3>1, MergeAt
    <3>3. QED
      BY <1>9, <3>2
  <2>2. QED
    BY <1>0, <1>1, <1>9, <2>1 DEF ReaderInv
<1>10. CASE \/ \E v \in Values : MergeEnvConnection(v)
            \/ \E ch \in Channels, v \in Values : MergeEnvChannel(ch, v)
  <2>1. \E m \in Maps, v \in Values : env' = Merge(env, m, "own", v)
    BY <1>0, <1>10 DEF MergeEnvConnection, MergeEnvChannel, Maps
  <2>2. UNCHANGED <<cmd, message, reader>>
    BY <1>10 DEF MergeEnvConnection, MergeEnvChannel, readerVars, callVars
  <2>3. QED
    BY <1>9, <2>1, <2>2
<1>11. QED
  BY <1>3, <1>4, <1>5, <1>6, <1>7, <1>8, <1>10 DEF Next, Internal

-----------------------------------------------------------------------------
(* What disturbs a request.                                                *)

Writes ==
  \/ Record \/ MergeChannelState \/ MergeConnectionState
  \/ \E v \in Values : MergeEnvConnection(v)
  \/ \E ch \in Channels, v \in Values : MergeEnvChannel(ch, v)

\* A step that writes shared data disturbs every request that is under way; the
\* worker stays where it is, and the reader is not about to send one.
LEMMA WritesDisturb ==
  ASSUME Writes
  PROVE  /\ \A w \in Callers : Busy(w) => disturbed'[w]
         /\ DOMAIN disturbed' = Callers
         /\ UNCHANGED <<worker, list, listed, cmd, message>>
         /\ reader' = reader \/ reader' \in {"over", "mergeI", "mergeC", "idle"}
         /\ reader' # "record" \/ (reader' = reader /\ UNCHANGED <<subscriptions, reply>>)
<1>1. disturbed' = [w \in Callers |-> Busy(w)]
  BY DEF Writes, Record, MergeChannelState, MergeConnectionState, MergeEnvConnection,
         MergeEnvChannel, Disturb
<1>2. (\A w \in Callers : Busy(w) => disturbed'[w]) /\ DOMAIN disturbed' = Callers
  BY <1>1, Zenon
<1>3. /\ UNCHANGED <<worker, list, listed, cmd, message>>
      /\ reader' = reader \/ reader' \in {"over", "mergeI", "mergeC", "idle"}
      /\ reader' # "record" \/ (reader' = reader /\ UNCHANGED <<subscriptions, reply>>)
  BY DEF Writes, Record, MergeChannelState, MergeConnectionState, MergeEnvConnection,
         MergeEnvChannel, workerVars, callVars, readerVars
<1>4. QED
  BY <1>2, <1>3

\* An answer to the reader disturbs the request of the worker.
LEMMA AnswerDisturbs ==
  ASSUME NEW status \in Statuses, NEW change \in Changes, Answer(status, change)
  PROVE  (Busy("worker") => disturbed'["worker"]) /\ DOMAIN disturbed' = Callers
<1>1. disturbed' = [w \in Callers |-> w = "worker" /\ Busy(w)] /\ "worker" \in Callers
  BY DEF Answer, Callers
<1>2. QED
  BY <1>1, Zenon

\* The other steps concern the request of one caller, and forget no disturbance
\* of the worker before its request is over.
LEMMA OtherRequest ==
  ASSUME DomainInv, NEW w \in Callers, NEW u \in Callers, u # w,
         Build(w) \/ Encoded(w) \/ Lost(w)
  PROVE  /\ UNCHANGED <<Place(u), env, cmd>> /\ disturbed'[u] = disturbed[u]
         /\ DOMAIN message = Callers => message'[u] = message[u]
<1>1. disturbed'[u] = disturbed[u]
  BY Zenon DEF DomainInv, Build, Encoded, Lost, historyVars
<1>2. UNCHANGED <<env, cmd>>
  BY DEF Build, Encoded, Lost, dataVars
<1>4. Place(u)' = Place(u)
  <2>1. PICK pc : Goto(w, pc)
    BY DEF Build, Encoded, Lost
  <2>2. QED
    BY <2>1 DEF Place, Goto, Callers
<1>3. DOMAIN message = Callers => message'[u] = message[u]
  BY DEF Build, Encoded, Lost, Discard
<1>5. QED
  BY <1>1, <1>2, <1>3, <1>4

\* The domain of disturbed never changes.
LEMMA DomainStep ==
  ASSUME DomainInv, [Next]_vars
  PROVE  DomainInv'
<1>1. CASE \E w \in Callers : Build(w) \/ Encoded(w) \/ Lost(w)
  BY <1>1 DEF Build, Encoded, Lost, DomainInv, historyVars
<1>2. CASE \/ \E status \in Statuses : DisconnectAnswer(status)
           \/ ListLen \/ ListKeys \/ Disconnect \/ UNCHANGED vars
           \/ \E kind \in Kinds, ch \in Channels : Refuse(kind, ch) \/ Begin(kind, ch)
  BY <1>2 DEF DisconnectAnswer, ListLen, ListKeys, Disconnect, vars, Refuse, Begin, historyVars,
              DomainInv
<1>3. CASE Writes
  BY <1>3, WritesDisturb DEF DomainInv
<1>4. CASE \E status \in Statuses, change \in Changes : Answer(status, change)
  BY <1>4, AnswerDisturbs DEF DomainInv
<1>5. QED
  BY <1>1, <1>2, <1>3, <1>4 DEF Next, Internal, Writes

\* QuietInv is inductive.
LEMMA QuietStep ==
  ASSUME TypeInv, DomainInv, QuietInv, [Next]_vars
  PROVE  QuietInv'
<1>0. /\ message \in [Callers -> Data] /\ DOMAIN message = Callers /\ env \in Data
      /\ {Conn, cmd.channel} \subseteq Maps /\ Callers = {"reader", "worker"}
      /\ \A w \in Callers : Carries(w) \subseteq Maps
  BY DEF TypeInv, Carries, Maps, Callers
<1>1. ASSUME NEW u \in Callers, Place(u)' = Place(u), disturbed'[u] = disturbed[u], env' = env,
             Carries(u)' = Carries(u), message'[u] = message[u]
      PROVE  Quiet(u)'
  <2>1. Quiet(u)
    BY DEF QuietInv
  <2>2. QED
    BY <1>1, <2>1, Zenon DEF Quiet
<1>2. ASSUME NEW w \in Callers, NEW u \in Callers, u # w, Build(w) \/ Encoded(w) \/ Lost(w)
      PROVE  Quiet(u)'
  <2>1. UNCHANGED <<Place(u), env, cmd>> /\ disturbed'[u] = disturbed[u] /\ message'[u] = message[u]
    BY <1>0, <1>2, OtherRequest
  <2>2. Carries(u)' = Carries(u)
    BY <2>1 DEF Carries
  <2>3. QED
    BY <1>1, <2>1, <2>2
<1>3. ASSUME NEW w \in Callers, Build(w) PROVE Quiet(w)'
  <2>1. message'[w] = build(w) /\ UNCHANGED <<env, cmd>>
    BY <1>0, <1>3 DEF Build, dataVars
  <2>2. \A m \in Carries(w) : build(w)[m] = env[m]
    BY <1>0 DEF build
  <2>3. Carries(w)' = Carries(w)
    BY <2>1 DEF Carries
  <2>4. QED
    BY <2>1, <2>2, <2>3 DEF Quiet
<1>4. ASSUME NEW w \in Callers, Encoded(w) PROVE Quiet(w)'
  <2>1. PICK new : message' = [message EXCEPT ![w] = encoded(w, new)]
    BY <1>4 DEF Encoded
  <2>2. Place(w) = "encode" /\ UNCHANGED <<env, cmd, disturbed>>
    BY <1>4 DEF Encoded, dataVars, historyVars
  <2>3. Carries(w)' = Carries(w)
    BY <2>2 DEF Carries
  <2>4. ASSUME ~disturbed[w], NEW m \in Carries(w) PROVE message'[w][m] = env[m]
    <3>1. message[w][m] = env[m] /\ m \in Maps
      BY <1>0, <2>2, <2>4, Zenon DEF QuietInv, Quiet
    <3>2. message'[w][m] = [k \in Keys |-> IF <<m, k>> \in new THEN env[m][k] ELSE env[m][k]]
      BY <1>0, <2>1, <3>1 DEF encoded
    <3>3. env[m] = [k \in Keys |-> env[m][k]]
      BY <1>0, <3>1 DEF Data
    <3>4. QED
      BY <3>2, <3>3
  <2>5. QED
    BY <2>2, <2>3, <2>4, Zenon DEF Quiet
<1>5. ASSUME NEW w \in Callers, Lost(w) PROVE Quiet(w)'
  <2>1. Place(w)' \notin {"encode", "sent"}
    BY <1>5 DEF Lost, Goto, Place, Callers
  <2>2. QED
    BY <2>1 DEF Quiet
<1>6. CASE \E w \in Callers : Build(w) \/ Encoded(w) \/ Lost(w)
  BY <1>2, <1>3, <1>4, <1>5, <1>6, Zenon DEF QuietInv
<1>7. CASE Writes
  <2>1. ASSUME NEW w \in Callers, Place(w)' \in {"encode", "sent"} PROVE disturbed'[w]
    <3>1. Place(w)' = Place(w)
      BY <1>7, <2>1, WritesDisturb DEF Place
    <3>2. Busy(w)
      BY <2>1, <3>1 DEF Busy
    <3>3. QED
      BY <1>7, <3>2, WritesDisturb
  <2>2. QED
    BY <2>1, Zenon DEF QuietInv, Quiet
<1>8. CASE \E status \in Statuses, change \in Changes : Answer(status, change)
  <2>1. reader' = "record" /\ worker' = worker /\ (Busy("worker") => disturbed'["worker"])
    BY <1>8, AnswerDisturbs DEF Answer, workerVars
  <2>2. Quiet("reader")'
    BY <2>1 DEF Quiet, Place
  <2>3. Quiet("worker")'
    BY <2>1, Zenon DEF Quiet, Place, Busy
  <2>4. QED
    BY <1>0, <2>2, <2>3 DEF QuietInv
<1>9. CASE \/ \E status \in Statuses : DisconnectAnswer(status)
           \/ ListLen \/ ListKeys \/ Disconnect
  <2>1. /\ worker' \in {"failed", "told", "list", "build", "queued"}
        /\ UNCHANGED <<env, cmd, reader>>
    BY <1>9 DEF DisconnectAnswer, ListLen, ListKeys, Disconnect, dataVars, readerVars
  <2>2. disturbed'["reader"] = disturbed["reader"]
    BY <1>9, Zenon DEF DisconnectAnswer, ListLen, ListKeys, Disconnect, historyVars, DomainInv,
                       Callers
  <2>3. message'["reader"] = message["reader"]
    BY <1>0, <1>9 DEF DisconnectAnswer, ListLen, ListKeys, Disconnect, Discard, callVars
  <2>4. Carries("reader")' = Carries("reader") /\ Place("reader")' = Place("reader")
    BY <2>1 DEF Carries, Place
  <2>5. Quiet("reader")'
    BY <1>0, <1>1, <2>1, <2>2, <2>3, <2>4
  <2>6. Quiet("worker")'
    BY <2>1 DEF Quiet, Place
  <2>7. QED
    BY <1>0, <2>5, <2>6 DEF QuietInv
<1>10. CASE \/ UNCHANGED vars
            \/ \E kind \in Kinds, ch \in Channels : Refuse(kind, ch) \/ Begin(kind, ch)
  <2>1. UNCHANGED <<env, worker, message, disturbed>>
    BY <1>10 DEF Refuse, Begin, vars, dataVars, workerVars, callVars, historyVars
  <2>2. UNCHANGED <<reader, cmd>> \/ reader' = "build"
    BY <1>10 DEF Refuse, Begin, vars, readerVars
  <2>3. Quiet("worker")'
    <3>1. Carries("worker")' = Carries("worker") /\ Place("worker")' = Place("worker")
      BY <2>1 DEF Carries, Place
    <3>2. QED
      BY <1>0, <1>1, <2>1, <3>1
  <2>4. Quiet("reader")'
    <3>1. CASE UNCHANGED <<reader, cmd>>
      <4>1. Carries("reader")' = Carries("reader") /\ Place("reader")' = Place("reader")
        BY <3>1 DEF Carries, Place
      <4>2. QED
        BY <1>0, <1>1, <2>1, <4>1
    <3>2. CASE reader' = "build"
      BY <3>2 DEF Quiet, Place
    <3>3. QED
      BY <2>2, <3>1, <3>2
  <2>5. QED
    BY <1>0, <2>3, <2>4 DEF QuietInv
<1>11. QED
  BY <1>6, <1>7, <1>8, <1>9, <1>10 DEF Next, Internal, Writes

\* Nothing disturbs the worker's request between two of its own steps, unless a
\* step that writes does: this is what its steps do to the record of it.
LEMMA WorkerDisturbed ==
  ASSUME DomainInv, [Next]_vars, ~Writes,
         ~\E status \in Statuses, change \in Changes : Answer(status, change),
         ~ListLen, ~\E status \in Statuses : DisconnectAnswer(status), ~disturbed'["worker"]
  PROVE  ~disturbed["worker"] /\ (Build("worker") => ~Unmerged("worker"))
<1>0. Callers = {"reader", "worker"} /\ DOMAIN disturbed = Callers
  BY DEF Callers, DomainInv
<1>1. ASSUME Build("reader") \/ Lost("reader") PROVE disturbed'["worker"] = disturbed["worker"]
  BY <1>0, <1>1, OtherRequest
<1>2. ASSUME Build("worker")
      PROVE  disturbed'["worker"] = (disturbed["worker"] \/ Unmerged("worker"))
  BY <1>0, <1>2, Zenon DEF Build
<1>3. ASSUME Lost("worker") PROVE disturbed'["worker"] = ("worker" = "worker" /\ disturbed["worker"])
  BY <1>0, <1>3, Zenon DEF Lost
<1>4. ASSUME \/ \E w \in Callers : Encoded(w)
             \/ ListKeys \/ Disconnect \/ UNCHANGED vars
             \/ \E kind \in Kinds, ch \in Channels : Refuse(kind, ch) \/ Begin(kind, ch)
      PROVE  ~disturbed["worker"]
  BY <1>4 DEF Encoded, ListKeys, Disconnect, vars, Refuse, Begin, historyVars
<1>5. ASSUME \E w \in Callers : Build(w) \/ Lost(w) PROVE ~disturbed["worker"]
  BY <1>0, <1>1, <1>2, <1>3, <1>5, Zenon
<1>6. ~disturbed["worker"]
  BY <1>4, <1>5 DEF Next, Internal, Writes
<1>7. QED
  BY <1>2, <1>6, Zenon

\* MergedInv is inductive.
LEMMA MergedStep ==
  ASSUME TypeInv, DomainInv, MergedInv, [Next]_vars
  PROVE  MergedInv'
<1> SUFFICES ASSUME Busy("worker")', ~disturbed'["worker"] PROVE ~Pending'
  BY Zenon DEF MergedInv
<1>1. CASE Writes
  <2>1. Busy("worker")' = Busy("worker") /\ "worker" \in Callers
    BY <1>1, WritesDisturb DEF Busy, Place, Callers
  <2>2. QED
    BY <1>1, <2>1, WritesDisturb, Zenon
<1>2. CASE \E status \in Statuses, change \in Changes : Answer(status, change)
  <2>1. Busy("worker")' = Busy("worker")
    BY <1>2 DEF Answer, workerVars, Busy, Place
  <2>2. QED
    BY <1>2, <2>1, AnswerDisturbs, Zenon
<1>3. CASE ListLen
  <2>1. disturbed'["worker"] = Unmerged("worker") /\ reader' = reader
    BY <1>3 DEF ListLen, DomainInv, Callers, readerVars
  <2>2. QED
    BY <2>1 DEF Unmerged, Pending
<1>4. CASE \E status \in Statuses : DisconnectAnswer(status)
  BY <1>4 DEF DisconnectAnswer, Busy, Place
<1>5. CASE ~Writes /\ ~ListLen /\ ~(\E status \in Statuses : DisconnectAnswer(status))
           /\ ~\E status \in Statuses, change \in Changes : Answer(status, change)
  <2>1. ~disturbed["worker"] /\ (Build("worker") => ~Unmerged("worker"))
    BY <1>5, WorkerDisturbed
  <2>2. Pending' => Pending
    <3>1. \/ \E w \in Callers : Build(w) \/ Encoded(w) \/ Lost(w)
          \/ ListKeys \/ Disconnect \/ UNCHANGED vars
          \/ \E kind \in Kinds, ch \in Channels : Refuse(kind, ch) \/ Begin(kind, ch)
      BY <1>5 DEF Next, Internal, Writes
    <3>2. UNCHANGED <<reader, cmd>> \/ (~Pending /\ ~Pending')
      BY <3>1, Silent
    <3>3. QED
      BY <3>2 DEF Pending
  <2>3. Busy("worker")
    <3>1. \/ \E w \in Callers : Build(w) \/ Encoded(w) \/ Lost(w)
          \/ ListKeys \/ Disconnect \/ UNCHANGED vars
          \/ \E kind \in Kinds, ch \in Channels : Refuse(kind, ch) \/ Begin(kind, ch)
      BY <1>5 DEF Next, Internal, Writes
    <3>2. worker' = worker \/ worker' = "queued" \/ worker \in {"list", "build", "encode", "sent"}
      BY <3>1 DEF Build, Encoded, Lost, Goto, Place, Callers, ListKeys, Disconnect, Refuse, Begin,
                  vars, workerVars
    <3>3. QED
      BY <3>2 DEF Busy, Place
  <2>4. QED
    BY <2>1, <2>2, <2>3 DEF MergedInv
<1>6. QED
  BY <1>1, <1>2, <1>3, <1>4, <1>5

\* A finite set of subscriptions stays finite.
LEMMA RecordedFinite ==
  ASSUME NEW subs, IsFiniteSet(subs), NEW status
  PROVE  IsFiniteSet(recorded(subs, status))
<1>1. IsFiniteSet(subs \cup {cmd.channel})
  BY FS_AddElement
<1>2. IsFiniteSet(subs \ {cmd.channel})
  BY FS_Subset
<1>3. recorded(subs, status) \in {subs \cup {cmd.channel}, subs \ {cmd.channel}, subs}
  BY DEF recorded
<1>4. QED
  BY <1>1, <1>2, <1>3

\* ListedInv is inductive.
LEMMA ListedStep ==
  ASSUME TypeInv, DomainInv, ListedInv, [Next]_vars
  PROVE  ListedInv'
<1> DEFINE Listing == worker \in {"list", "build", "encode", "sent"}
<1>0. /\ listed = IF reader = "record" THEN recorded(subscriptions, reply.status) ELSE subscriptions
      /\ IsFiniteSet(subscriptions) /\ IsFiniteSet(list)
      /\ Listing /\ ~disturbed["worker"] => list = subscriptions
  BY DEF ListedInv
<1>1. CASE Writes
  <2>1. /\ UNCHANGED <<worker, list, listed, cmd>> /\ (Busy("worker") => disturbed'["worker"])
        /\ reader' # "record" \/ (reader' = reader /\ UNCHANGED <<subscriptions, reply>>)
    BY <1>1, WritesDisturb DEF Callers
  <2>2. Listing' => disturbed'["worker"]
    BY <2>1 DEF Busy, Place
  <2>3. subscriptions' = IF reader = "record" /\ reader' # "record" THEN listed ELSE subscriptions
    BY <1>0, <1>1 DEF Writes, Record, MergeChannelState, MergeConnectionState, MergeEnvConnection,
                      MergeEnvChannel, readerVars
  <2>4. IsFiniteSet(listed)
    BY <1>0, RecordedFinite
  <2>5. listed' = IF reader' = "record" THEN recorded(subscriptions, reply.status)' ELSE subscriptions'
    BY <1>0, <2>1, <2>3 DEF recorded, error
  <2>6. IsFiniteSet(subscriptions') /\ IsFiniteSet(list')
    BY <1>0, <2>1, <2>3, <2>4
  <2>7. QED
    BY <2>2, <2>5, <2>6 DEF ListedInv
<1>2. ASSUME NEW status \in Statuses, NEW change \in Changes, Answer(status, change)
      PROVE  ListedInv'
  <2>1. /\ reader = "sent" /\ reader' = "record" /\ reply' = [status |-> status, change |-> change]
        /\ UNCHANGED <<subscriptions, list, worker, cmd>>
        /\ Busy("worker") => disturbed'["worker"]
    BY <1>2, AnswerDisturbs DEF Answer, dataVars, workerVars
  <2>2. Listing' => disturbed'["worker"]
    BY <2>1 DEF Busy, Place
  <2>3. listed' = recorded(subscriptions, reply.status)'
    <3>1. listed = subscriptions /\ reply'.status = status
      BY <1>0, <2>1
    <3>2. recorded(subscriptions, reply.status)' =
            CASE cmd.kind = "subscribe" /\ status # "ERROR" -> subscriptions \cup {cmd.channel}
              [] cmd.kind = "unsubscribe" /\ status # "ERROR" -> subscriptions \ {cmd.channel}
              [] OTHER -> subscriptions
      BY <2>1, <3>1 DEF recorded, error
    <3>3. QED
      BY <1>2, <3>1, <3>2 DEF Answer
  <2>4. QED
    BY <1>0, <2>1, <2>2, <2>3 DEF ListedInv
<1>3. CASE ListLen
  <2>1. list' = subscriptions /\ UNCHANGED <<subscriptions, listed, reader, cmd, reply>>
    BY <1>3 DEF ListLen, dataVars, readerVars
  <2>2. QED
    BY <1>0, <2>1 DEF ListedInv, recorded, error
<1>4. CASE ListKeys
  <2>1. /\ worker = "list" /\ UNCHANGED <<subscriptions, listed, reader, cmd, reply, disturbed>>
    BY <1>4 DEF ListKeys, dataVars, readerVars, historyVars
  <2>2. PICK seen \in SUBSET (list \cup subscriptions) :
          /\ list \cap subscriptions \subseteq seen
          /\ list' = seen \cup (IF Cardinality(seen) < Cardinality(list) THEN {""} ELSE {})
    BY <1>4 DEF ListKeys
  <2>3. IsFiniteSet(list')
    <3>1. IsFiniteSet(list \cup subscriptions)
      BY <1>0, FS_Union
    <3>2. IsFiniteSet(seen)
      BY <3>1, FS_Subset
    <3>3. IsFiniteSet(seen \cup {""})
      BY <3>2, FS_AddElement
    <3>4. list' = seen \/ list' = seen \cup {""}
      BY <2>2
    <3>5. QED
      BY <3>2, <3>3, <3>4
  <2>4. ASSUME ~disturbed'["worker"] PROVE list' = subscriptions'
    <3>1. list = subscriptions
      BY <1>0, <2>1, <2>4
    <3>2. seen = list
      BY <2>2, <3>1
    <3>3. Cardinality(list) \in Nat
      BY <1>0, FS_CardinalityType
    <3>4. ~(Cardinality(seen) < Cardinality(list))
      BY <3>2, <3>3
    <3>5. QED
      BY <2>1, <2>2, <3>1, <3>2, <3>4
  <2>5. QED
    BY <1>0, <2>1, <2>3, <2>4 DEF ListedInv, recorded, error
<1>5. CASE \E status \in Statuses : DisconnectAnswer(status)
  <2>1. /\ worker' \in {"failed", "told"}
        /\ UNCHANGED <<subscriptions, list, listed, reader, cmd, reply>>
    BY <1>5 DEF DisconnectAnswer, dataVars, readerVars
  <2>2. QED
    BY <1>0, <2>1 DEF ListedInv, recorded, error
<1>6. CASE ~Writes /\ ~ListLen /\ ~(\E status \in Statuses : DisconnectAnswer(status))
           /\ ~(\E status \in Statuses, change \in Changes : Answer(status, change)) /\ ~ListKeys
  <2>1. \/ \E w \in Callers : Build(w) \/ Encoded(w) \/ Lost(w)
        \/ Disconnect \/ UNCHANGED vars
        \/ \E kind \in Kinds, ch \in Channels : Refuse(kind, ch) \/ Begin(kind, ch)
    BY <1>6 DEF Next, Internal, Writes
  <2>2. /\ UNCHANGED <<subscriptions, listed, reply>>
        /\ UNCHANGED <<reader, cmd>> \/ (~Pending /\ ~Pending')
    BY <2>1, Silent
  <2>3. list' = list /\ (Listing' => Listing)
    BY <2>1 DEF Build, Encoded, Lost, Goto, Place, Callers, Disconnect, Refuse, Begin,
                vars, workerVars
  <2>4. ~disturbed'["worker"] => ~disturbed["worker"]
    BY <1>6, WorkerDisturbed
  <2>5. listed' = IF reader' = "record" THEN recorded(subscriptions, reply.status)' ELSE subscriptions'
    BY <1>0, <2>2 DEF recorded, error, Pending
  <2>6. QED
    BY <1>0, <2>2, <2>3, <2>4, <2>5 DEF ListedInv
<1>7. QED
  BY <1>1, <1>2, <1>3, <1>4, <1>5, <1>6

\* CarryInv holds in every state.
LEMMA CarryInvariant == Spec => []CarryInv
<1>1. Init => CarryInv
  <2> SUFFICES ASSUME Init PROVE CarryInv
    OBVIOUS
  <2>1. Empty \in Data /\ NoReply \in [status : Statuses, change : Change]
    BY DEF Empty, Data, Fields, NoReply, Statuses, Change
  <2>2. cmd = [kind |-> "connect", channel |-> Conn] /\ Conn \in Maps
    BY DEF Init, Maps
  <2>3. TypeInv
    BY <2>1, <2>2 DEF Init, TypeInv, ReaderPlaces, WorkerPlaces
  <2>4. reader = "build" /\ worker = "none" /\ truth = env
    BY DEF Init
  <2>5. EnvInv /\ ReaderInv /\ MergedInv
    BY <2>4 DEF EnvInv, Expected, Pending, ReaderInv, MergedInv, Busy, Place
  <2>6. QuietInv /\ DomainInv
    BY <2>4 DEF Init, QuietInv, Quiet, Place, Callers, DomainInv
  <2>7. ListedInv
    BY <2>4, FS_EmptySet DEF Init, ListedInv
  <2>8. QED
    BY <2>3, <2>5, <2>6, <2>7 DEF CarryInv
<1>2. CarryInv /\ [Next]_vars => CarryInv'
  BY TypeStep, DomainStep, EnvStep, ReaderStep, QuietStep, MergedStep, ListedStep DEF CarryInv
<1>3. QED
  BY <1>1, <1>2, PTL DEF Spec

\* A request carries what the replies before it and the merges add up to, and
\* the Disconnect request lists the channels the replies left subscribed.
THEOREM StateIsCarried == Spec => []StateCarried
<1>1. CarryInv => StateCarried
  <2> SUFFICES ASSUME CarryInv PROVE StateCarried
    OBVIOUS
  <2>0. env \in Data /\ truth \in Data /\ {Conn, cmd.channel} \subseteq Maps
    BY DEF CarryInv, TypeInv, Maps
  <2>1. ASSUME ~Pending PROVE \A m \in Maps : truth[m] = env[m]
    <3>1. \A m \in Maps, k \in Keys : truth[m][k] = env[m][k]
      BY <2>1 DEF CarryInv, EnvInv, Expected, Pending
    <3>2. QED
      BY <2>0, <3>1 DEF Data
  <2>2. ASSUME reader = "sent", NEW m \in Carries("reader")
        PROVE  message["reader"][m]["app"] = truth[m]["app"]
    <3>1. ~Pending /\ m \in Maps
      BY <2>0, <2>2 DEF Pending, Carries
    <3>2. QED
      BY <2>1, <2>2, <3>1 DEF CarryInv, ReaderInv
  <2>3. ASSUME NEW w \in Callers, Place(w) = "sent", ~disturbed[w], NEW m \in Carries(w)
        PROVE  message[w][m] = truth[m]
    <3>1. message[w][m] = env[m]
      BY <2>3, Zenon DEF CarryInv, QuietInv, Quiet
    <3>2. ~Pending /\ m \in Maps
      BY <2>0, <2>3 DEF CarryInv, MergedInv, Busy, Place, Pending, Callers, Carries
    <3>3. QED
      BY <2>1, <3>1, <3>2
  <2>4. ASSUME worker = "sent", ~disturbed["worker"] PROVE list = listed
    <3>1. ~Pending
      BY <2>4 DEF CarryInv, MergedInv, Busy, Place
    <3>2. QED
      BY <2>4, <3>1 DEF CarryInv, ListedInv, Pending
  <2>5. QED
    BY <2>2, <2>3, <2>4, Zenon DEF StateCarried
<1>2. QED
  BY <1>1, CarryInvariant, PTL

-----------------------------------------------------------------------------
(* What the application holds.                                             *)

\* ToldInv is inductive, given CarryInv.
LEMMA ToldStep ==
  ASSUME CarryInv, ToldInv, [Next]_vars
  PROVE  ToldInv'
<1> DEFINE Listing == worker \in {"list", "build", "encode", "sent"}
<1>0. /\ opened \subseteq listed \cup excused
      /\ Listing => opened \subseteq list \cup excused \cup Unrecorded
      /\ worker = "told" => opened \subseteq excused \cup Unrecorded
      /\ TypeInv
      /\ listed = IF reader = "record" THEN recorded(subscriptions, reply.status) ELSE subscriptions
  BY DEF ToldInv, CarryInv, ListedInv
<1>1. ASSUME UNCHANGED <<listed, list, subscriptions, excused>>,
             opened' \subseteq opened, Unrecorded' = Unrecorded,
             worker' = worker \/ worker' \in {"none", "queued", "failed"}
                \/ (Listing /\ worker' \in {"build", "encode", "sent"})
      PROVE  ToldInv'
  BY <1>0, <1>1 DEF ToldInv
<1>2. CASE \/ \E w \in Callers : Build(w) \/ Encoded(w) \/ Lost("worker")
           \/ Disconnect \/ UNCHANGED vars
           \/ \E kind \in Kinds, ch \in Channels : Refuse(kind, ch) \/ Begin(kind, ch)
  <2>1. UNCHANGED <<listed, list, subscriptions, excused>>
    BY <1>2 DEF Build, Encoded, Lost, Disconnect, Refuse, Begin, vars, dataVars, workerVars,
                historyVars
  <2>2. opened' \subseteq opened
    BY <1>2 DEF Build, Encoded, Lost, Disconnect, Refuse, Begin, vars
  <2>3. worker' = worker \/ worker' \in {"none", "queued", "failed"}
           \/ (Listing /\ worker' \in {"build", "encode", "sent"})
    BY <1>2 DEF Build, Encoded, Lost, Disconnect, Refuse, Begin, vars, workerVars, Goto, Place, Callers
  <2>4. Unrecorded' = Unrecorded
    <3>1. UNCHANGED reply /\ (UNCHANGED <<reader, cmd>> \/ (~Pending /\ ~Pending'))
      BY <1>0, <1>2, Silent DEF Callers
    <3>2. QED
      BY <3>1 DEF Unrecorded, Pending
  <2>5. QED
    BY <1>1, <2>1, <2>2, <2>3, <2>4
<1>3. CASE Lost("reader")
  <2>1. UNCHANGED <<listed, list, subscriptions, worker, cmd>>
    BY <1>3 DEF Lost, dataVars, Goto
  <2>2. \/ UNCHANGED <<opened, excused>>
        \/ /\ opened' = Opened("SUCCESS")
           /\ excused' = IF cmd.kind = "subscribe" THEN excused \cup {cmd.channel} ELSE excused
    BY <1>3 DEF Lost
  <2>3. opened' \subseteq opened \cup excused' /\ excused \subseteq excused'
    BY <2>2 DEF Opened
  <2>4. Unrecorded' = {} /\ Unrecorded = {}
    BY <1>3 DEF Lost, Goto, Place, Unrecorded
  <2>5. QED
    BY <1>0, <2>1, <2>3, <2>4 DEF ToldInv
<1>4. ASSUME NEW status \in Statuses, DisconnectAnswer(status) PROVE ToldInv'
  <2>1. /\ UNCHANGED <<listed, list, subscriptions, excused, reader, cmd, reply>> /\ worker = "sent"
        /\ \/ opened' = opened /\ worker' = "failed"
           \/ opened' = opened \ list /\ worker' = "told"
    BY <1>4 DEF DisconnectAnswer, dataVars, readerVars
  <2>2. QED
    BY <1>0, <2>1 DEF ToldInv, Unrecorded
<1>5. ASSUME NEW status \in Statuses, NEW change \in Changes, Answer(status, change) PROVE ToldInv'
  <2>1. /\ reader' = "record" /\ reply'.status = status /\ opened' = Opened(status)
        /\ UNCHANGED <<list, subscriptions, excused, worker, cmd>>
    BY <1>5 DEF Answer, dataVars, workerVars
  <2>2. Unrecorded = {}
    BY <1>5 DEF Unrecorded, Answer
  <2>3. opened' \subseteq opened \cup Unrecorded'
    <3>1. CASE cmd.kind = "subscribe" /\ status = "SUCCESS"
      <4>1. Unrecorded' = {cmd.channel}
        BY <2>1, <3>1 DEF Unrecorded, error
      <4>2. QED
        BY <2>1, <3>1, <4>1 DEF Opened
    <3>2. CASE ~(cmd.kind = "subscribe" /\ status = "SUCCESS")
      BY <2>1, <3>2 DEF Opened
    <3>3. QED
      BY <3>1, <3>2
  <2>4. opened' \subseteq listed' \cup excused'
    <3>1. listed' = CASE cmd.kind = "subscribe" /\ status # "ERROR" -> listed \cup {cmd.channel}
                      [] cmd.kind = "unsubscribe" /\ status # "ERROR" -> listed \ {cmd.channel}
                      [] OTHER -> listed
      BY <1>5 DEF Answer
    <3>2. opened' = CASE cmd.kind = "subscribe" /\ status = "SUCCESS" -> opened \cup {cmd.channel}
                      [] cmd.kind = "unsubscribe" /\ status # "ERROR" -> opened \ {cmd.channel}
                      [] OTHER -> opened
      BY <2>1 DEF Opened
    <3>3. QED
      BY <1>0, <2>1, <3>1, <3>2
  <2>5. QED
    BY <1>0, <2>1, <2>2, <2>3, <2>4 DEF ToldInv
<1>6. CASE Record
  <2>1. /\ UNCHANGED <<listed, list, opened, worker, cmd>> /\ reader = "record" /\ reader' # "record"
        /\ excused' = IF cmd.kind # "subscribe" \/ error(reply.status) THEN excused
                      ELSE IF worker \in {"none", "queued"} THEN excused \ {cmd.channel}
                      ELSE excused \cup {cmd.channel}
        /\ listed = recorded(subscriptions, reply.status)
    BY <1>0, <1>6 DEF Record, workerVars
  <2>2. Unrecorded' = {}
    BY <2>1 DEF Unrecorded
  <2>3. opened' \subseteq listed' \cup excused'
    <3>1. CASE cmd.kind # "subscribe" \/ error(reply.status)
      BY <1>0, <2>1, <3>1 DEF error
    <3>2. CASE cmd.kind = "subscribe" /\ ~error(reply.status)
      <4>1. listed = subscriptions \cup {cmd.channel}
        BY <2>1, <3>2 DEF recorded
      <4>2. excused \subseteq excused' \cup {cmd.channel}
        BY <2>1, <3>2
      <4>3. QED
        BY <1>0, <2>1, <4>1, <4>2
    <3>3. QED
      BY <3>1, <3>2
  <2>4. worker \notin {"none", "queued"} => excused \cup Unrecorded \subseteq excused'
    BY <2>1 DEF Unrecorded
  <2>5. QED
    BY <1>0, <2>1, <2>2, <2>3, <2>4 DEF ToldInv
<1>7. CASE \/ MergeChannelState \/ MergeConnectionState
           \/ \E v \in Values : MergeEnvConnection(v)
           \/ \E ch \in Channels, v \in Values : MergeEnvChannel(ch, v)
  <2>1. UNCHANGED <<listed, list, subscriptions, excused, opened, worker>>
    BY <1>7 DEF MergeChannelState, MergeConnectionState, MergeEnvConnection, MergeEnvChannel,
                workerVars
  <2>2. Unrecorded' = Unrecorded
    BY <1>7 DEF MergeChannelState, MergeConnectionState, MergeEnvConnection, MergeEnvChannel,
                readerVars, Unrecorded, error
  <2>3. QED
    BY <1>1, <2>1, <2>2
<1>8. listed \subseteq subscriptions \cup Unrecorded
  BY <1>0 DEF recorded, Unrecorded, error
<1>9. CASE ListLen
  <2>1. /\ list' = subscriptions /\ worker' = "list"
        /\ UNCHANGED <<subscriptions, listed, excused, opened, reader, cmd, reply>>
    BY <1>9 DEF ListLen, dataVars, readerVars
  <2>2. Unrecorded' = Unrecorded
    BY <2>1 DEF Unrecorded, error
  <2>3. QED
    BY <1>0, <1>8, <2>1, <2>2 DEF ToldInv
<1>10. CASE ListKeys
  <2>1. /\ worker = "list" /\ worker' = "build" /\ list \cap subscriptions \subseteq list'
        /\ UNCHANGED <<subscriptions, listed, excused, opened, reader, cmd, reply>>
    BY <1>10 DEF ListKeys, dataVars, readerVars, historyVars
  <2>2. Unrecorded' = Unrecorded
    BY <2>1 DEF Unrecorded, error
  <2>3. QED
    BY <1>0, <1>8, <2>1, <2>2 DEF ToldInv
<1>11. QED
  BY <1>2, <1>3, <1>4, <1>5, <1>6, <1>7, <1>9, <1>10 DEF Next, Internal, Callers

\* An application that has been told of the disconnect holds no subscription of
\* the client, but those it opened in a Subscribe whose reply was lost, with no
\* reply to a later one, or recorded after DisconnectNow had its list.
THEOREM NothingForgotten == Spec => []NoForgottenSubscription
<1>1. Init => ToldInv
  BY DEF Init, ToldInv
<1>2. ToldInv => NoForgottenSubscription
  BY DEF ToldInv, NoForgottenSubscription, Unrecorded
<1>3. QED
  BY <1>1, <1>2, ToldStep, CarryInvariant, PTL DEF Spec
=============================================================================
