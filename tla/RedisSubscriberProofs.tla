------------------------ MODULE RedisSubscriberProofs ------------------------
(* Theorems about the Redis subscriber, for any limit on its attempts and  *)
(* any number of connections and messages.                                 *)
EXTENDS RedisSubscriber, SequenceTheorems, TLAPS

-----------------------------------------------------------------------------
(* The inductive invariant. *)

Steps == {"master", "dial", "role", "subscribe", "loop", "wait", "returned", "sleep"} \cup Ended
Replies == {"subscription", "message", "error"}

Types ==
  /\ pc \in Steps /\ conn \in 0..MaxConns
  /\ link \in [Conns -> {"none", "open", "broken", "closed"}]
  /\ answer \in [Conns -> {"none", "due", "yes", "no"}]
  /\ inbox \in [Conns -> Seq(Replies)]
  /\ receiver \in [Conns -> {"none", "receive", "handle", "send"}]
  /\ done \in [Conns -> 0..1]
  /\ published \in 0..MaxMessages /\ rejected \subseteq Conns

Listening == pc \in {"loop", "wait"}
Connected == pc \in {"role", "subscribe", "loop", "wait"}

\* Nothing has been asked of a connection before SUBSCRIBE.
Fresh(c) == answer[c] = "none" /\ inbox[c] = <<>> /\ receiver[c] = "none" /\ done[c] = 0

\* Nothing will arrive any more.
Quiet(c) == inbox[c] = <<>> /\ (link[c] \in {"broken", "closed"} \/ answer[c] = "no")

\* A refusal is the only reply of its connection.
InboxInv(c) ==
  /\ answer[c] \in {"none", "due"} => inbox[c] = <<>>
  /\ answer[c] = "no" => inbox[c] \in {<<>>, <<"error">>}
  /\ answer[c] = "yes" => \A i \in 1..Len(inbox[c]) : inbox[c][i] # "error"

\* A goroutine that has reported an error has nothing more to receive, and
\* listen does not return before that.
SilentInv(c) ==
  /\ receiver[c] = "send" \/ done[c] > 0 => Quiet(c) /\ receiver[c] # "handle"
  /\ c < conn \/ (c = conn /\ ~Listening) =>
       receiver[c] = "none" \/ (Quiet(c) /\ receiver[c] # "handle")
  /\ c > conn \/ (c = conn /\ pc \in {"role", "subscribe"}) => Fresh(c)

ReleasedInv(c) ==
  c < conn \/ (c = conn /\ ~Connected) => link[c] = "closed" \/ c \in rejected

\* How the attempts that Start counts relate to the fruitless ones.
CountInv ==
  /\ attempt \in Nat /\ fruitless \in Nat
  /\ Listening => attempt = 0 /\ fruitless = 0
  /\ pc \in {"master", "dial", "role", "subscribe", "sleep", "noMaster"} =>
       attempt < maxReconnectAttempts /\ fruitless <= attempt /\ attempt <= fruitless + 1
  /\ pc = "returned" =>
       attempt < maxReconnectAttempts /\ attempt <= fruitless /\ fruitless <= attempt + 1
  /\ pc = "exceeded" =>
       attempt = maxReconnectAttempts /\ fruitless <= attempt /\ attempt <= fruitless + 1

ConnInv(c) == InboxInv(c) /\ SilentInv(c) /\ ReleasedInv(c)

IInv ==
  /\ Types /\ CountInv
  /\ Connected => conn \in Conns
  /\ \A c \in Conns : ConnInv(c)

-----------------------------------------------------------------------------
\* Before Start there are no connections.
LEMMA InitInv == Init => IInv
<1> SUFFICES ASSUME Init PROVE IInv
  OBVIOUS
<1>1. Types
  BY RedisAssumption DEF Init, Types, Steps
<1>2. CountInv
  BY RedisAssumption DEF Init, CountInv, Listening
<1>3. ASSUME NEW c \in Conns PROVE ConnInv(c)
  BY <1>3, RedisAssumption DEF Init, ConnInv, InboxInv, SilentInv, ReleasedInv, Fresh, Listening, Conns
<1>4. QED
  BY <1>1, <1>2, <1>3 DEF IInv, Connected, Init

\* What Start and listen do keeps their counters and their types.
LEMMA StartCounts ==
  ASSUME IInv, StartStep
  PROVE  Types' /\ CountInv' /\ (Connected' => conn' \in Conns)
<1> USE RedisAssumption DEF IInv, Conns
<1>1. CASE MasterAddr
  BY <1>1 DEF MasterAddr, Types, CountInv, Connected, Listening, Steps, Ended, wire, history
<1>2. CASE NextAttempt
  BY <1>2 DEF NextAttempt, attemptsExceeded, Types, CountInv, Connected, Listening, Steps, Ended, wire, history
<1>3. CASE Sleep
  BY <1>3 DEF Sleep, Types, CountInv, Connected, Listening, Steps, Ended, wire, history
<1>4. CASE Dial
  <2>1. /\ pc = "dial" /\ conn \in 0..MaxConns /\ conn < MaxConns /\ conn' = conn + 1
        /\ link' = [link EXCEPT ![conn'] = "open"]
        /\ pc' \in {"role", "subscribe"}
        /\ UNCHANGED <<attempt, answer, inbox, published, receiver, done, fruitless, rejected>>
    BY <1>4 DEF Dial, Types, history
  <2>2. conn' \in 1..MaxConns
    BY <2>1
  <2>3. Types'
    BY <2>1, <2>2 DEF Types, Steps
  <2>4. QED
    BY <2>1, <2>2, <2>3 DEF CountInv, Connected, Listening
<1>5. CASE DialFail
  BY <1>5 DEF DialFail, Types, CountInv, Connected, Listening, Steps, Ended, wire
<1>6. CASE TestRole
  <2>1. /\ pc = "role" /\ UNCHANGED <<attempt, conn, link, answer, inbox, published, receiver, done>>
        /\ \/ pc' = "subscribe" /\ UNCHANGED <<fruitless, rejected>>
           \/ pc' = "returned" /\ fruitless' = fruitless + 1 /\ rejected' = rejected \cup {conn}
    BY <1>6 DEF TestRole, wire
  <2>2. conn \in 1..MaxConns
    BY <2>1 DEF Connected
  <2>3. Types'
    BY <2>1, <2>2 DEF Types, Steps, Conns
  <2>4. QED
    BY <2>1, <2>2, <2>3 DEF CountInv, Connected, Listening
<1>7. CASE Subscribe
  BY <1>7 DEF Subscribe, attemptsAfterSubscribe, Types, CountInv, Connected, Listening, Steps, Ended
<1>8. CASE SubscribeFail
  BY <1>8 DEF SubscribeFail, Types, CountInv, Connected, Listening, Steps, Ended
<1>9. CASE PingFail
  BY <1>9 DEF PingFail, waitForDone, Types, CountInv, Connected, Listening, Steps, Ended, wire, history
<1>10. CASE Done
  BY <1>10 DEF Done, afterClose, Types, CountInv, Connected, Listening, Steps, Ended, history
<1>11. QED
  BY <1>1, <1>2, <1>3, <1>4, <1>5, <1>6, <1>7, <1>8, <1>9, <1>10 DEF StartStep

\* What they do to the connections.
LEMMA StartKeeps ==
  ASSUME IInv, StartStep, NEW c \in Conns
  PROVE  ConnInv(c)'
<1> USE DEF ConnInv
<1>1. ConnInv(c) /\ c \in Nat /\ conn \in Nat
  BY DEF IInv, Types, Conns
<1>2. CASE MasterAddr \/ NextAttempt \/ Sleep \/ DialFail
  <2>1. /\ UNCHANGED <<conn, link, answer, inbox, receiver, done, rejected>>
        /\ ~Listening /\ ~Listening' /\ ~Connected /\ ~Connected'
        /\ pc' \notin {"role", "subscribe"}
    BY <1>2 DEF MasterAddr, NextAttempt, Sleep, DialFail, Listening, Connected, wire, history
  <2>2. QED
    BY <1>1, <2>1 DEF InboxInv, SilentInv, ReleasedInv, Quiet, Fresh
<1>3. CASE Dial
  <2>1. /\ pc = "dial" /\ conn' = conn + 1 /\ pc' \in {"role", "subscribe"}
        /\ c # conn' => link'[c] = link[c]
        /\ UNCHANGED <<answer, inbox, receiver, done, rejected>>
    BY <1>3 DEF Dial, IInv, Types, history
  <2>2. c < conn' => c < conn \/ c = conn
    BY <1>1, <2>1
  <2>3. ~(c < conn') => c > conn /\ Fresh(c)
    BY <1>1, <2>1 DEF SilentInv
  <2>4. InboxInv(c)' /\ ReleasedInv(c)'
    BY <1>1, <2>1, <2>2, <2>3 DEF InboxInv, ReleasedInv, Connected
  <2>5. CASE c < conn'
    BY <1>1, <2>1, <2>2, <2>4, <2>5 DEF SilentInv, Quiet, Listening
  <2>6. CASE ~(c < conn')
    BY <1>1, <2>1, <2>3, <2>4, <2>6 DEF SilentInv, Fresh
  <2>7. QED
    BY <2>5, <2>6
<1>4. CASE TestRole
  <2>1. /\ pc = "role" /\ UNCHANGED <<conn, link, answer, inbox, receiver, done>>
        /\ \/ pc' = "subscribe" /\ rejected' = rejected
           \/ pc' = "returned" /\ rejected' = rejected \cup {conn}
    BY <1>4 DEF TestRole, wire
  <2>2. QED
    BY <1>1, <2>1 DEF InboxInv, SilentInv, ReleasedInv, Quiet, Fresh, Listening, Connected
<1>5. CASE Subscribe
  <2>1. /\ pc = "subscribe" /\ pc' = "loop" /\ UNCHANGED <<conn, link, inbox, done, rejected>>
        /\ c # conn => answer'[c] = answer[c] /\ receiver'[c] = receiver[c]
        /\ c = conn => answer'[c] = "due" /\ receiver'[c] = "receive"
    BY <1>5 DEF Subscribe, IInv, Types
  <2>2. QED
    BY <1>1, <2>1 DEF InboxInv, SilentInv, ReleasedInv, Quiet, Fresh, Listening, Connected
<1>6. CASE SubscribeFail
  <2>1. /\ pc = "subscribe" /\ pc' = "returned"
        /\ UNCHANGED <<conn, answer, inbox, receiver, done, rejected>>
        /\ link'[c] = IF c = conn THEN "closed" ELSE link[c]
    BY <1>6 DEF SubscribeFail, IInv, Types
  <2>2. QED
    BY <1>1, <2>1 DEF InboxInv, SilentInv, ReleasedInv, Quiet, Fresh, Listening, Connected
<1>7. CASE PingFail
  <2>1. /\ pc = "loop" /\ pc' = "wait"
        /\ UNCHANGED <<conn, link, answer, inbox, receiver, done, rejected>>
    BY <1>7 DEF PingFail, waitForDone, wire, history
  <2>2. QED
    BY <1>1, <2>1 DEF InboxInv, SilentInv, ReleasedInv, Quiet, Fresh, Listening, Connected
<1>8. CASE Done
  <2>1. /\ Listening /\ pc' = "returned" /\ done[conn] > 0 /\ done[c] \in 0..1
        /\ UNCHANGED <<conn, answer, inbox, receiver, rejected>>
        /\ link'[c] = IF c = conn THEN "closed" ELSE link[c]
        /\ done'[c] = IF c = conn THEN done[c] - 1 ELSE done[c]
    BY <1>8 DEF Done, afterClose, Listening, IInv, Types, history
  <2>2. c = conn => Quiet(c) /\ Quiet(c)' /\ receiver[c] # "handle"
    BY <1>1, <2>1 DEF SilentInv, Quiet
  <2>3. c # conn => (Quiet(c)' <=> Quiet(c)) /\ (Fresh(c)' <=> Fresh(c))
    BY <2>1 DEF Quiet, Fresh
  <2>4. InboxInv(c)' /\ ReleasedInv(c)'
    BY <1>1, <2>1 DEF InboxInv, ReleasedInv, Listening, Connected
  <2>5. SilentInv(c)'
    BY <1>1, <2>1, <2>2, <2>3 DEF SilentInv, Listening
  <2>6. QED
    BY <2>4, <2>5
<1>9. QED
  BY <1>2, <1>3, <1>4, <1>5, <1>6, <1>7, <1>8 DEF StartStep

\* The steps of a connection's goroutine, of Redis and of the network leave Start
\* alone and concern that connection only.
LEMMA WireKeeps ==
  ASSUME IInv, NEW c \in Conns, ReceiverStep(c) \/ RedisStep(c)
  PROVE  /\ Types' /\ UNCHANGED <<pc, attempt, conn, fruitless, rejected>>
         /\ \A d \in Conns \ {c} : UNCHANGED <<link[d], answer[d], inbox[d], receiver[d], done[d]>>
         /\ ConnInv(c)'
<1> USE DEF ConnInv
<1>1. ConnInv(c) /\ Types /\ c \in Nat /\ conn \in Nat /\ inbox[c] \in Seq(Replies)
  BY DEF IInv, Types, Conns
<1>2. CASE Receive(c)
  <2>1. /\ receiver[c] = "receive" /\ inbox[c] # <<>>
        /\ inbox' = [inbox EXCEPT ![c] = Tail(@)]
        /\ UNCHANGED <<pc, attempt, conn, link, answer, published, done, fruitless, rejected>>
    BY <1>2 DEF Receive, starter, history
  <2>2. /\ Len(inbox[c]) \in Nat \ {0} /\ Head(inbox[c]) = inbox[c][1]
        /\ inbox[c][1] \in Replies /\ Tail(inbox[c]) \in Seq(Replies)
        /\ Len(Tail(inbox[c])) = Len(inbox[c]) - 1
        /\ \A i \in 1..Len(Tail(inbox[c])) : Tail(inbox[c])[i] = inbox[c][i + 1]
    BY <1>1, <2>1, HeadTailProperties
  <2>3. PICK r \in {"handle", "receive", "send"} :
          /\ receiver' = [receiver EXCEPT ![c] = r]
          /\ r = "send" => inbox[c][1] = "error"
    BY <1>2, <2>2 DEF Receive, Replies
  <2>4. inbox'[c] = Tail(inbox[c]) /\ receiver'[c] = r
    BY <2>1, <2>3, <1>1 DEF Types
  <2>5. Types'
    BY <1>1, <2>1, <2>2, <2>3 DEF Types
  <2>6. ~Quiet(c) /\ done[c] = 0 /\ c = conn /\ Listening
    BY <1>1, <2>1 DEF SilentInv, Quiet, Fresh, Types
  <2>7. InboxInv(c)'
    <3>1. CASE answer[c] = "no"
      <4>1. inbox[c] = <<"error">>
        BY <1>1, <2>1, <3>1 DEF InboxInv
      <4>2. Tail(inbox[c]) = <<>>
        BY <4>1
      <4>3. QED
        BY <2>1, <2>4, <3>1, <4>2 DEF InboxInv
    <3>2. CASE answer[c] = "yes"
      <4>1. \A i \in 1..Len(inbox[c]) : inbox[c][i] # "error"
        BY <1>1, <3>2 DEF InboxInv
      <4>2. \A i \in 1..Len(Tail(inbox[c])) : i + 1 \in 1..Len(inbox[c])
        BY <2>2
      <4>3. \A i \in 1..Len(Tail(inbox[c])) : Tail(inbox[c])[i] # "error"
        BY <2>2, <4>1, <4>2
      <4>4. QED
        BY <2>1, <2>4, <3>2, <4>3 DEF InboxInv
    <3>3. QED
      BY <1>1, <2>1, <3>1, <3>2 DEF InboxInv, Types
  <2>8. r = "send" => Quiet(c)'
    <3>1. SUFFICES ASSUME r = "send" PROVE Quiet(c)'
      OBVIOUS
    <3>2. 1 \in 1..Len(inbox[c]) /\ inbox[c][1] = "error"
      BY <2>2, <2>3, <3>1
    <3>3. answer[c] = "no" /\ inbox[c] = <<"error">>
      BY <1>1, <2>1, <3>2 DEF InboxInv, Types
    <3>4. QED
      BY <2>1, <2>4, <3>3 DEF Quiet
  <2>9. SilentInv(c)' /\ ReleasedInv(c)'
    BY <1>1, <2>1, <2>4, <2>6, <2>8 DEF SilentInv, ReleasedInv, Listening, Connected
  <2>10. QED
    BY <2>1, <2>3, <2>5, <2>7, <2>9, <1>1 DEF Types
<1>3. CASE ReceiveError(c) \/ Handled(c) \/ SendDone(c)
  <2>1. UNCHANGED <<pc, attempt, conn, link, answer, inbox, published, fruitless, rejected>>
    BY <1>3 DEF ReceiveError, Handled, SendDone, starter, wire, history
  <2>2. PICK r \in {"receive", "send"}, k \in 0..1 :
          /\ receiver' = [receiver EXCEPT ![c] = r] /\ done' = [done EXCEPT ![c] = k]
          /\ receiver[c] # "none"
          /\ r = "send" \/ k > 0 => Quiet(c)
    <3>1. CASE ReceiveError(c)
      <4>1. /\ receiver' = [receiver EXCEPT ![c] = "send"] /\ receiver[c] = "receive"
            /\ done' = [done EXCEPT ![c] = done[c]] /\ done[c] \in 0..1 /\ Quiet(c)
        BY <1>1, <3>1 DEF ReceiveError, sendError, Quiet, Types
      <4>2. QED
        BY <4>1
    <3>2. CASE Handled(c)
      <4>1. /\ receiver' = [receiver EXCEPT ![c] = "receive"] /\ receiver[c] = "handle"
            /\ done' = [done EXCEPT ![c] = done[c]] /\ done[c] \in 0..1
        BY <1>1, <3>2 DEF Handled, Types
      <4>2. done[c] > 0 => Quiet(c)
        BY <1>1 DEF SilentInv
      <4>3. QED
        BY <4>1, <4>2
    <3>3. CASE SendDone(c)
      <4>1. /\ receiver' = [receiver EXCEPT ![c] = "receive"] /\ receiver[c] = "send"
            /\ done' = [done EXCEPT ![c] = 1]
        <5>1. done[c] \in 0..1 /\ done[c] < 1
          BY <1>1, <3>3 DEF SendDone, Types
        <5>2. done[c] + 1 = 1
          BY <5>1
        <5>3. QED
          BY <3>3, <5>2 DEF SendDone
      <4>2. Quiet(c)
        BY <1>1, <4>1 DEF SilentInv
      <4>3. QED
        BY <4>1, <4>2
    <3>4. QED
      BY <1>3, <3>1, <3>2, <3>3
  <2>3. receiver'[c] = r /\ done'[c] = k /\ (Quiet(c)' <=> Quiet(c))
    BY <1>1, <2>1, <2>2 DEF Types, Quiet
  <2>4. Types'
    BY <1>1, <2>1, <2>2 DEF Types
  <2>5. InboxInv(c)' /\ ReleasedInv(c)'
    BY <1>1, <2>1 DEF InboxInv, ReleasedInv, Connected
  <2>6. SilentInv(c)'
    BY <1>1, <2>1, <2>2, <2>3 DEF SilentInv, Fresh, Listening
  <2>7. QED
    BY <1>1, <2>1, <2>2, <2>4, <2>5, <2>6 DEF Types
<1>4. CASE Answer(c) \/ Publish(c)
  <2>1. /\ UNCHANGED <<pc, attempt, conn, link, receiver, done, fruitless, rejected>>
        /\ link[c] = "open" /\ published' \in 0..MaxMessages
    BY <1>1, <1>4, RedisAssumption DEF Answer, Publish, starter, history, Types
  <2>2. PICK a \in {"yes", "no"}, m \in Replies :
          /\ answer' = [answer EXCEPT ![c] = a] /\ inbox' = [inbox EXCEPT ![c] = Append(@, m)]
          /\ answer[c] \in {"due", "yes"} /\ (answer[c] = "yes" => a = "yes")
          /\ a = "yes" <=> m # "error"
    <3>1. CASE Answer(c)
      BY <3>1 DEF Answer, Replies
    <3>2. CASE Publish(c)
      <4>1. answer' = [answer EXCEPT ![c] = "yes"]
        BY <1>1, <3>2 DEF Publish, Types
      <4>2. QED
        BY <3>2, <4>1 DEF Publish, Replies
    <3>3. QED
      BY <1>4, <3>1, <3>2
  <2>3. answer'[c] = a /\ inbox'[c] = Append(inbox[c], m) /\ Append(inbox[c], m) \in Seq(Replies)
    BY <1>1, <2>2 DEF Types
  <2>4. Types'
    BY <1>1, <2>1, <2>2, <2>3 DEF Types
  <2>5. ~Quiet(c) /\ ~Fresh(c)
    BY <2>1, <2>2 DEF Quiet, Fresh
  <2>6. InboxInv(c)'
    <3>1. CASE answer[c] = "due"
      <4>1. inbox[c] = <<>>
        BY <1>1, <3>1 DEF InboxInv
      <4>2. Append(inbox[c], m) = <<m>>
        BY <4>1
      <4>3. QED
        BY <2>2, <2>3, <4>2 DEF InboxInv
    <3>2. CASE answer[c] = "yes"
      <4>1. /\ \A i \in 1..Len(inbox[c]) : inbox[c][i] # "error"
            /\ a = "yes" /\ m # "error"
        BY <1>1, <2>2, <3>2 DEF InboxInv
      <4>2. \A i \in 1..Len(Append(inbox[c], m)) :
              Append(inbox[c], m)[i] = m \/ (i \in 1..Len(inbox[c]) /\ Append(inbox[c], m)[i] = inbox[c][i])
        BY <1>1, AppendProperties
      <4>3. QED
        BY <2>3, <4>1, <4>2 DEF InboxInv
    <3>3. QED
      BY <2>2, <3>1, <3>2
  <2>7. SilentInv(c)' /\ ReleasedInv(c)'
    BY <1>1, <2>1, <2>5 DEF SilentInv, ReleasedInv, Listening, Connected
  <2>8. QED
    BY <1>1, <2>1, <2>2, <2>4, <2>6, <2>7 DEF Types
<1>5. CASE Break(c)
  <2>1. /\ UNCHANGED <<pc, attempt, conn, answer, inbox, published, receiver, done, fruitless, rejected>>
        /\ link[c] = "open" /\ link' = [link EXCEPT ![c] = "broken"]
    BY <1>5 DEF Break, starter, history
  <2>2. link'[c] = "broken" /\ (Quiet(c) => Quiet(c)')
    BY <1>1, <2>1 DEF Types, Quiet
  <2>3. Types'
    BY <1>1, <2>1 DEF Types
  <2>4. InboxInv(c)' /\ SilentInv(c)' /\ ReleasedInv(c)'
    BY <1>1, <2>1, <2>2 DEF InboxInv, SilentInv, ReleasedInv, Fresh, Listening, Connected
  <2>5. QED
    BY <1>1, <2>1, <2>3, <2>4 DEF Types
<1>6. QED
  BY <1>2, <1>3, <1>4, <1>5 DEF ReceiverStep, RedisStep

\* The invariant holds in every state.
LEMMA Invariance == Spec => []IInv
<1>1. IInv /\ [Next]_vars => IInv'
  <2>1. SUFFICES ASSUME IInv, [Next]_vars PROVE IInv'
    OBVIOUS
  <2>2. CASE StartStep
    BY <2>1, <2>2, StartCounts, StartKeeps DEF IInv
  <2>3. ASSUME NEW c \in Conns, ReceiverStep(c) \/ RedisStep(c) PROVE IInv'
    <3>1. /\ Types' /\ UNCHANGED <<pc, attempt, conn, fruitless, rejected>>
          /\ \A d \in Conns \ {c} : UNCHANGED <<link[d], answer[d], inbox[d], receiver[d], done[d]>>
          /\ ConnInv(c)'
      BY <2>1, <2>3, WireKeeps
    <3>2. CountInv' /\ (Connected' => conn' \in Conns)
      BY <2>1, <3>1 DEF IInv, CountInv, Listening, Connected
    <3>3. ASSUME NEW d \in Conns \ {c} PROVE ConnInv(d)'
      BY <2>1, <3>1 DEF IInv, ConnInv, InboxInv, SilentInv, ReleasedInv, Quiet, Fresh,
                        Listening, Connected
    <3>4. QED
      BY <3>1, <3>2, <3>3 DEF IInv
  <2>4. CASE UNCHANGED vars
    BY <2>1, <2>4 DEF vars, starter, wire, history, IInv, Types, CountInv, ConnInv, InboxInv,
                      SilentInv, ReleasedInv, Quiet, Fresh, Listening, Connected
  <2>5. QED
    BY <2>1, <2>2, <2>3, <2>4 DEF Next
<1>2. QED
  BY <1>1, InitInv, PTL DEF Spec

\* The subscriber's goroutines and its connections hold values of their types,
\* and the number of attempts stays within its limit.
THEOREM TypeCorrect == Spec => []TypeOK
<1>1. IInv => TypeOK
  <2>1. IInv => attempt \in 0..maxReconnectAttempts
    BY RedisAssumption DEF IInv, Types, Steps, Ended, CountInv, Listening
  <2>2. QED
    BY <2>1 DEF IInv, Types, Steps, Replies, CountInv, TypeOK
<1>2. QED
  BY <1>1, Invariance, PTL

\* However often the connection to Redis is lost and replaced, only the goroutine
\* of the current one is in node.HandlePubSub: those of earlier connections never
\* end, but have nothing more to receive.
THEOREM OldOnesAreSilent == Spec => []OldConnectionIsSilent
<1>1. IInv => OldConnectionIsSilent
  <2>1. SUFFICES ASSUME IInv, NEW c \in Conns, receiver[c] = "handle"
                 PROVE  c = conn /\ pc \in {"loop", "wait"}
    BY DEF OldConnectionIsSilent
  <2>2. SilentInv(c) /\ c \in Nat /\ conn \in Nat
    BY <2>1 DEF IInv, ConnInv, Types, Conns
  <2>3. QED
    BY <2>1, <2>2 DEF SilentInv, Fresh, Listening
<1>2. QED
  BY <1>1, Invariance, PTL

\* Every connection but the current one has been closed by listen, whichever way
\* it ended, unless it failed the role check.
THEOREM OldOnesAreClosed == Spec => []ConnectionsReleased
<1>1. IInv => ConnectionsReleased
  BY DEF IInv, ConnInv, ReleasedInv, ConnectionsReleased
<1>2. QED
  BY <1>1, Invariance, PTL

\* Start gives up neither early nor late, for any limit and any history of lost
\* and refused connections.
THEOREM AttemptsAreCounted == Spec => []GivesUpInTime
<1>1. IInv => GivesUpInTime
  BY RedisAssumption DEF IInv, Types, Steps, Ended, CountInv, Listening, GivesUpInTime
<1>2. QED
  BY <1>1, Invariance, PTL
=============================================================================
