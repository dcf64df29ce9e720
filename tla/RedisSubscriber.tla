-------------------------- MODULE RedisSubscriber --------------------------
(* pubsub/redis.go: the reconnect loop of Start, listen, and the goroutine  *)
(* that listen leaves receiving. A connection is named by its number: it is *)
(* the c of one call of listen, with the done channel and the receive       *)
(* goroutine of that call.                                                  *)
EXTENDS Naturals, Sequences, FiniteSets

CONSTANTS
  maxReconnectAttempts,
  Sentinels,    \* whether s.sentinels is set
  MaxConns,     \* bound: connections that can be made
  MaxMessages   \* bound: messages published

ASSUME RedisAssumption ==
  /\ maxReconnectAttempts \in Nat \ {0} /\ Sentinels \in BOOLEAN
  /\ MaxConns \in Nat /\ MaxMessages \in Nat

Conns == 1..MaxConns

VARIABLES
  pc,         \* of Start and listen
  attempt,    \* s.reconnectAttempt
  conn,       \* the last connection made; 0: none
  link,       \* per connection: "none", "open", "broken" or "closed"
  answer,     \* per connection, to SUBSCRIBE: "none", "due", "yes" or "no"
  inbox,      \* per connection: replies that have arrived and are not yet received
  receiver,   \* per connection: "none", "receive", "handle" or "send"
  done,       \* per connection: the errors in its done channel
  published,  \* bounded by MaxMessages
  fruitless,  \* history: calls of listen since one last subscribed
  rejected    \* history: connections that failed the role check

starter == <<pc, attempt, conn>>
wire == <<link, answer, inbox, published>>
history == <<fruitless, rejected>>
vars == <<starter, wire, receiver, done, history>>

Init ==
  /\ pc = "master" /\ attempt = 0 /\ conn = 0
  /\ link = [c \in Conns |-> "none"]
  /\ answer = [c \in Conns |-> "none"]
  /\ inbox = [c \in Conns |-> <<>>]
  /\ receiver = [c \in Conns |-> "none"]
  /\ done = [c \in Conns |-> 0]
  /\ published = 0
  /\ fruitless = 0 /\ rejected = {}

-----------------------------------------------------------------------------
(* Start. *)

\* The master's address is asked for in every round; an error ends Start.
MasterAddr ==
  /\ pc = "master"
  /\ \/ pc' = "dial"
     \/ Sentinels /\ pc' = "noMaster"
  /\ UNCHANGED <<attempt, conn, wire, receiver, done, history>>

attemptsExceeded == attempt + 1 >= maxReconnectAttempts

\* listen has returned.
NextAttempt ==
  /\ pc = "returned"
  /\ attempt' = attempt + 1
  /\ pc' = IF attemptsExceeded THEN "exceeded" ELSE "sleep"
  /\ UNCHANGED <<conn, wire, receiver, done, history>>

Sleep ==
  /\ pc = "sleep"
  /\ pc' = "master"
  /\ UNCHANGED <<attempt, conn, wire, receiver, done, history>>

-----------------------------------------------------------------------------
(* listen. *)

DialFail ==
  /\ pc = "dial"
  /\ pc' = "returned"
  /\ fruitless' = fruitless + 1
  /\ UNCHANGED <<attempt, conn, wire, receiver, done, rejected>>

Dial ==
  /\ pc = "dial" /\ conn < MaxConns
  /\ conn' = conn + 1
  /\ link' = [link EXCEPT ![conn'] = "open"]
  /\ pc' = IF Sentinels THEN "role" ELSE "subscribe"
  /\ UNCHANGED <<attempt, answer, inbox, published, receiver, done, history>>

\* A connection to a server that is not the master is not closed: the Close is
\* deferred only after the check.
TestRole ==
  /\ pc = "role"
  /\ \/ /\ link[conn] = "open"
        /\ pc' = "subscribe"
        /\ UNCHANGED <<fruitless, rejected>>
     \/ /\ pc' = "returned"
        /\ fruitless' = fruitless + 1
        /\ rejected' = rejected \cup {conn}
  /\ UNCHANGED <<attempt, conn, wire, receiver, done>>

\* Mutation: the attempts of the whole life of the subscriber are counted.
attemptsSoFar == attempt
attemptsAfterSubscribe == 0

\* SUBSCRIBE is written, its reply is left to the receive goroutine.
Subscribe ==
  /\ pc = "subscribe"
  /\ attempt' = attemptsAfterSubscribe
  /\ receiver' = [receiver EXCEPT ![conn] = "receive"]
  /\ pc' = "loop"
  /\ fruitless' = 0
  /\ answer' = [answer EXCEPT ![conn] = "due"]
  /\ UNCHANGED <<conn, link, inbox, published, done, rejected>>

SubscribeFail ==
  /\ pc = "subscribe" /\ link[conn] = "broken"
  /\ link' = [link EXCEPT ![conn] = "closed"]
  /\ pc' = "returned"
  /\ fruitless' = fruitless + 1
  /\ UNCHANGED <<attempt, conn, answer, inbox, published, receiver, done, rejected>>

\* Mutation: listen returns, leaving the receive goroutine alone.
returnAtOnce == "returned"
waitForDone == "wait"

\* The ping fails; psc.Unsubscribe then has no effect either.
PingFail ==
  /\ pc = "loop" /\ link[conn] = "broken"
  /\ pc' = waitForDone
  /\ UNCHANGED <<attempt, conn, wire, receiver, done, history>>

\* Mutation: the connection is not closed.
leftAsItIs(c) == link[c]
afterClose(c) == "closed"

\* Both receives from done: listen returns, and c.Close runs.
Done ==
  /\ pc \in {"loop", "wait"} /\ done[conn] > 0
  /\ done' = [done EXCEPT ![conn] = @ - 1]
  /\ link' = [link EXCEPT ![conn] = afterClose(conn)]
  /\ pc' = "returned"
  /\ UNCHANGED <<attempt, conn, answer, inbox, published, receiver, history>>

-----------------------------------------------------------------------------
(* The receive goroutine of connection c: it has no end. *)

Receive(c) ==
  /\ receiver[c] = "receive" /\ inbox[c] # <<>>
  /\ inbox' = [inbox EXCEPT ![c] = Tail(@)]
  /\ receiver' = [receiver EXCEPT ![c] =
       CASE Head(inbox[c]) = "message" -> "handle"
         [] Head(inbox[c]) = "subscription" -> "receive"
         [] Head(inbox[c]) = "error" -> "send"]
  /\ UNCHANGED <<starter, link, answer, published, done, history>>

\* The goroutine's next step after an error of the connection.
\* Mutation: it just tries again.
receiveAgain == "receive"
sendError == "send"

\* Nothing is left to read and the connection is gone.
ReceiveError(c) ==
  /\ receiver[c] = "receive" /\ inbox[c] = <<>> /\ link[c] \in {"broken", "closed"}
  /\ receiver' = [receiver EXCEPT ![c] = sendError]
  /\ UNCHANGED <<starter, wire, done, history>>

\* node.HandlePubSub returns.
Handled(c) ==
  /\ receiver[c] = "handle"
  /\ receiver' = [receiver EXCEPT ![c] = "receive"]
  /\ UNCHANGED <<starter, wire, done, history>>

\* done <- v: the channel holds one error.
SendDone(c) ==
  /\ receiver[c] = "send" /\ done[c] < 1
  /\ done' = [done EXCEPT ![c] = @ + 1]
  /\ receiver' = [receiver EXCEPT ![c] = "receive"]
  /\ UNCHANGED <<starter, wire, history>>

-----------------------------------------------------------------------------
(* Redis and the network. *)

\* The subscription is confirmed or refused; a refusal leaves the connection open.
Answer(c) ==
  /\ link[c] = "open" /\ answer[c] = "due"
  /\ \/ /\ answer' = [answer EXCEPT ![c] = "yes"]
        /\ inbox' = [inbox EXCEPT ![c] = Append(@, "subscription")]
     \/ /\ answer' = [answer EXCEPT ![c] = "no"]
        /\ inbox' = [inbox EXCEPT ![c] = Append(@, "error")]
  /\ UNCHANGED <<starter, link, published, receiver, done, history>>

Publish(c) ==
  /\ link[c] = "open" /\ answer[c] = "yes" /\ published < MaxMessages
  /\ published' = published + 1
  /\ inbox' = [inbox EXCEPT ![c] = Append(@, "message")]
  /\ UNCHANGED <<starter, link, answer, receiver, done, history>>

Break(c) ==
  /\ link[c] = "open"
  /\ link' = [link EXCEPT ![c] = "broken"]
  /\ UNCHANGED <<starter, answer, inbox, published, receiver, done, history>>

-----------------------------------------------------------------------------
StartStep ==
  \/ MasterAddr \/ NextAttempt \/ Sleep
  \/ Dial \/ DialFail \/ TestRole \/ Subscribe \/ SubscribeFail \/ PingFail \/ Done
ReceiverStep(c) == Receive(c) \/ ReceiveError(c) \/ Handled(c) \/ SendDone(c)
RedisStep(c) == Answer(c) \/ Publish(c) \/ Break(c)

Next == StartStep \/ \E c \in Conns : ReceiverStep(c) \/ RedisStep(c)

Spec == Init /\ [][Next]_vars

\* Both goroutines are scheduled, the hub takes the messages it is given, and a
\* ping on a broken connection fails in the end. Redis owes nothing.
Fairness == WF_vars(StartStep) /\ \A c \in Conns : WF_vars(ReceiverStep(c))

FairSpec == Spec /\ Fairness

-----------------------------------------------------------------------------
(* Properties. *)

Ended == {"noMaster", "exceeded"}

\* The subscriber's fields, its connections and their goroutines hold values of
\* their types.
TypeOK ==
  /\ pc \in {"master", "dial", "role", "subscribe", "loop", "wait", "returned", "sleep"} \cup Ended
  /\ attempt \in 0..maxReconnectAttempts /\ conn \in 0..MaxConns
  /\ link \in [Conns -> {"none", "open", "broken", "closed"}]
  /\ answer \in [Conns -> {"none", "due", "yes", "no"}]
  /\ inbox \in [Conns -> Seq({"subscription", "message", "error"})]
  /\ receiver \in [Conns -> {"none", "receive", "handle", "send"}]
  /\ done \in [Conns -> 0..1]
  /\ published \in 0..MaxMessages /\ fruitless \in Nat /\ rejected \subseteq Conns

\* Only the current connection's goroutine is in HandlePubSub, and only while
\* listen has not returned: messages of an old connection are neither handled
\* beside nor after those of a new one, although its goroutine never ends.
OldConnectionIsSilent ==
  \A c \in Conns : receiver[c] = "handle" => c = conn /\ pc \in {"loop", "wait"}

\* Start gives up after maxReconnectAttempts calls of listen in a row that did
\* not get to subscribe, one less after a connection that was lost; before
\* that it goes on, whatever happened earlier.
GivesUpInTime ==
  /\ fruitless <= maxReconnectAttempts
  /\ pc = "exceeded" => fruitless + 1 >= maxReconnectAttempts

\* Every connection but the current one has been closed; the exceptions are
\* those that failed the role check.
ConnectionsReleased ==
  \A c \in Conns : c < conn => link[c] = "closed" \/ c \in rejected

\* A connection that is lost while Start listens on it is replaced, or Start
\* ends with an error, even if the loss shows only in a ping or in a read.
LossIsNoticed ==
  \A c \in Conns : (pc = "loop" /\ conn = c /\ link[c] = "broken")
                     ~> (pc \in Ended \/ (pc = "loop" /\ conn # c))

=============================================================================
