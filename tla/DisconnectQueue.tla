-------------------------- MODULE DisconnectQueue --------------------------
(***************************************************************************)
(* The rate-limited queue of Disconnect RPC calls                          *)
(* (node/disconnect_queue.go): Enqueue, called by every goroutine that     *)
(* disconnects a session, the goroutine Run, and Shutdown, which takes     *)
(* calls from the same channel while Run may still be at work.             *)
(*                                                                         *)
(* Time is counted only inside Shutdown, where it matters: it passes while *)
(* a call lasts and while the loop waits on an empty channel.              *)
(***************************************************************************)
EXTENDS Naturals, Sequences, FiniteSets

CONSTANTS
  Sessions,     \* sessions, each disconnected from the node once
  Callers,      \* goroutines that call Shutdown
  QueueCap,     \* cap(d.disconnect), 4096 in the code
  Timeout,      \* d.timeout
  MaxCall,      \* bound: the longest Disconnect RPC call
  None

ASSUME QueueAssumption ==
  /\ QueueCap \in Nat \ {0} /\ Timeout \in Nat /\ MaxCall \in Nat
  /\ None \notin Sessions /\ Sessions \cap Callers = {}

VARIABLES
  queue,        \* d.disconnect
  mu,           \* holder of d.mu over several steps: an Enqueue that blocks
  isStopped,    \* d.isStopped
  token,        \* len(d.shutdown)
  enq,          \* per session: progress of its Enqueue
  runPc, runS,  \* Run: where it is, and the session it has taken
  sh,           \* per caller: progress of its Shutdown
  shS, left,    \* Shutdown: the session it has taken, and its counter
  timer,        \* Shutdown: time since this call, or this select, began
  called,       \* history: DisconnectNow calls made for each session
  accepted,     \* history: sessions whose Enqueue sent them to the queue
  backlog,      \* history: the calls Shutdown found
  waited        \* history: time spent in the loop of Shutdown

lockVars == <<mu, isStopped, token>>
runVars == <<runPc, runS>>
drainVars == <<sh, shS, left, timer, backlog, waited>>
vars == <<queue, lockVars, enq, runVars, drainVars, called, accepted>>

Init ==
  /\ queue = <<>> /\ mu = None /\ isStopped = FALSE /\ token = 0
  /\ enq = [s \in Sessions |-> "idle"]
  /\ runPc = "select" /\ runS = None
  /\ sh = [c \in Callers |-> "idle"] /\ shS = None /\ left = 0 /\ timer = 0
  /\ called = [s \in Sessions |-> 0]
  /\ accepted = {} /\ backlog = 0 /\ waited = 0

-----------------------------------------------------------------------------
\* The test at the start of Enqueue and of Shutdown.
\* Mutation: there is none.
NeverStopped == FALSE
AlreadyStopped == isStopped

Enqueue(s) ==
  /\ enq[s] = "idle"
  /\ enq' = [enq EXCEPT ![s] = "lock"]
  /\ UNCHANGED <<queue, lockVars, runVars, drainVars, called, accepted>>

\* Enqueue gets d.mu; it returns at once if the queue is stopped.
EnqueueLock(s) ==
  /\ enq[s] = "lock" /\ mu = None
  /\ IF AlreadyStopped
     THEN enq' = [enq EXCEPT ![s] = "done"] /\ UNCHANGED mu
     ELSE enq' = [enq EXCEPT ![s] = "send"] /\ mu' = s
  /\ UNCHANGED <<queue, isStopped, token, runVars, drainVars, called, accepted>>

\* The send on d.disconnect, which blocks with d.mu held while it is full.
EnqueueSend(s) ==
  /\ enq[s] = "send" /\ Len(queue) < QueueCap
  /\ queue' = Append(queue, s)
  /\ accepted' = accepted \cup {s}
  /\ enq' = [enq EXCEPT ![s] = "done"]
  /\ mu' = None
  /\ UNCHANGED <<isStopped, token, runVars, drainVars, called>>

-----------------------------------------------------------------------------
(* Run. *)

\* Mutation: a session that arrives once the queue is stopped ends the loop.
RunReceiveUnlessStopped ==
  /\ runPc = "select" /\ queue # <<>>
  /\ queue' = Tail(queue)
  /\ IF isStopped THEN runPc' = "stopped" /\ UNCHANGED runS
                  ELSE runPc' = "throttle" /\ runS' = Head(queue)
  /\ UNCHANGED <<lockVars, enq, drainVars, called, accepted>>
RunReceive ==
  /\ runPc = "select" /\ queue # <<>>
  /\ runS' = Head(queue) /\ queue' = Tail(queue)
  /\ runPc' = "throttle"
  /\ UNCHANGED <<lockVars, enq, drainVars, called, accepted>>

\* <-throttle.C, then DisconnectNow is called.
RunThrottle ==
  /\ runPc = "throttle"
  /\ runPc' = "call"
  /\ called' = [called EXCEPT ![runS] = @ + 1]
  /\ UNCHANGED <<queue, lockVars, enq, runS, drainVars, accepted>>

\* DisconnectNow returns; its error is ignored.
RunReturn ==
  /\ runPc = "call"
  /\ runPc' = "select" /\ runS' = None
  /\ UNCHANGED <<queue, lockVars, enq, drainVars, called, accepted>>

RunStop ==
  /\ runPc = "select" /\ token = 1
  /\ token' = 0
  /\ runPc' = "stopped"
  /\ UNCHANGED <<queue, mu, isStopped, enq, runS, drainVars, called, accepted>>

-----------------------------------------------------------------------------
(* Shutdown. *)

Shutdown(c) ==
  /\ sh[c] = "idle"
  /\ sh' = [sh EXCEPT ![c] = "lock"]
  /\ UNCHANGED <<queue, lockVars, enq, runVars, shS, left, timer, backlog, waited, called,
                 accepted>>

\* When Shutdown may enter its critical section.
\* Mutation: it does not wait for an Enqueue that holds d.mu.
MuIgnored == TRUE
MuFree == mu = None

\* The critical section: only the first caller goes on, and stops Run.
ShutdownLock(c) ==
  /\ sh[c] = "lock" /\ MuFree
  /\ IF AlreadyStopped
     THEN sh' = [sh EXCEPT ![c] = "nil"] /\ UNCHANGED <<isStopped, token>>
     ELSE sh' = [sh EXCEPT ![c] = "len"] /\ isStopped' = TRUE /\ token' = token + 1
  /\ UNCHANGED <<queue, mu, enq, runVars, shS, left, timer, backlog, waited, called, accepted>>

\* left := len(d.disconnect)
ShutdownLen(c) ==
  /\ sh[c] = "len"
  /\ left' = Len(queue) /\ backlog' = Len(queue) /\ timer' = 0
  /\ sh' = [sh EXCEPT ![c] = IF queue = <<>> THEN "nil" ELSE "select"]
  /\ UNCHANGED <<queue, lockVars, enq, runVars, shS, waited, called, accepted>>

ShutdownReceive(c) ==
  /\ sh[c] = "select" /\ queue # <<>>
  /\ shS' = Head(queue) /\ queue' = Tail(queue)
  /\ called' = [called EXCEPT ![Head(queue)] = @ + 1]
  /\ sh' = [sh EXCEPT ![c] = "call"] /\ timer' = 0
  /\ UNCHANGED <<lockVars, enq, runVars, left, backlog, waited, accepted>>

\* DisconnectNow returns: an error ends Shutdown, and so does the last call.
ShutdownReturn(c) ==
  /\ sh[c] = "call"
  /\ left' = left - 1
  /\ \E next \in {"failed", IF left = 1 THEN "nil" ELSE "select"} :
       sh' = [sh EXCEPT ![c] = next]
  /\ shS' = None /\ timer' = 0
  /\ UNCHANGED <<queue, lockVars, enq, runVars, backlog, waited, called, accepted>>

\* case <-time.After(d.timeout), a new timer for every round of the loop.
ShutdownTimeout(c) ==
  /\ sh[c] = "select" /\ timer = Timeout
  /\ sh' = [sh EXCEPT ![c] = "timedout"]
  /\ UNCHANGED <<queue, lockVars, enq, runVars, shS, left, timer, backlog, waited, called, accepted>>

\* Time passes in a call, or in a select that finds the channel empty.
Tick(c) ==
  /\ \/ sh[c] = "call" /\ timer < MaxCall
     \/ sh[c] = "select" /\ queue = <<>> /\ timer < Timeout
  /\ timer' = timer + 1 /\ waited' = waited + 1
  /\ UNCHANGED <<queue, lockVars, enq, runVars, sh, shS, left, backlog, called, accepted>>

-----------------------------------------------------------------------------
EnqueueStep(s) == Enqueue(s) \/ EnqueueLock(s) \/ EnqueueSend(s)
RunStep == RunReceive \/ RunThrottle \/ RunReturn \/ RunStop
DrainStep(c) ==
  ShutdownLen(c) \/ ShutdownReceive(c) \/ ShutdownReturn(c) \/ ShutdownTimeout(c) \/ Tick(c)

Next ==
  \/ RunStep
  \/ \E s \in Sessions : EnqueueStep(s)
  \/ \E c \in Callers : Shutdown(c) \/ ShutdownLock(c) \/ DrainStep(c)

Spec == Init /\ [][Next]_vars

\* Ready goroutines are scheduled, the ticker ticks, RPC calls return, and the
\* mutex is handed over in turn.
Fairness ==
  /\ WF_vars(RunStep)
  /\ \A s \in Sessions : SF_vars(EnqueueLock(s)) /\ WF_vars(EnqueueSend(s))
  /\ \A c \in Callers : SF_vars(ShutdownLock(c)) /\ WF_vars(DrainStep(c))

FairSpec == Spec /\ Fairness

-----------------------------------------------------------------------------
(* Properties. *)

\* The queue's state has its type; in particular d.shutdown, which has room for
\* one token, never gets a second one, so Shutdown never blocks with d.mu held.
TypeOK ==
  /\ queue \in Seq(Sessions) /\ mu \in Sessions \cup {None}
  /\ isStopped \in BOOLEAN /\ token \in 0..1
  /\ enq \in [Sessions -> {"idle", "lock", "send", "done"}]
  /\ runPc \in {"select", "throttle", "call", "stopped"} /\ runS \in Sessions \cup {None}
  /\ sh \in [Callers -> {"idle", "lock", "len", "select", "call", "nil", "failed", "timedout"}]
  /\ shS \in Sessions \cup {None} /\ left \in Nat /\ timer \in Nat
  /\ called \in [Sessions -> Nat] /\ accepted \subseteq Sessions
  /\ backlog \in Nat /\ waited \in Nat

\* No call is lost or made twice between the two consumers of the channel: an
\* accepted session is in the channel, taken by Run, or has had its one call.
Accounted ==
  \A s \in Sessions :
    Cardinality({i \in DOMAIN queue : queue[i] = s})
      + (IF runPc = "throttle" /\ runS = s THEN 1 ELSE 0) + called[s]
    = IF s \in accepted THEN 1 ELSE 0

\* A Shutdown that returns nil leaves nothing in the channel, even if Enqueue
\* and Run were at work when it began. (The callers that found the queue
\* stopped return nil at once: nil is judged when the drain is over.)
NilMeansDrained ==
  (\A c \in Callers : sh[c] \in {"idle", "lock", "nil"}) /\ isStopped => queue = <<>>

\* The timeout is the "number of seconds to wait before forcefully shutting down a
\* disconnect queue": Shutdown spends no more in its loop.
ShutdownWithinTimeout == waited <= Timeout

\* What holds instead, since every round has a timer of its own and no call is
\* interrupted: the time of the calls that Shutdown found, and one timeout.
ShutdownBounded == waited <= backlog * MaxCall + Timeout

\* Nobody is kept for ever: neither the caller of Enqueue, a session or a pool
\* worker that may hold d.mu on a full channel, nor that of Shutdown, who needs
\* d.mu to stop Run.
CallersReturn ==
  /\ \A s \in Sessions : (enq[s] # "idle") ~> (enq[s] = "done")
  /\ \A c \in Callers : (sh[c] # "idle") ~> (sh[c] \in {"nil", "failed", "timedout"})

=============================================================================
