----------------------------- MODULE RpcProofs -----------------------------
(* Theorems about the calls of the RPC server. The disconnect queue, for   *)
(* any number of sessions and of Shutdown callers, any capacity, timeout   *)
(* and duration of calls. The controller, for any number of calls, any     *)
(* concurrency and any intervals: busy() counts the calls in flight, and a *)
(* call that is retried gives up in time. And the two together: nothing    *)
(* but what Run had taken is called on a closed connection.                *)
EXTENDS DisconnectCalls, FiniteSetTheorems, TLAPS

-----------------------------------------------------------------------------
(* The controller. *)

Places == {"idle", "wait", "ready", "recover", "reset", "invoke", "release", "close", "done"}

\* The tickets that are out are with the calls in flight.
TicketInv ==
  /\ pc \in [Threads -> Places]
  /\ sem \in Nat /\ sem + Cardinality(InFlight) = Concurrency

Flying == {"ready", "recover", "reset", "invoke", "release"}

\* A step of a goroutine that stays on its side of the semaphore.
LEMMA SideKept ==
  ASSUME TicketInv, NEW t \in Threads, NEW p \in Places, pc' = [pc EXCEPT ![t] = p],
         sem' = sem, t \in Calls => (pc[t] \in Flying <=> p \in Flying)
  PROVE  TicketInv'
<1>1. pc' \in [Threads -> Places]
  BY DEF TicketInv
<1>2. \A c \in Calls : pc'[c] \in Flying <=> pc[c] \in Flying
  BY DEF TicketInv, Threads
<1>3. InFlight' = InFlight
  BY <1>2 DEF InFlight, Flying
<1>4. QED
  BY <1>1, <1>3 DEF TicketInv

\* A call takes one ticket, ...
LEMMA AcquireKeeps ==
  ASSUME TicketInv, NEW c \in Calls, Acquire(c)
  PROVE  TicketInv'
<1>1. /\ sem > 0 /\ sem' = sem - 1 /\ pc[c] = "wait" /\ pc' = [pc EXCEPT ![c] = "ready"]
  BY DEF Acquire, Go
<1>2. pc' \in [Threads -> Places]
  BY <1>1 DEF TicketInv, Places
<1>3. IsFiniteSet(InFlight) /\ c \notin InFlight
  BY <1>1, RpcAssumption, FS_Subset DEF InFlight
<1>4. InFlight' = InFlight \cup {c}
  BY <1>1 DEF InFlight, TicketInv, Threads
<1>5. Cardinality(InFlight \cup {c}) = Cardinality(InFlight) + 1
  BY <1>3, FS_AddElement
<1>6. Cardinality(InFlight) \in Nat
  BY <1>3, FS_CardinalityType
<1>7. sem' \in Nat /\ sem' + Cardinality(InFlight)' = Concurrency
  BY <1>1, <1>4, <1>5, <1>6 DEF TicketInv
<1>8. QED
  BY <1>2, <1>7 DEF TicketInv

\* ... and returns it.
LEMMA ReleaseKeeps ==
  ASSUME TicketInv, NEW c \in Calls, Release(c)
  PROVE  TicketInv'
<1>1. /\ sem' = sem + 1 /\ pc[c] = "release" /\ pc' = [pc EXCEPT ![c] = "done"]
  BY DEF Release, Go, ticket
<1>2. pc' \in [Threads -> Places]
  BY <1>1 DEF TicketInv, Places
<1>3. IsFiniteSet(InFlight) /\ c \in InFlight
  BY <1>1, RpcAssumption, FS_Subset DEF InFlight
<1>4. InFlight' = InFlight \ {c}
  BY <1>1 DEF InFlight, TicketInv, Threads
<1>5. Cardinality(InFlight \ {c}) = Cardinality(InFlight) - 1
  BY <1>3, FS_RemoveElement
<1>6. Cardinality(InFlight) \in Nat
  BY <1>3, FS_CardinalityType
<1>7. sem' \in Nat /\ sem' + Cardinality(InFlight)' = Concurrency
  BY <1>1, <1>4, <1>5, <1>6 DEF TicketInv
<1>8. QED
  BY <1>2, <1>7 DEF TicketInv

\* Whatever Ready finds, a call stays in flight.
LEMMA ReadyKeeps ==
  ASSUME TicketInv, NEW t \in Threads, ReadyStep(t)
  PROVE  TicketInv'
<1>1. Over(t) \in Places /\ (t \in Calls => Over(t) \in Flying)
  BY RpcAssumption DEF Over, Places, Flying
<1>2. PICK p \in Places : /\ pc' = [pc EXCEPT ![t] = p]
                          /\ t \in Calls => (pc[t] \in Flying <=> p \in Flying)
  <2>1. CASE GetState(t)
    <3>1. PICK p \in {Over(t), "recover", "reset"} : pc' = [pc EXCEPT ![t] = p]
      BY <2>1 DEF GetState
    <3>2. QED
      BY <1>1, <2>1, <3>1 DEF GetState, Places, Flying
  <2>2. CASE tryRecover(t)
    <3>1. PICK p \in {Over(t), "invoke"} : pc' = [pc EXCEPT ![t] = p]
      BY <2>2 DEF tryRecover
    <3>2. QED
      BY <1>1, <2>2, <3>1 DEF tryRecover, Places, Flying
  <2>3. CASE reset(t)
    BY <2>3 DEF reset, Go, Places, Flying
  <2>4. QED
    BY <2>1, <2>2, <2>3 DEF ReadyStep
<1>3. sem' = sem
  BY DEF ReadyStep, GetState, tryRecover, reset
<1>4. QED
  BY <1>2, <1>3, SideKept

\* The invariant holds throughout.
LEMMA TicketInvariant == RpcSpec => []TicketInv
<1>1. RpcInit => TicketInv
  <2>1. SUFFICES ASSUME RpcInit PROVE TicketInv
    OBVIOUS
  <2>2. InFlight = {}
    BY <2>1 DEF RpcInit, InFlight, Threads
  <2>3. pc \in [Threads -> Places] /\ sem = Concurrency
    BY <2>1 DEF RpcInit, Places
  <2>4. QED
    BY <2>2, <2>3, FS_EmptySet, RpcAssumption DEF TicketInv
<1>2. TicketInv /\ [RpcNext]_rpcVars => TicketInv'
  <2>1. SUFFICES ASSUME TicketInv, [RpcNext]_rpcVars PROVE TicketInv'
    OBVIOUS
  <2>2. ASSUME NEW c \in Calls, \/ Begin(c) \/ Answered(c) \/ GiveUp(c)
                                \/ \E e \in BOOLEAN : Retry(c, e)
        PROVE  TicketInv'
    <3>1. c \in Threads
      BY DEF Threads
    <3>2. PICK p \in Places : /\ pc' = [pc EXCEPT ![c] = p] /\ sem' = sem
                              /\ pc[c] \in Flying <=> p \in Flying
      BY <2>2 DEF Begin, Answered, GiveUp, Retry, Go, Places, Flying
    <3>3. QED
      BY <2>1, <3>1, <3>2, SideKept
  <2>3. ASSUME ShutdownController \/ CountBusy \/ Close PROVE TicketInv'
    <3>1. Stop \in Threads /\ Stop \notin Calls
      BY RpcAssumption DEF Threads
    <3>2. PICK p \in Places : pc' = [pc EXCEPT ![Stop] = p] /\ sem' = sem
      BY <2>3 DEF ShutdownController, CountBusy, Close, Go, Places
    <3>3. QED
      BY <2>1, <3>1, <3>2, SideKept
  <2>4. ASSUME UNCHANGED <<sem, pc>> PROVE TicketInv'
    BY <2>1, <2>4 DEF TicketInv, InFlight
  <2>5. ASSUME NEW t \in Threads, ReadyStep(t) PROVE TicketInv'
    BY <2>1, <2>5, ReadyKeeps
  <2>6. CASE RpcNext
    <3>1. CASE \E c \in Calls : Begin(c) \/ Acquire(c) \/ CallStep(c)
      BY <2>1, <2>2, <2>5, <3>1, AcquireKeeps, ReleaseKeeps DEF CallStep, Threads
    <3>2. CASE ShutdownController \/ StopStep
      BY <2>3, <2>5, <3>2 DEF StopStep, Threads
    <3>3. CASE ConnectionFails \/ ConnectionRestored
      BY <2>4, <3>3 DEF ConnectionFails, ConnectionRestored
    <3>4. QED
      BY <2>6, <3>1, <3>2, <3>3 DEF RpcNext
  <2>7. QED
    BY <2>1, <2>4, <2>6 DEF rpcVars
<1>3. QED
  BY <1>1, <1>2, PTL DEF RpcSpec

\* busy() is the number of calls in flight: every path through a call, with or
\* without retries, returns the one ticket it took.
THEOREM BusyCountsCalls == RpcSpec => []BusyIsInFlight
<1>1. TicketInv => BusyIsInFlight
  <2>1. IsFiniteSet(InFlight)
    BY RpcAssumption, FS_Subset DEF InFlight
  <2>2. QED
    BY <2>1, FS_CardinalityType, RpcAssumption DEF TicketInv, BusyIsInFlight, busy
<1>2. QED
  BY <1>1, TicketInvariant, PTL

-----------------------------------------------------------------------------
RestOK ==
  /\ power \in [Threads -> Nat] /\ wasExhausted \in [Threads -> BOOLEAN]
  /\ conn \in {"ok", "failure", "shutdown"} /\ failures \in Nat

FlagOK == recovering \in BOOLEAN

\* A step other than a retry leaves the variables of retry alone.
LEMMA RestKeeps ==
  ASSUME RestOK, [RpcNext]_rpcVars
  PROVE  RestOK'
<1> USE DEF RestOK
<1>1. ASSUME UNCHANGED <<retryVars, conn, failures>> PROVE RestOK'
  BY <1>1 DEF retryVars
<1>2. ASSUME NEW t \in Threads, ReadyStep(t) PROVE RestOK'
  BY <1>1, <1>2 DEF ReadyStep, GetState, tryRecover, reset, connVars
<1>3. ASSUME NEW c \in Calls, NEW e \in BOOLEAN, Retry(c, e) PROVE RestOK'
  <2>1. powerFor(c, e) \in Nat
    BY DEF powerFor, Threads
  <2>2. power' \in [Threads -> Nat]
    <3>1. power' = [power EXCEPT ![c] = 2 * powerFor(c, e)]
      BY <1>3 DEF Retry
    <3>2. 2 * powerFor(c, e) \in Nat
      BY <2>1
    <3>3. QED
      BY <3>1, <3>2, Zenon
  <2>3. wasExhausted' \in [Threads -> BOOLEAN]
    <3>1. wasExhausted' = [wasExhausted EXCEPT ![c] = e]
      BY <1>3 DEF Retry
    <3>2. QED
      BY <3>1, Zenon
  <2>4. QED
    <3>1. UNCHANGED <<conn, failures>>
      BY <1>3 DEF Retry, connVars
    <3>2. QED
      BY <2>2, <2>3, <3>1
<1>4. ASSUME NEW c \in Calls, Begin(c) \/ Acquire(c) \/ Answered(c) \/ GiveUp(c) \/ Release(c)
      PROVE  RestOK'
  BY <1>1, <1>4 DEF Begin, Acquire, Answered, GiveUp, Release, connVars
<1>5. CASE ShutdownController \/ CountBusy
  BY <1>1, <1>5 DEF ShutdownController, CountBusy, connVars
<1>6. CASE Close \/ ConnectionFails \/ ConnectionRestored
  BY <1>6 DEF Close, ConnectionFails, ConnectionRestored, retryVars
<1>7. CASE UNCHANGED rpcVars
  BY <1>1, <1>7 DEF rpcVars, connVars
<1>8. QED
  BY <1>2, <1>3, <1>4, <1>5, <1>6, <1>7 DEF RpcNext, CallStep, StopStep, Threads

\* The recovery flag stays a truth value.
LEMMA FlagKeeps ==
  ASSUME FlagOK, [RpcNext]_rpcVars
  PROVE  FlagOK'
<1>1. recovering' \in {recovering, TRUE, FALSE}
  BY DEF RpcNext, CallStep, StopStep, ReadyStep, Begin, Acquire, Release, GetState, tryRecover, reset,
         Answered, Retry, GiveUp, ShutdownController, CountBusy, Close, ConnectionFails,
         ConnectionRestored, connVars, rpcVars
<1>2. QED
  BY <1>1, Zenon DEF FlagOK

\* The semaphore, the goroutines and the connection have values of their types:
\* no more tickets come back than were taken.
THEOREM RpcTypeCorrect == RpcSpec => []RpcTypeOK
<1>1. RpcInit => RestOK /\ FlagOK
  <2>1. RpcInit => wasExhausted \in [Threads -> BOOLEAN] /\ FlagOK
    BY Zenon DEF RpcInit, FlagOK
  <2>2. RpcInit => power \in [Threads -> Nat] /\ conn \in {"ok", "failure", "shutdown"} /\ failures \in Nat
    BY DEF RpcInit
  <2>3. QED
    BY <2>1, <2>2 DEF RestOK
<1>2. RestOK /\ FlagOK /\ [RpcNext]_rpcVars => RestOK' /\ FlagOK'
  BY RestKeeps, FlagKeeps
<1>3. TicketInv /\ RestOK /\ FlagOK => RpcTypeOK
  <2>1. IsFiniteSet(InFlight)
    BY RpcAssumption, FS_Subset DEF InFlight
  <2>2. TicketInv => sem \in 0..Concurrency
    BY <2>1, FS_CardinalityType, RpcAssumption DEF TicketInv
  <2>3. QED
    BY <2>2 DEF TicketInv, Places, RestOK, FlagOK, RpcTypeOK
<1>4. QED
  BY <1>1, <1>2, <1>3, TicketInvariant, PTL DEF RpcSpec

-----------------------------------------------------------------------------
(* How long a call sleeps. The delays of errors of one kind double, so the *)
(* next one exceeds what has been slept by at most one interval; an error  *)
(* of the other kind starts again with one interval.                       *)

\* The next delay of c, if its next error is of the same kind as the last.
Delay(c) == power[c] * interval(wasExhausted[c])

DelayInv ==
  /\ retryAge \in [Threads -> Nat] /\ power \in [Threads -> Nat]
  /\ wasExhausted \in [Threads -> BOOLEAN]
  /\ \A c \in Calls : /\ Delay(c) <= retryAge[c] + interval(wasExhausted[c])
                      /\ retryAge[c] <= 2 * InvokeTimeout + UnavailableInterval

\* Both intervals are positive, and the longer one is that of Unavailable.
LEMMA Intervals ==
  ASSUME NEW e \in BOOLEAN
  PROVE  interval(e) \in Nat /\ interval(e) <= UnavailableInterval
BY RpcAssumption DEF interval

\* The arithmetic of one sleep: d is the delay in units of the interval i, and
\* r what has been slept before.
LEMMA OneMoreSleep ==
  ASSUME NEW d \in Nat, NEW i \in Nat, NEW r \in Nat, d * i <= r + i
  PROVE  /\ d * i \in Nat /\ (2 * d) * i <= (r + d * i) + i
         /\ r + d * i <= 2 * r + i
<1>1. (2 * d) * i = d * i + d * i /\ d * i \in Nat
  OBVIOUS
<1>2. QED
  BY <1>1

\* A retry sleeps for at most one interval more than was slept before it.
LEMMA RetryKeepsDelay ==
  ASSUME DelayInv, NEW c \in Calls, NEW e \in BOOLEAN, Retry(c, e)
  PROVE  DelayInv'
<1> DEFINE a == powerFor(c, e)
<1>0. c \in Threads
  BY DEF Threads
<1>1. /\ retryAge[c] <= InvokeTimeout
      /\ retryAge' = [retryAge EXCEPT ![c] = @ + a * interval(e)]
      /\ power' = [power EXCEPT ![c] = 2 * a]
      /\ wasExhausted' = [wasExhausted EXCEPT ![c] = e]
  BY <1>0, RpcAssumption DEF Retry, tooOld, DelayInv
<1>2. /\ retryAge \in [Threads -> Nat] /\ power \in [Threads -> Nat]
      /\ wasExhausted \in [Threads -> BOOLEAN]
      /\ retryAge[c] \in Nat /\ power[c] \in Nat /\ wasExhausted[c] \in BOOLEAN
  BY <1>0 DEF DelayInv
<1>3. interval(e) \in Nat /\ interval(e) <= UnavailableInterval
  BY Intervals
<1>4. a \in Nat /\ a * interval(e) <= retryAge[c] + interval(e)
  <2>1. CASE e = wasExhausted[c]
    <3>1. a = power[c]
      BY <2>1 DEF powerFor
    <3>2. QED
      BY <1>2, <2>1, <3>1, Zenon DEF DelayInv, Delay
  <2>2. CASE e # wasExhausted[c]
    <3>1. a = 1
      BY <2>2 DEF powerFor
    <3>2. QED
      BY <1>2, <1>3, <3>1
  <2>3. QED
    BY <2>1, <2>2
<1>5. /\ a * interval(e) \in Nat
      /\ (2 * a) * interval(e) <= (retryAge[c] + a * interval(e)) + interval(e)
      /\ retryAge[c] + a * interval(e) <= 2 * retryAge[c] + interval(e)
  BY <1>2, <1>3, <1>4, OneMoreSleep
<1>6. 2 * a \in Nat
  BY <1>4
<1>7. /\ retryAge'[c] = retryAge[c] + a * interval(e) /\ power'[c] = 2 * a
      /\ retryAge[c] + a * interval(e) \in Nat
  BY <1>0, <1>1, <1>2, <1>5
<1>8. wasExhausted'[c] = e /\ wasExhausted' \in [Threads -> BOOLEAN]
  BY <1>0, <1>1, <1>2, Zenon
<1>9. retryAge' \in [Threads -> Nat] /\ power' \in [Threads -> Nat]
  BY <1>1, <1>2, <1>6, <1>7
<1>10. retryAge'[c] <= 2 * InvokeTimeout + UnavailableInterval
  BY <1>1, <1>2, <1>3, <1>5, <1>7, RpcAssumption
<1>11. Delay(c)' <= retryAge'[c] + interval(wasExhausted'[c])
  <2>1. Delay(c)' = (2 * a) * interval(e)
    BY <1>6, <1>7, <1>8, Zenon DEF Delay, interval
  <2>2. interval(wasExhausted'[c]) = interval(e)
    BY <1>8, Zenon
  <2>3. QED
    BY <1>5, <1>7, <2>1, <2>2
<1>12. ASSUME NEW d \in Calls, d # c
       PROVE  /\ Delay(d)' <= retryAge'[d] + interval(wasExhausted'[d])
              /\ retryAge'[d] <= 2 * InvokeTimeout + UnavailableInterval
  <2>1. d \in Threads
    BY DEF Threads
  <2>2. retryAge'[d] = retryAge[d] /\ power'[d] = power[d]
    BY <1>1, <1>2, <1>12, <2>1
  <2>3. wasExhausted'[d] = wasExhausted[d]
    BY <1>1, <1>2, <1>12, <2>1, Zenon
  <2>4. interval(wasExhausted'[d]) = interval(wasExhausted[d]) /\ Delay(d)' = Delay(d)
    BY <2>2, <2>3, Zenon DEF Delay, interval
  <2>5. QED
    BY <2>2, <2>4, Zenon DEF DelayInv
<1>13. QED
  BY <1>8, <1>9, <1>10, <1>11, <1>12, Zenon DEF DelayInv

\* A call sleeps for less than twice the invoke timeout and one interval,
\* whatever errors it gets and in what order.
THEOREM RetriesBounded == RpcSpec => []RetryBounded
<1>1. RpcInit => DelayInv
  <2> SUFFICES ASSUME RpcInit PROVE DelayInv
    OBVIOUS
  <2>1. wasExhausted \in [Threads -> BOOLEAN] /\ \A t \in Threads : wasExhausted[t] \in BOOLEAN
    BY Zenon DEF RpcInit
  <2>2. /\ retryAge \in [Threads -> Nat] /\ power \in [Threads -> Nat]
        /\ \A t \in Threads : retryAge[t] = 0 /\ power[t] = 1
    BY DEF RpcInit
  <2>3. ASSUME NEW c \in Calls
        PROVE  /\ power[c] = 1 /\ retryAge[c] = 0 /\ interval(wasExhausted[c]) \in Nat
    BY <2>1, <2>2, Intervals, Zenon DEF Threads
  <2>4. ASSUME NEW c \in Calls
        PROVE  /\ Delay(c) <= retryAge[c] + interval(wasExhausted[c])
               /\ retryAge[c] <= 2 * InvokeTimeout + UnavailableInterval
    BY <2>3, RpcAssumption DEF Delay
  <2>5. QED
    BY <2>1, <2>2, <2>4, Zenon DEF DelayInv
<1>2. DelayInv /\ [RpcNext]_rpcVars => DelayInv'
  <2> SUFFICES ASSUME DelayInv, [RpcNext]_rpcVars PROVE DelayInv'
    OBVIOUS
  <2>1. ASSUME UNCHANGED retryVars PROVE DelayInv'
    BY <2>1, Zenon DEF retryVars, DelayInv, Delay, interval
  <2>2. UNCHANGED retryVars \/ \E c \in Calls, e \in BOOLEAN : Retry(c, e)
    BY DEF RpcNext, CallStep, StopStep, ReadyStep, Begin, Acquire, Release, GetState, tryRecover,
           reset, Answered, GiveUp, ShutdownController, CountBusy, Close, ConnectionFails,
           ConnectionRestored, rpcVars
  <2>3. QED
    BY <2>1, <2>2, RetryKeepsDelay
<1>3. DelayInv => RetryBounded
  BY DEF DelayInv, RetryBounded
<1>4. QED
  BY <1>1, <1>2, <1>3, PTL DEF RpcSpec

-----------------------------------------------------------------------------
(* The disconnect queue. *)

Draining == {"len", "select", "call"}

\* The lock discipline: an Enqueue that blocks holds d.mu, and none does once
\* the queue is stopped. Only one caller drains, and it is never behind: its
\* counter covers what is left in the channel.
DrainInv ==
  /\ \A s \in Sessions : enq[s] = "send" => mu = s
  /\ isStopped => mu = None
  /\ ~isStopped => token = 0 /\ \A c \in Callers : sh[c] \in {"idle", "lock"}
  /\ \A c, d \in Callers : sh[c] \in Draining /\ sh[d] \in Draining => c = d
  /\ \A c \in Callers : sh[c] = "select" => left > 0 /\ Len(queue) <= left
  /\ \A c \in Callers : sh[c] = "call" => Len(queue) < left

IInv == TypeOK /\ DrainInv /\ NilMeansDrained

\* What a receive from a channel, modelled as a sequence, leaves.
LEMMA HeadTail ==
  ASSUME NEW S, NEW q \in Seq(S), q # <<>>
  PROVE  Head(q) \in S /\ Tail(q) \in Seq(S) /\ Len(Tail(q)) = Len(q) - 1 /\ Len(q) > 0
OBVIOUS

\* Every step of Enqueue preserves the inductive invariant: it sends only with
\* d.mu held, and so before the queue is stopped.
LEMMA EnqueueKeeps ==
  ASSUME IInv, NEW s \in Sessions, EnqueueStep(s)
  PROVE  IInv'
<1> USE QueueAssumption DEF IInv, lockVars, runVars, drainVars
<1>1. CASE Enqueue(s)
  BY <1>1 DEF Enqueue, TypeOK, DrainInv, NilMeansDrained
<1>2. CASE EnqueueLock(s)
  BY <1>2 DEF EnqueueLock, AlreadyStopped, TypeOK, DrainInv, NilMeansDrained
<1>3. CASE EnqueueSend(s)
  <2>1. mu = s /\ ~isStopped
    BY <1>3 DEF EnqueueSend, DrainInv
  <2>2. TypeOK'
    BY <1>3 DEF EnqueueSend, TypeOK
  <2>3. DrainInv' /\ NilMeansDrained'
    BY <1>3, <2>1 DEF EnqueueSend, TypeOK, DrainInv, NilMeansDrained
  <2>4. QED
    BY <2>2, <2>3
<1>4. QED
  BY <1>1, <1>2, <1>3 DEF EnqueueStep

\* Every step of Run preserves the inductive invariant: it only takes sessions
\* from the channel.
LEMMA RunKeeps ==
  ASSUME IInv, RunStep
  PROVE  IInv'
<1> USE DEF IInv, lockVars, runVars, drainVars
<1>1. CASE RunReceive
  <2>1. TypeOK' /\ Len(queue') <= Len(queue) /\ queue # <<>>
    BY <1>1, HeadTail DEF RunReceive, TypeOK
  <2>2. DrainInv'
    BY <1>1, <2>1 DEF RunReceive, TypeOK, DrainInv
  <2>3. NilMeansDrained'
    BY <1>1, <2>1 DEF RunReceive, NilMeansDrained
  <2>4. QED
    BY <2>1, <2>2, <2>3
<1>2. CASE RunThrottle
  <2>1. called' \in [Sessions -> Nat]
    <3>1. called' = [called EXCEPT ![runS] = called[runS] + 1] /\ called \in [Sessions -> Nat]
      BY <1>2 DEF RunThrottle, TypeOK
    <3>2. runS \in Sessions => called[runS] + 1 \in Nat
      BY <3>1
    <3>3. QED
      BY <3>1, <3>2
  <2>2. QED
    BY <1>2, <2>1 DEF RunThrottle, TypeOK, DrainInv, NilMeansDrained
<1>3. CASE RunReturn
  BY <1>3 DEF RunReturn, TypeOK, DrainInv, NilMeansDrained
<1>4. CASE RunStop
  BY <1>4 DEF RunStop, TypeOK, DrainInv, NilMeansDrained
<1>5. QED
  BY <1>1, <1>2, <1>3, <1>4 DEF RunStep

\* Every step of Shutdown preserves the inductive invariant: left never falls
\* below what is in the channel.
LEMMA ShutdownKeeps ==
  ASSUME IInv, NEW c \in Callers, Shutdown(c) \/ ShutdownLock(c) \/ DrainStep(c)
  PROVE  IInv'
<1> USE QueueAssumption DEF IInv, lockVars, runVars, Draining
<1>1. CASE Shutdown(c)
  BY <1>1 DEF Shutdown, TypeOK, DrainInv, NilMeansDrained
<1>2. CASE ShutdownLock(c)
  <2>1. TypeOK'
    <3>0. isStopped' \in BOOLEAN
      BY <1>2 DEF ShutdownLock, TypeOK
    <3>1. token' \in 0..1
      <4>1. CASE isStopped
        BY <1>2, <4>1 DEF ShutdownLock, AlreadyStopped, TypeOK
      <4>2. CASE ~isStopped
        BY <1>2, <4>2 DEF ShutdownLock, AlreadyStopped, DrainInv
      <4>3. QED
        BY <4>1, <4>2
    <3>2. sh' \in [Callers -> {"idle", "lock", "len", "select", "call", "nil", "failed", "timedout"}]
      BY <1>2 DEF ShutdownLock, TypeOK
    <3>3. QED
      BY <1>2, <3>0, <3>1, <3>2 DEF ShutdownLock, TypeOK
  <2>2. DrainInv'
    BY <1>2 DEF ShutdownLock, AlreadyStopped, MuFree, TypeOK, DrainInv
  <2>3. NilMeansDrained'
    BY <1>2 DEF ShutdownLock, AlreadyStopped, TypeOK, NilMeansDrained
  <2>4. QED
    BY <2>1, <2>2, <2>3
<1>3. CASE ShutdownLen(c)
  <2>1. TypeOK' /\ (queue # <<>> => Len(queue) > 0)
    BY <1>3 DEF ShutdownLen, TypeOK
  <2>2. DrainInv'
    BY <1>3, <2>1 DEF ShutdownLen, TypeOK, DrainInv
  <2>3. NilMeansDrained'
    BY <1>3 DEF ShutdownLen, TypeOK, NilMeansDrained
  <2>4. QED
    BY <2>1, <2>2, <2>3
<1>4. CASE ShutdownReceive(c)
  <2>1. TypeOK' /\ Len(queue') = Len(queue) - 1 /\ Len(queue) > 0
    BY <1>4, HeadTail, SMTT(60) DEF ShutdownReceive, TypeOK
  <2>2. DrainInv'
    BY <1>4, <2>1 DEF ShutdownReceive, TypeOK, DrainInv
  <2>3. NilMeansDrained'
    BY <1>4 DEF ShutdownReceive, TypeOK, NilMeansDrained
  <2>4. QED
    BY <2>1, <2>2, <2>3
<1>5. CASE ShutdownReturn(c)
  <2>1. left > Len(queue) /\ Len(queue) \in Nat /\ (Len(queue) = 0 => queue = <<>>)
    BY <1>5 DEF ShutdownReturn, TypeOK, DrainInv
  <2>2. TypeOK'
    BY <1>5, <2>1 DEF ShutdownReturn, TypeOK
  <2>3. DrainInv'
    BY <1>5, <2>1 DEF ShutdownReturn, TypeOK, DrainInv
  <2>4. NilMeansDrained'
    BY <1>5, <2>1 DEF ShutdownReturn, TypeOK, DrainInv, NilMeansDrained
  <2>5. QED
    BY <2>2, <2>3, <2>4
<1>6. CASE ShutdownTimeout(c)
  BY <1>6 DEF ShutdownTimeout, TypeOK, DrainInv, NilMeansDrained
<1>7. CASE Tick(c)
  <2>1. timer' \in Nat /\ waited' \in Nat
    BY <1>7 DEF Tick, TypeOK
  <2>2. TypeOK'
    BY <1>7, <2>1 DEF Tick, TypeOK
  <2>3. DrainInv' /\ NilMeansDrained'
    BY <1>7 DEF Tick, TypeOK, DrainInv, NilMeansDrained
  <2>4. QED
    BY <2>2, <2>3
<1>8. QED
  BY <1>1, <1>2, <1>3, <1>4, <1>5, <1>6, <1>7 DEF DrainStep

\* IInv holds in every state of the disconnect queue, for any number of
\* Enqueue and Shutdown calls.
LEMMA Invariance == Spec => []IInv
<1>1. Init => IInv
  <2>1. Init => TypeOK
    <3> SUFFICES ASSUME Init PROVE TypeOK
      OBVIOUS
    <3>1. isStopped \in BOOLEAN
      BY Zenon DEF Init
    <3>2. /\ queue \in Seq(Sessions) /\ accepted \subseteq Sessions
          /\ token \in 0..1 /\ left \in Nat /\ timer \in Nat /\ backlog \in Nat /\ waited \in Nat
          /\ called \in [Sessions -> Nat]
      BY DEF Init
    <3>3. QED
      BY <3>1, <3>2 DEF Init, TypeOK
  <2>2. Init => DrainInv /\ NilMeansDrained
    <3> SUFFICES ASSUME Init PROVE DrainInv /\ NilMeansDrained
      OBVIOUS
    <3>1. \A c \in Callers : sh[c] = "idle"
      BY DEF Init
    <3>2. \A s \in Sessions : enq[s] = "idle"
      BY DEF Init
    <3>3. ~isStopped /\ token = 0
      BY DEF Init
    <3>4. QED
      BY <3>1, <3>2, <3>3 DEF DrainInv, NilMeansDrained, Draining
  <2>3. QED
    BY <2>1, <2>2 DEF IInv
<1>2. IInv /\ UNCHANGED vars => IInv'
  BY DEF IInv, TypeOK, DrainInv, NilMeansDrained, vars, lockVars, runVars, drainVars
<1>3. IInv /\ [Next]_vars => IInv'
  BY <1>2, EnqueueKeeps, RunKeeps, ShutdownKeeps DEF Next
<1>4. QED
  BY <1>1, <1>3, PTL DEF Spec

\* The queue's state always has its type: in particular no second token is ever
\* sent on d.shutdown.
THEOREM TypeCorrect == Spec => []TypeOK
<1>1. IInv => TypeOK
  BY DEF IInv
<1>2. QED
  BY <1>1, Invariance, PTL

\* A Shutdown that returns nil has left nothing in the channel, however Enqueue
\* and Run were interleaved with it.
THEOREM NilIsDrained == Spec => []NilMeansDrained
<1>1. IInv => NilMeansDrained
  BY DEF IInv
<1>2. QED
  BY <1>1, Invariance, PTL

-----------------------------------------------------------------------------
(* Every accepted session is somewhere, and in one place only.             *)

\* Whether s waits in the channel, and whether Run has taken it.
Queued(s) == \E i \in DOMAIN queue : queue[i] = s
Taken(s) == runPc = "throttle" /\ runS = s

\* A session is sent by its Enqueue only, which then is done; from there it is
\* in one place of the channel, or with Run, or has been called.
Ledger(s) ==
  /\ s \in accepted => enq[s] = "done"
  /\ Queued(s) => s \in accepted /\ called[s] = 0 /\ ~Taken(s)
  /\ Taken(s) => s \in accepted /\ called[s] = 0
  /\ ~Queued(s) /\ ~Taken(s) => called[s] = IF s \in accepted THEN 1 ELSE 0

LedgerInv ==
  /\ \A i, j \in DOMAIN queue : queue[i] = queue[j] => i = j
  /\ runPc = "throttle" => runS \in Sessions
  /\ \A s \in Sessions : Ledger(s)

\* A step that leaves the channel, Run's session and the calls alone.
LEMMA LedgerFrame ==
  ASSUME LedgerInv, UNCHANGED <<queue, called, accepted>>,
         runPc' = "throttle" <=> runPc = "throttle", runPc = "throttle" => runS' = runS,
         \A s \in Sessions : enq[s] = "done" => enq'[s] = "done"
  PROVE  LedgerInv'
<1>1. ASSUME NEW s \in Sessions PROVE Ledger(s)'
  <2>1. (Queued(s)' <=> Queued(s)) /\ (Taken(s)' <=> Taken(s))
    BY DEF Queued, Taken
  <2>2. QED
    BY <2>1 DEF LedgerInv, Ledger
<1>2. QED
  BY <1>1 DEF LedgerInv

\* A send appends a session that is nowhere yet.
LEMMA LedgerSend ==
  ASSUME IInv, LedgerInv, NEW s \in Sessions, EnqueueSend(s)
  PROVE  LedgerInv'
<1>1. /\ enq[s] = "send" /\ queue' = Append(queue, s) /\ accepted' = accepted \cup {s}
      /\ enq' = [enq EXCEPT ![s] = "done"] /\ UNCHANGED <<runPc, runS, called>>
  BY DEF EnqueueSend, runVars
<1>2. queue \in Seq(Sessions) /\ enq \in [Sessions -> {"idle", "lock", "send", "done"}]
  BY DEF IInv, TypeOK
<1>3. /\ DOMAIN queue = 1..Len(queue) /\ DOMAIN queue' = 1..(Len(queue) + 1) /\ Len(queue) \in Nat
      /\ \A i \in 1..Len(queue) : queue'[i] = queue[i]
      /\ queue'[Len(queue) + 1] = s
  BY <1>1, <1>2
<1>4. s \notin accepted /\ ~Queued(s) /\ ~Taken(s) /\ called[s] = 0
  BY <1>1 DEF LedgerInv, Ledger
<1>5. \A i, j \in DOMAIN queue' : queue'[i] = queue'[j] => i = j
  BY <1>3, <1>4 DEF LedgerInv, Queued
<1>6. ASSUME NEW t \in Sessions PROVE Ledger(t)'
  <2>1. Taken(t)' <=> Taken(t)
    BY <1>1 DEF Taken
  <2>2. Queued(t)' <=> (Queued(t) \/ t = s)
    BY <1>3 DEF Queued
  <2>3. enq[t] = "done" => enq'[t] = "done"
    BY <1>1, <1>2
  <2>4. enq'[s] = "done"
    BY <1>1, <1>2
  <2>5. Ledger(t)
    BY DEF LedgerInv
  <2>6. QED
    BY <1>1, <1>4, <2>1, <2>2, <2>3, <2>4, <2>5 DEF Ledger
<1>7. QED
  BY <1>1, <1>5, <1>6 DEF LedgerInv

\* What is left in the channel after a receive, and where.
LEMMA ReceivePlaces ==
  ASSUME IInv, LedgerInv, queue # <<>>, queue' = Tail(queue)
  PROVE  /\ \A i, j \in DOMAIN queue' : queue'[i] = queue'[j] => i = j
         /\ Head(queue) \in Sessions /\ Queued(Head(queue))
         /\ \A s \in Sessions : Queued(s)' <=> (Queued(s) /\ s # Head(queue))
<1>1. queue \in Seq(Sessions)
  BY DEF IInv, TypeOK
<1>2. /\ DOMAIN queue = 1..Len(queue) /\ DOMAIN queue' = 1..(Len(queue) - 1)
      /\ Len(queue) \in Nat /\ Len(queue) > 0 /\ Head(queue) = queue[1]
      /\ \A i \in 1..(Len(queue) - 1) : queue'[i] = queue[i + 1]
  BY <1>1
<1>3. \A i, j \in DOMAIN queue : queue[i] = queue[j] => i = j
  BY DEF LedgerInv
<1>4. \A i, j \in DOMAIN queue' : queue'[i] = queue'[j] => i = j
  BY <1>2, <1>3
<1>5. Head(queue) \in Sessions
  BY <1>1
<1>6. Queued(Head(queue))
  BY <1>2 DEF Queued
<1>7. ASSUME NEW s \in Sessions PROVE Queued(s)' <=> (Queued(s) /\ s # Head(queue))
  <2>1. ASSUME Queued(s)' PROVE Queued(s) /\ s # Head(queue)
    <3>1. PICK i \in 1..(Len(queue) - 1) : queue'[i] = s
      BY <1>2, <2>1 DEF Queued
    <3>2. i + 1 \in DOMAIN queue /\ 1 \in DOMAIN queue /\ i + 1 # 1 /\ queue[i + 1] = s
      BY <1>2, <3>1
    <3>3. QED
      BY <1>2, <1>3, <3>2 DEF Queued
  <2>2. ASSUME Queued(s), s # Head(queue) PROVE Queued(s)'
    <3>1. PICK i \in 1..Len(queue) : queue[i] = s
      BY <1>2, <2>2 DEF Queued
    <3>2. i - 1 \in 1..(Len(queue) - 1) /\ queue'[i - 1] = s
      BY <1>2, <2>2, <3>1
    <3>3. QED
      BY <1>2, <3>2 DEF Queued
  <2>3. QED
    BY <2>1, <2>2
<1>8. QED
  BY <1>4, <1>5, <1>6, <1>7

\* A receive moves the session from the channel to Run, or to its call by
\* Shutdown; Run's throttle moves it from there to its call.
LEMMA LedgerMoves ==
  ASSUME IInv, LedgerInv,
         \/ RunReceive \/ RunThrottle \/ \E c \in Callers : ShutdownReceive(c)
  PROVE  LedgerInv'
<1> DEFINE h == Head(queue)
<1>0. called \in [Sessions -> Nat]
  BY DEF IInv, TypeOK
<1>1. CASE RunReceive
  <2>1. /\ queue # <<>> /\ queue' = Tail(queue) /\ runPc # "throttle" /\ runPc' = "throttle"
        /\ runS' = h /\ UNCHANGED <<enq, called, accepted>>
    BY <1>1 DEF RunReceive
  <2>2. \A i, j \in DOMAIN queue' : queue'[i] = queue'[j] => i = j
    BY <2>1, ReceivePlaces
  <2>3. h \in Sessions /\ Queued(h)
    BY <2>1, ReceivePlaces
  <2>4. \A s \in Sessions : Queued(s)' <=> (Queued(s) /\ s # h)
    BY <2>1, ReceivePlaces
  <2>5. ASSUME NEW s \in Sessions PROVE Ledger(s)'
    <3>1. Ledger(s) /\ ~Taken(s) /\ (Taken(s)' <=> s = h)
      BY <2>1 DEF LedgerInv, Taken
    <3>2. QED
      BY <2>1, <2>3, <2>4, <3>1 DEF Ledger
  <2>6. QED
    BY <2>1, <2>2, <2>3, <2>5 DEF LedgerInv
<1>2. CASE RunThrottle
  <2>1. /\ runPc = "throttle" /\ runPc' = "call" /\ called' = [called EXCEPT ![runS] = @ + 1]
        /\ UNCHANGED <<queue, enq, accepted>> /\ runS \in Sessions
    BY <1>2 DEF RunThrottle, LedgerInv
  <2>2. ASSUME NEW s \in Sessions PROVE Ledger(s)'
    <3>1. Ledger(s) /\ (Taken(s) <=> s = runS) /\ ~Taken(s)' /\ (Queued(s)' <=> Queued(s))
      BY <2>1 DEF LedgerInv, Taken, Queued
    <3>2. called'[s] = IF s = runS THEN called[s] + 1 ELSE called[s]
      BY <1>0, <2>1
    <3>3. CASE s = runS
      <4>1. called[s] = 0 /\ s \in accepted /\ ~Queued(s)
        BY <3>1, <3>3 DEF Ledger
      <4>2. called'[s] = 1
        BY <3>2, <3>3, <4>1
      <4>3. s \in accepted' /\ ~Queued(s)' /\ ~Taken(s)' /\ enq'[s] = "done"
        BY <2>1, <3>1, <4>1 DEF Ledger
      <4>4. QED
        BY <4>2, <4>3 DEF Ledger
    <3>4. CASE s # runS
      BY <2>1, <3>1, <3>2, <3>4 DEF Ledger
    <3>5. QED
      BY <3>3, <3>4
  <2>3. QED
    BY <2>1, <2>2 DEF LedgerInv
<1>3. ASSUME NEW c \in Callers, ShutdownReceive(c) PROVE LedgerInv'
  <2>1. /\ queue # <<>> /\ queue' = Tail(queue) /\ called' = [called EXCEPT ![h] = @ + 1]
        /\ UNCHANGED <<enq, accepted, runPc, runS>>
    BY <1>3 DEF ShutdownReceive, runVars
  <2>2. \A i, j \in DOMAIN queue' : queue'[i] = queue'[j] => i = j
    BY <2>1, ReceivePlaces
  <2>3. h \in Sessions /\ Queued(h)
    BY <2>1, ReceivePlaces
  <2>4. \A s \in Sessions : Queued(s)' <=> (Queued(s) /\ s # h)
    BY <2>1, ReceivePlaces
  <2>5. ASSUME NEW s \in Sessions PROVE Ledger(s)'
    <3>1. Ledger(s) /\ (Taken(s)' <=> Taken(s))
      BY <2>1 DEF LedgerInv, Taken
    <3>2. called'[s] = IF s = h THEN called[s] + 1 ELSE called[s]
      BY <1>0, <2>1, <2>3
    <3>3. QED
      BY <2>1, <2>3, <2>4, <3>1, <3>2 DEF Ledger
  <2>6. QED
    BY <2>1, <2>2, <2>5 DEF LedgerInv
<1>4. QED
  BY <1>1, <1>2, <1>3

\* LedgerInv is inductive, given the inductive invariant above.
LEMMA LedgerStep ==
  ASSUME IInv, LedgerInv, [Next]_vars
  PROVE  LedgerInv'
<1>0. enq \in [Sessions -> {"idle", "lock", "send", "done"}]
  BY DEF IInv, TypeOK
<1>1. ASSUME NEW s \in Sessions, EnqueueStep(s) PROVE LedgerInv'
  <2>1. CASE Enqueue(s) \/ EnqueueLock(s)
    <3>1. \A t \in Sessions : enq[t] = "done" => enq'[t] = "done"
      BY <1>0, <2>1 DEF Enqueue, EnqueueLock
    <3>2. UNCHANGED <<queue, called, accepted, runPc, runS>>
      BY <2>1 DEF Enqueue, EnqueueLock, runVars
    <3>3. QED
      BY <3>1, <3>2, LedgerFrame
  <2>2. QED
    BY <1>1, <2>1, LedgerSend DEF EnqueueStep
<1>2. CASE RunStep
  <2>1. CASE RunReturn \/ RunStop
    <3>1. /\ UNCHANGED <<queue, called, accepted, enq>>
          /\ runPc # "throttle" /\ runPc' # "throttle"
      BY <2>1 DEF RunReturn, RunStop
    <3>2. QED
      BY <3>1, LedgerFrame
  <2>2. QED
    BY <1>2, <2>1, LedgerMoves DEF RunStep
<1>3. ASSUME NEW c \in Callers, Shutdown(c) \/ ShutdownLock(c) \/ DrainStep(c)
      PROVE  LedgerInv'
  <2>1. CASE ShutdownReceive(c)
    BY <2>1, LedgerMoves
  <2>2. CASE \/ Shutdown(c) \/ ShutdownLock(c) \/ ShutdownLen(c) \/ ShutdownReturn(c)
             \/ ShutdownTimeout(c) \/ Tick(c)
    <3>1. UNCHANGED <<queue, called, accepted, enq, runPc, runS>>
      BY <2>2 DEF Shutdown, ShutdownLock, ShutdownLen, ShutdownReturn, ShutdownTimeout, Tick,
                  runVars
    <3>2. QED
      BY <3>1, LedgerFrame
  <2>3. QED
    BY <1>3, <2>1, <2>2 DEF DrainStep
<1>4. CASE UNCHANGED vars
  <2>1. UNCHANGED <<queue, called, accepted, enq, runPc, runS>>
    BY <1>4 DEF vars, runVars
  <2>2. QED
    BY <2>1, LedgerFrame
<1>5. QED
  BY <1>1, <1>2, <1>3, <1>4 DEF Next

\* It holds throughout.
LEMMA LedgerInvariant == Spec => []LedgerInv
<1>1. Init => LedgerInv
  <2> SUFFICES ASSUME Init PROVE LedgerInv
    OBVIOUS
  <2>1. queue = <<>> /\ runPc = "select" /\ accepted = {} /\ \A s \in Sessions : called[s] = 0
    BY DEF Init
  <2>2. DOMAIN queue = {}
    BY <2>1
  <2>3. QED
    BY <2>1, <2>2 DEF LedgerInv, Ledger, Queued, Taken
<1>2. QED
  BY <1>1, LedgerStep, Invariance, PTL DEF Spec

\* No call is lost or made twice between Run and Shutdown, the two consumers of
\* the channel, however they and the callers of Enqueue are interleaved.
THEOREM CallsAccounted == Spec => []Accounted
<1>1. IInv /\ LedgerInv => Accounted
  <2> SUFFICES ASSUME IInv, LedgerInv, NEW s \in Sessions
               PROVE  Cardinality({i \in DOMAIN queue : queue[i] = s})
                        + (IF runPc = "throttle" /\ runS = s THEN 1 ELSE 0) + called[s]
                      = IF s \in accepted THEN 1 ELSE 0
    BY DEF Accounted
  <2> DEFINE P == {i \in DOMAIN queue : queue[i] = s}
  <2>1. Ledger(s)
    BY DEF LedgerInv
  <2>2. CASE Queued(s)
    <3>1. PICK i \in DOMAIN queue : queue[i] = s
      BY <2>2 DEF Queued
    <3>2. P = {i}
      BY <3>1 DEF LedgerInv
    <3>3. Cardinality(P) = 1
      BY <3>2, FS_Singleton
    <3>4. QED
      BY <2>1, <2>2, <3>3 DEF Ledger, Taken
  <2>3. CASE ~Queued(s)
    <3>1. P = {}
      BY <2>3 DEF Queued
    <3>2. Cardinality(P) = 0
      BY <3>1, FS_EmptySet
    <3>3. QED
      BY <2>1, <2>3, <3>2 DEF Ledger, Taken
  <2>4. QED
    BY <2>2, <2>3
<1>2. QED
  BY <1>1, LedgerInvariant, Invariance, PTL

-----------------------------------------------------------------------------
(* The time Shutdown takes.                                                *)

\* What the drain has waited is the calls that are over, and the time of the
\* call or of the select it is in. It waits in a select only on a channel that
\* is empty, and so stays empty, now that nobody can send.
Clock(c) ==
  /\ sh[c] = "len" => waited = 0
  /\ sh[c] \in {"select", "call"} =>
       left <= backlog /\ waited <= (backlog - left) * MaxCall + timer
  /\ sh[c] = "call" => timer <= MaxCall
  /\ sh[c] = "select" => timer <= Timeout /\ (queue # <<>> => timer = 0)

ClockInv ==
  /\ ~isStopped => waited = 0
  /\ \A c \in Callers : Clock(c)
  /\ ShutdownBounded

\* The calls that are over, when one more is, and when all are.
LEMMA OneMoreCall ==
  ASSUME NEW b \in Nat, NEW k \in Nat, NEW m \in Nat, k <= b
  PROVE  /\ (b - k) * m \in Nat /\ (b - k) * m <= b * m
         /\ k > 0 => (b - (k - 1)) * m = (b - k) * m + m
<1>1. PICK d \in Nat : d = b - k
  OBVIOUS
<1>2. b * m = d * m + k * m
  BY <1>1
<1>3. d * m \in Nat /\ k * m \in Nat
  OBVIOUS
<1>4. (d + 1) * m = d * m + m
  OBVIOUS
<1>5. b - (k - 1) = d + 1
  BY <1>1
<1>6. QED
  BY <1>1, <1>2, <1>3, <1>4, <1>5

\* The steps of Enqueue and Run keep the clock: once the queue is stopped they
\* take from the channel, or leave it alone.
LEMMA ClockOthers ==
  ASSUME IInv, ClockInv, RunStep \/ (\E s \in Sessions : EnqueueStep(s)) \/ UNCHANGED vars
  PROVE  ClockInv'
<1>1. UNCHANGED <<sh, left, timer, backlog, waited, isStopped>>
  BY DEF RunStep, RunReceive, RunThrottle, RunReturn, RunStop, EnqueueStep, Enqueue, EnqueueLock,
         EnqueueSend, vars, lockVars, drainVars
<1>2. isStopped /\ queue = <<>> => queue' = queue
  <2>1. ASSUME NEW s \in Sessions, EnqueueSend(s) PROVE ~isStopped
    BY <2>1, QueueAssumption DEF IInv, DrainInv, EnqueueSend
  <2>2. QED
    BY <2>1 DEF RunStep, RunReceive, RunThrottle, RunReturn, RunStop, EnqueueStep, Enqueue,
                EnqueueLock, vars
<1>3. \A c \in Callers : sh[c] = "select" => isStopped
  BY DEF IInv, DrainInv
<1>4. ASSUME NEW c \in Callers PROVE Clock(c)'
  BY <1>1, <1>2, <1>3 DEF ClockInv, Clock
<1>5. QED
  BY <1>1, <1>4 DEF ClockInv, ShutdownBounded

\* Only the caller that drains moves the clock, so the others' is unchanged.
LEMMA ClockOfOne ==
  ASSUME IInv, ClockInv, NEW c \in Callers, sh[c] \in Draining,
         sh' = [sh EXCEPT ![c] = sh'[c]], isStopped' = isStopped, Clock(c)', ShutdownBounded'
  PROVE  ClockInv'
<1>1. isStopped
  BY DEF IInv, DrainInv, Draining
<1>2. ASSUME NEW d \in Callers, d # c PROVE Clock(d)'
  <2>1. sh[d] \notin Draining /\ sh'[d] = sh[d]
    BY <1>2 DEF IInv, DrainInv, TypeOK
  <2>2. QED
    BY <2>1 DEF Clock, Draining
<1>3. QED
  BY <1>1, <1>2 DEF ClockInv

\* A call is made for one of the sessions that are left.
LEMMA CallsLeft ==
  ASSUME IInv, NEW c \in Callers, sh[c] = "call"
  PROVE  left > 0
<1>1. Len(queue) \in Nat /\ left \in Nat
  BY DEF IInv, TypeOK
<1>2. Len(queue) < left
  BY DEF IInv, DrainInv
<1>3. QED
  BY <1>1, <1>2

\* Every step of Shutdown keeps the clock: a call that returns is paid from the
\* calls that were found, a select from the one timeout.
LEMMA ClockShutdown ==
  ASSUME IInv, ClockInv, NEW c \in Callers, Shutdown(c) \/ ShutdownLock(c) \/ DrainStep(c)
  PROVE  ClockInv'
<1> USE QueueAssumption
<1>0. /\ sh \in [Callers -> {"idle", "lock", "len", "select", "call", "nil", "failed", "timedout"}]
      /\ left \in Nat /\ timer \in Nat /\ backlog \in Nat /\ waited \in Nat
      /\ queue \in Seq(Sessions) /\ Clock(c) /\ ShutdownBounded
  BY DEF IInv, TypeOK, ClockInv
<1>1. CASE Shutdown(c) \/ ShutdownLock(c)
  <2>1. /\ UNCHANGED <<queue, left, timer, backlog, waited>> /\ (isStopped => isStopped')
        /\ sh[c] \in {"idle", "lock"} /\ sh' = [sh EXCEPT ![c] = sh'[c]]
        /\ sh'[c] = "len" => ~isStopped
        /\ sh'[c] \in {"lock", "nil", "len"}
    BY <1>0, <1>1 DEF Shutdown, ShutdownLock, AlreadyStopped, lockVars
  <2>2. ASSUME NEW d \in Callers PROVE Clock(d)'
    <3>1. CASE d = c
      BY <2>1, <3>1 DEF ClockInv, Clock
    <3>2. CASE d # c
      <4>1. sh'[d] = sh[d]
        BY <1>0, <2>1, <3>2
      <4>2. QED
        BY <2>1, <4>1 DEF ClockInv, Clock
    <3>3. QED
      BY <3>1, <3>2
  <2>3. QED
    BY <2>1, <2>2 DEF ClockInv, ShutdownBounded
<1>2. CASE ShutdownLen(c)
  <2>1. /\ sh[c] = "len" /\ left' = Len(queue) /\ backlog' = Len(queue) /\ timer' = 0
        /\ UNCHANGED <<queue, waited, isStopped>>
        /\ sh' = [sh EXCEPT ![c] = sh'[c]] /\ sh'[c] \in {"nil", "select"}
    BY <1>0, <1>2 DEF ShutdownLen, lockVars
  <2>2. waited = 0 /\ Len(queue) \in Nat
    BY <1>0, <2>1 DEF Clock
  <2>3. Len(queue) * MaxCall \in Nat /\ (Len(queue) - Len(queue)) * MaxCall = 0
    BY <2>2
  <2>4. Clock(c)'
    BY <2>1, <2>2, <2>3 DEF Clock
  <2>5. ShutdownBounded'
    BY <2>1, <2>2, <2>3 DEF ShutdownBounded
  <2>6. QED
    BY <2>1, <2>4, <2>5, ClockOfOne DEF Draining
<1>3. CASE ShutdownReceive(c)
  <2>1. /\ sh[c] = "select" /\ queue # <<>> /\ timer' = 0 /\ sh'[c] = "call"
        /\ sh' = [sh EXCEPT ![c] = sh'[c]] /\ UNCHANGED <<left, backlog, waited, isStopped>>
    BY <1>0, <1>3 DEF ShutdownReceive, lockVars
  <2>2. Clock(c)'
    BY <1>0, <2>1 DEF Clock
  <2>3. QED
    BY <1>0, <2>1, <2>2, ClockOfOne DEF ShutdownBounded, Draining
<1>4. CASE ShutdownReturn(c)
  <2>1. /\ sh[c] = "call" /\ timer' = 0 /\ left' = left - 1
        /\ sh' = [sh EXCEPT ![c] = sh'[c]] /\ sh'[c] \in {"failed", "nil", "select"}
        /\ UNCHANGED <<queue, backlog, waited, isStopped>>
    BY <1>0, <1>4 DEF ShutdownReturn, lockVars
  <2>2. left > 0 /\ left <= backlog /\ waited <= (backlog - left) * MaxCall + timer /\ timer <= MaxCall
    BY <1>0, <2>1, CallsLeft DEF Clock
  <2>3. backlog \in Nat /\ left \in Nat /\ MaxCall \in Nat /\ left <= backlog /\ left > 0
    BY <1>0, <2>2
  <2>4. /\ (backlog - (left - 1)) * MaxCall = (backlog - left) * MaxCall + MaxCall
        /\ (backlog - left) * MaxCall \in Nat
    BY <2>3, OneMoreCall
  <2>5. Clock(c)'
    <3>1. waited' <= (backlog' - left') * MaxCall + timer' /\ left' <= backlog' /\ left' \in Nat
      <4>1. (backlog' - left') * MaxCall = (backlog - left) * MaxCall + MaxCall
        BY <2>1, <2>4
      <4>2. waited <= (backlog - left) * MaxCall + MaxCall
        BY <1>0, <2>2, <2>3, <2>4
      <4>3. left' <= backlog' /\ left' \in Nat
        BY <2>1, <2>3
      <4>4. QED
        BY <2>1, <2>3, <2>4, <4>1, <4>2, <4>3
    <3>2. QED
      BY <1>0, <2>1, <3>1 DEF Clock
  <2>6. ShutdownBounded' /\ sh[c] \in Draining
    BY <1>0, <2>1 DEF ShutdownBounded, Draining
  <2>7. QED
    BY <2>1, <2>5, <2>6, ClockOfOne
<1>5. CASE ShutdownTimeout(c)
  <2>1. /\ sh[c] = "select" /\ sh'[c] = "timedout" /\ sh' = [sh EXCEPT ![c] = sh'[c]]
        /\ UNCHANGED <<backlog, waited, isStopped>>
    BY <1>0, <1>5 DEF ShutdownTimeout, lockVars
  <2>2. Clock(c)'
    BY <2>1 DEF Clock
  <2>3. QED
    BY <1>0, <2>1, <2>2, ClockOfOne DEF ShutdownBounded, Draining
<1>6. CASE Tick(c)
  <2>1. /\ UNCHANGED <<queue, sh, left, backlog, isStopped>>
        /\ timer' = timer + 1 /\ waited' = waited + 1
        /\ \/ sh[c] = "call" /\ timer < MaxCall
           \/ sh[c] = "select" /\ queue = <<>> /\ timer < Timeout
    BY <1>6 DEF Tick, lockVars
  <2>2. left <= backlog /\ waited <= (backlog - left) * MaxCall + timer
    BY <1>0, <2>1 DEF Clock
  <2>3. (backlog - left) * MaxCall \in Nat /\ (backlog - left) * MaxCall <= backlog * MaxCall
    <3>1. backlog \in Nat /\ left \in Nat /\ MaxCall \in Nat /\ left <= backlog
      BY <1>0, <2>2
    <3>2. QED
      BY <3>1, OneMoreCall
  <2>4. Clock(c)'
    <3>1. waited' <= (backlog' - left') * MaxCall + timer'
      BY <1>0, <2>1, <2>2, <2>3
    <3>2. sh'[c] = sh[c] /\ left' <= backlog' /\ sh[c] \in {"call", "select"} /\ queue' = queue
      BY <2>1, <2>2
    <3>3. /\ sh[c] = "call" => timer' <= MaxCall
          /\ sh[c] = "select" => timer' <= Timeout /\ queue = <<>>
      BY <1>0, <2>1
    <3>4. QED
      BY <3>1, <3>2, <3>3 DEF Clock
  <2>5. ShutdownBounded'
    <3>1. CASE sh[c] = "select" /\ timer < Timeout
      BY <1>0, <2>1, <2>2, <2>3, <3>1 DEF ShutdownBounded
    <3>2. CASE sh[c] = "call" /\ timer < MaxCall
      <4>1. left > 0
        BY <3>2, CallsLeft
      <4>2. (backlog - left) * MaxCall + MaxCall <= backlog * MaxCall
        <5>1. left - 1 \in Nat /\ left - 1 <= backlog
          BY <1>0, <2>2, <4>1
        <5>2. (backlog - (left - 1)) * MaxCall = (backlog - left) * MaxCall + MaxCall
          <6>1. backlog \in Nat /\ left \in Nat /\ MaxCall \in Nat /\ left <= backlog /\ left > 0
            BY <1>0, <2>2, <4>1
          <6>2. QED
            BY <6>1, OneMoreCall
        <5>3. (backlog - (left - 1)) * MaxCall <= backlog * MaxCall
          BY <1>0, <5>1, OneMoreCall
        <5>4. QED
          BY <5>2, <5>3
      <4>3. backlog * MaxCall \in Nat
        BY <1>0
      <4>4. QED
        BY <1>0, <2>1, <2>2, <2>3, <3>2, <4>2, <4>3 DEF ShutdownBounded
    <3>3. QED
      BY <2>1, <3>1, <3>2
  <2>6. sh[c] \in Draining /\ sh' = [sh EXCEPT ![c] = sh'[c]]
    BY <1>0, <2>1 DEF Draining
  <2>7. QED
    BY <2>1, <2>4, <2>5, <2>6, ClockOfOne
<1>7. QED
  BY <1>1, <1>2, <1>3, <1>4, <1>5, <1>6 DEF DrainStep

\* Shutdown takes at most the time of the calls it found and one timeout,
\* whatever Run takes from the channel meanwhile.
THEOREM ShutdownIsBounded == Spec => []ShutdownBounded
<1>1. Init => ClockInv
  <2> SUFFICES ASSUME Init PROVE ClockInv
    OBVIOUS
  <2>1. waited = 0 /\ backlog = 0 /\ \A c \in Callers : sh[c] = "idle"
    BY DEF Init
  <2>2. ShutdownBounded
    BY <2>1, QueueAssumption DEF ShutdownBounded
  <2>3. QED
    BY <2>1, <2>2 DEF ClockInv, Clock
<1>2. IInv /\ ClockInv /\ [Next]_vars => ClockInv'
  BY ClockOthers, ClockShutdown DEF Next
<1>3. ClockInv => ShutdownBounded
  BY DEF ClockInv
<1>4. QED
  BY <1>1, <1>2, <1>3, Invariance, PTL DEF Spec

-----------------------------------------------------------------------------
(* The queue and the controller together.                                  *)

\* Every step of the composition is one of the queue, or leaves it alone, and
\* one of the controller, or leaves that alone: what is proved of either holds.
THEOREM Composed == CallsSpec => Spec /\ RpcSpec
<1>1. CallsInit => Init /\ RpcInit
  BY DEF CallsInit
<1>2. [CallsNext]_allVars => [Next]_vars
  <2>1. CallsNext => [Next]_vars
    BY DEF CallsNext, Internal, External, QueueInternal, RunCalls, RunResumes, ShutdownCalls,
           ShutdownResumes, NodeStopsController, Next, EnqueueStep, RunStep, DrainStep
  <2>2. QED
    BY <2>1 DEF allVars
<1>3. [CallsNext]_allVars => [RpcNext]_rpcVars
  <2>1. CallsNext => [RpcNext]_rpcVars
    <3>1. \A c : Begin(c) => c \in Calls
      BY DEF Begin
    <3>2. QED
      BY <3>1 DEF CallsNext, Internal, External, RpcInternal, RunCalls, RunResumes,
                  ShutdownCalls, ShutdownResumes, NodeStopsController, RpcNext
  <2>2. QED
    BY <2>1 DEF allVars
<1>4. QED
  BY <1>1, <1>2, <1>3, PTL DEF CallsSpec, Spec, RpcSpec

\* A call that has been made is in the hands of its consumer or has returned;
\* a consumer that is not in a call has none; and the controller is stopped,
\* and then closed, only when the queue's Shutdown has returned.
CloseInv ==
  /\ \A s \in Sessions : called[s] # 0 => s \in {runS, shS} \/ Returned(s)
  /\ runPc \in {"select", "stopped"} => runS = None
  /\ shS # None => \E c \in Callers : sh[c] = "call"
  /\ pc[Stop] # "idle" => QueueDone
  /\ conn = "shutdown" => pc[Stop] # "idle"

\* A goroutine of the controller moves on, and ends for good; only Shutdown
\* closes the connection.
LEMMA ControllerMoves ==
  ASSUME TicketInv, [RpcNext]_rpcVars
  PROVE  /\ \A t \in Threads : pc[t] = "done" => pc'[t] = "done"
         /\ \A t \in Threads : pc[t] # "idle" => pc'[t] # "idle"
         /\ conn' = "shutdown" => conn = "shutdown" \/ pc[Stop] = "close"
<1>1. \/ pc' = pc
      \/ \E t \in Threads, p \in Places \ {"idle"} :
           pc[t] # "done" /\ pc' = [pc EXCEPT ![t] = p]
  <2>1. ASSUME NEW t \in Threads, ReadyStep(t)
        PROVE  \E p \in Places \ {"idle"} : pc[t] # "done" /\ pc' = [pc EXCEPT ![t] = p]
    <3>1. Over(t) \in Places \ {"idle"}
      BY DEF Over, Places
    <3>2. \/ pc' = [pc EXCEPT ![t] = Over(t)]
          \/ pc' = [pc EXCEPT ![t] = "recover"]
          \/ pc' = [pc EXCEPT ![t] = "reset"]
          \/ pc' = [pc EXCEPT ![t] = "invoke"]
      BY <2>1 DEF ReadyStep, GetState, tryRecover, reset, Go
    <3>3. pc[t] # "done"
      BY <2>1 DEF ReadyStep, GetState, tryRecover, reset, Go
    <3>4. QED
      BY <3>1, <3>2, <3>3 DEF Places
  <2>2. ASSUME NEW c \in Calls, \/ Begin(c) \/ Acquire(c) \/ Answered(c) \/ GiveUp(c) \/ Release(c)
                                \/ \E e \in BOOLEAN : Retry(c, e)
        PROVE  \E p \in Places \ {"idle"} : pc[c] # "done" /\ pc' = [pc EXCEPT ![c] = p]
    BY <2>2 DEF Begin, Acquire, Answered, GiveUp, Release, Retry, Go, Places
  <2>3. ASSUME ShutdownController \/ CountBusy \/ Close
        PROVE  \E p \in Places \ {"idle"} : pc[Stop] # "done" /\ pc' = [pc EXCEPT ![Stop] = p]
    BY <2>3 DEF ShutdownController, CountBusy, Close, Go, Places
  <2>4. ConnectionFails \/ ConnectionRestored \/ UNCHANGED rpcVars => pc' = pc
    BY DEF ConnectionFails, ConnectionRestored, rpcVars
  <2>5. QED
    BY <2>1, <2>2, <2>3, <2>4 DEF RpcNext, CallStep, StopStep, Threads
<1>2. conn' = conn \/ conn' # "shutdown" \/ Close
  BY DEF RpcNext, Begin, Acquire, CallStep, ReadyStep, GetState, tryRecover, reset, Answered, Retry,
         GiveUp, Release, ShutdownController, StopStep, CountBusy, ConnectionFails,
         ConnectionRestored, connVars, rpcVars
<1>3. QED
  BY <1>1, <1>2 DEF TicketInv, Close, Go

\* The steps of Run and of Shutdown in the composition.
LEMMA CloseStep ==
  ASSUME IInv, TicketInv, CloseInv, [CallsNext]_allVars, [RpcNext]_rpcVars
  PROVE  CloseInv'
<1>0. /\ sh \in [Callers -> {"idle", "lock", "len", "select", "call", "nil", "failed", "timedout"}]
      /\ called \in [Sessions -> Nat] /\ runS \in Sessions \cup {None}
      /\ queue \in Seq(Sessions) /\ None \notin Sessions
      /\ Sessions \subseteq Threads /\ Stop \in Threads
  BY SessionsAreCalls, QueueAssumption DEF IInv, TypeOK, Threads
<1>1. \A s \in Sessions : Returned(s) => Returned(s)'
  BY <1>0, ControllerMoves DEF Returned
<1>2. pc'[Stop] # "idle" => pc[Stop] # "idle" \/ QueueDone
  <2>1. ASSUME pc[Stop] = "idle", pc'[Stop] # "idle" PROVE ShutdownController
    <3>1. \A t \in Threads : (\E p : pc' = [pc EXCEPT ![t] = p]) => t = Stop
      BY <1>0, <2>1
    <3>2. Stop \notin Calls /\ Calls \subseteq Threads
      BY RpcAssumption DEF Threads
    <3>3. ~ \E c \in Calls : Begin(c) \/ Acquire(c) \/ CallStep(c)
      <4>1. ASSUME NEW c \in Calls, Begin(c) \/ Acquire(c) \/ CallStep(c)
            PROVE  \E p : pc' = [pc EXCEPT ![c] = p]
        BY <4>1 DEF Begin, Acquire, CallStep, ReadyStep, GetState, tryRecover, reset, Answered,
                    Retry, GiveUp, Release, Go
      <4>2. QED
        BY <3>1, <3>2, <4>1
    <3>4. ~StopStep
      BY <2>1 DEF StopStep, ReadyStep, GetState, tryRecover, reset, CountBusy, Close, Go
    <3>5. ~(ConnectionFails \/ ConnectionRestored \/ UNCHANGED rpcVars)
      BY <2>1 DEF ConnectionFails, ConnectionRestored, rpcVars
    <3>6. QED
      BY <3>3, <3>4, <3>5 DEF RpcNext
  <2>2. ASSUME ShutdownController PROVE QueueDone
    <3>1. pc[Stop] = "idle" /\ pc' = [pc EXCEPT ![Stop] = "ready"] /\ pc'[Stop] = "ready"
      BY <1>0, <2>2 DEF ShutdownController, Go, TicketInv
    <3>2. ~UNCHANGED rpcVars
      BY <3>1 DEF rpcVars
    <3>3. \A c : ~Begin(c)
      BY <1>0, <3>1, RpcAssumption DEF Begin, Go, TicketInv, Threads
    <3>4. ~RpcInternal
      <4>1. \A c \in Calls : pc'[c] = pc[c]
        BY <3>1, RpcAssumption DEF TicketInv, Threads
      <4>2. ASSUME NEW c \in Calls, Acquire(c) \/ CallStep(c) PROVE pc'[c] # pc[c]
        BY <4>2, <1>0, RpcAssumption DEF Acquire, CallStep, ReadyStep, GetState, tryRecover, reset,
           Answered, Retry, GiveUp, Release, Go, Over, TicketInv, Threads
      <4>3. ~StopStep
        BY <3>1 DEF StopStep, ReadyStep, GetState, tryRecover, reset, CountBusy, Close, Go
      <4>4. QED
        BY <4>1, <4>2, <4>3 DEF RpcInternal
    <3>5. ~(ConnectionFails \/ ConnectionRestored)
      BY <3>1 DEF ConnectionFails, ConnectionRestored
    <3>6. QED
      BY <3>2, <3>3, <3>4, <3>5 DEF CallsNext, Internal, External, RunCalls, RunResumes,
         ShutdownCalls, ShutdownResumes, NodeStopsController, allVars
  <2>3. QED
    BY <2>1, <2>2
<1>3. conn' = "shutdown" => pc'[Stop] # "idle"
  BY <1>0, ControllerMoves DEF CloseInv
<1>4. [Next]_vars
  BY DEF CallsNext, Internal, External, QueueInternal, RunCalls, RunResumes, ShutdownCalls,
         ShutdownResumes, NodeStopsController, Next, EnqueueStep, RunStep, DrainStep, allVars
<1>5. QueueDone => QueueDone'
  <2>1. SUFFICES ASSUME NEW c \in Callers, sh[c] \in {"nil", "failed", "timedout"}
                 PROVE  sh'[c] = sh[c]
    BY DEF QueueDone
  <2>2. \/ sh' = sh
        \/ \E d \in Callers : /\ sh[d] \notin {"nil", "failed", "timedout"}
                              /\ \E p : sh' = [sh EXCEPT ![d] = p]
    BY <1>4 DEF Next, EnqueueStep, Enqueue, EnqueueLock, EnqueueSend, RunStep, RunReceive,
       RunThrottle, RunReturn, RunStop, DrainStep, Shutdown, ShutdownLock, ShutdownLen,
       ShutdownReceive, ShutdownReturn, ShutdownTimeout, Tick, drainVars, vars
  <2>3. QED
    BY <1>0, <2>1, <2>2
<1> DEFINE Goal == /\ \A s \in Sessions : called'[s] # 0 => s \in {runS', shS'} \/ Returned(s)'
                   /\ runPc' \in {"select", "stopped"} => runS' = None
                   /\ shS' # None => \E c \in Callers : sh'[c] = "call"
<1>6. SUFFICES Goal
  BY <1>2, <1>3, <1>5 DEF CloseInv
<1>7. CASE RunReceive
  <2>1. runS = None /\ runPc' = "throttle" /\ UNCHANGED <<called, sh, shS>>
    BY <1>7 DEF RunReceive, CloseInv, drainVars
  <2>2. QED
    BY <1>0, <1>1, <2>1 DEF CloseInv
<1>8. CASE RunThrottle
  <2>1. runPc' = "call" /\ called' = [called EXCEPT ![runS] = @ + 1] /\ UNCHANGED <<runS, sh, shS>>
    BY <1>8 DEF RunThrottle, drainVars
  <2>2. \A s \in Sessions : s # runS => called'[s] = called[s]
    BY <1>0, <2>1
  <2>3. QED
    BY <1>1, <2>1, <2>2 DEF CloseInv
<1>9. CASE RunResumes
  <2>1. runS' = None /\ Returned(runS) /\ UNCHANGED <<called, sh, shS, pc>>
    BY <1>9 DEF RunResumes, RunReturn, drainVars, rpcVars
  <2>2. QED
    BY <2>1 DEF CloseInv, Returned
<1>10. ASSUME NEW c \in Callers, ShutdownReceive(c) PROVE Goal
  <2>1. /\ sh[c] = "select" /\ sh' = [sh EXCEPT ![c] = "call"]
        /\ queue # <<>> /\ shS' = Head(queue) /\ called' = [called EXCEPT ![Head(queue)] = @ + 1]
        /\ UNCHANGED <<runPc, runS>>
    BY <1>10 DEF ShutdownReceive, runVars
  <2>2. shS = None
    BY <2>1 DEF CloseInv, IInv, DrainInv, Draining
  <2>3. sh'[c] = "call"
    BY <1>0, <2>1
  <2>4. \A s \in Sessions : s # shS' => called'[s] = called[s]
    BY <1>0, <2>1
  <2>5. QED
    BY <1>0, <1>1, <2>1, <2>2, <2>3, <2>4 DEF CloseInv
<1>11. ASSUME NEW c \in Callers, ShutdownResumes(c) PROVE Goal
  <2>1. shS' = None /\ Returned(shS) /\ UNCHANGED <<called, runPc, runS, pc>>
    BY <1>11 DEF ShutdownResumes, ShutdownReturn, runVars, rpcVars
  <2>2. QED
    BY <2>1 DEF CloseInv, Returned
<1>12. CASE RunStop
  <2>1. runPc = "select" /\ UNCHANGED <<called, runS, sh, shS>>
    BY <1>12 DEF RunStop, drainVars
  <2>2. QED
    BY <1>1, <2>1 DEF CloseInv
<1>13. ASSUME UNCHANGED <<called, runPc, runS, shS>>, \A c \in Callers : sh[c] = "call" => sh'[c] = "call"
       PROVE  Goal
  BY <1>1, <1>13 DEF CloseInv
<1>14. ASSUME NEW c \in Callers, \/ Shutdown(c) \/ ShutdownLock(c) \/ ShutdownLen(c)
                                 \/ ShutdownTimeout(c) \/ Tick(c)
       PROVE  Goal
  <2>1. UNCHANGED <<called, runPc, runS, shS>>
    BY <1>14 DEF Shutdown, ShutdownLock, ShutdownLen, ShutdownTimeout, Tick, runVars
  <2>2. sh' = sh \/ (sh[c] # "call" /\ \E p : sh' = [sh EXCEPT ![c] = p])
    BY <1>14 DEF Shutdown, ShutdownLock, ShutdownLen, ShutdownTimeout, Tick
  <2>3. QED
    BY <1>0, <1>13, <2>1, <2>2
<1>15. ASSUME NEW s \in Sessions, EnqueueStep(s) PROVE Goal
  BY <1>13, <1>15 DEF EnqueueStep, Enqueue, EnqueueLock, EnqueueSend, runVars, drainVars
<1>16. CASE UNCHANGED vars
  BY <1>13, <1>16 DEF vars, runVars, drainVars
<1>17. QED
  <2>1. \/ RunReceive \/ RunThrottle \/ RunResumes \/ RunStop \/ UNCHANGED vars
        \/ \E s \in Sessions : EnqueueStep(s)
        \/ \E c \in Callers : \/ ShutdownReceive(c) \/ ShutdownResumes(c)
                              \/ Shutdown(c) \/ ShutdownLock(c) \/ ShutdownLen(c)
                              \/ ShutdownTimeout(c) \/ Tick(c)
    BY DEF CallsNext, Internal, External, QueueInternal, RunCalls, ShutdownCalls,
           NodeStopsController, EnqueueStep, allVars
  <2>2. QED
    BY <2>1, <1>7, <1>8, <1>9, <1>10, <1>11, <1>12, <1>14, <1>15, <1>16

\* Node.Shutdown closes the controller after the drain of the queue: unless
\* that failed or timed out, every accepted session's call has returned then,
\* but for the one that Run had taken.
THEOREM DrainedBeforeClose == CallsSpec => []CallsBeforeClose
<1>1. CallsInit => CloseInv
  <2> SUFFICES ASSUME CallsInit PROVE CloseInv
    OBVIOUS
  <2>1. /\ runS = None /\ shS = None /\ conn = "ok" /\ pc[Stop] = "idle"
        /\ \A s \in Sessions : called[s] = 0
    BY DEF CallsInit, Init, RpcInit, Threads
  <2>2. QED
    BY <2>1 DEF CloseInv
<1>2. [CallsNext]_allVars => [RpcNext]_rpcVars
  <2>1. \A c : Begin(c) => c \in Calls
    BY DEF Begin
  <2>2. QED
    BY <2>1 DEF CallsNext, Internal, External, RpcInternal, RunCalls, RunResumes,
                ShutdownCalls, ShutdownResumes, NodeStopsController, RpcNext, allVars
<1>3. IInv /\ TicketInv /\ CloseInv /\ [CallsNext]_allVars => CloseInv'
  BY <1>2, CloseStep
<1>4. IInv /\ LedgerInv /\ CloseInv => CallsBeforeClose
  <2> SUFFICES ASSUME IInv, LedgerInv, CloseInv, conn = "shutdown",
                      \A c \in Callers : sh[c] \notin {"failed", "timedout"},
                      NEW s \in accepted
               PROVE  Returned(s) \/ s = runS
    BY DEF CallsBeforeClose
  <2>1. PICK c \in Callers : sh[c] = "nil"
    BY DEF CloseInv, QueueDone
  <2>2. \A d \in Callers : sh[d] = "nil"
    BY <2>1, OneShutdown
  <2>3. isStopped
    BY <2>2 DEF IInv, DrainInv
  <2>4. queue = <<>>
    BY <2>2, <2>3 DEF IInv, NilMeansDrained
  <2>5. shS = None
    BY <2>2 DEF CloseInv
  <2>6. s \in Sessions /\ s # None
    BY QueueAssumption DEF IInv, TypeOK
  <2>7. ~Queued(s)
    BY <2>4 DEF Queued
  <2>8. Taken(s) \/ called[s] = 1
    BY <2>6, <2>7 DEF LedgerInv, Ledger
  <2>9. QED
    BY <2>5, <2>6, <2>8 DEF Taken, CloseInv
<1>5. QED
  BY <1>1, <1>3, <1>4, Composed, Invariance, LedgerInvariant, TicketInvariant, PTL DEF CallsSpec

=============================================================================
