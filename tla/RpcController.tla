--------------------------- MODULE RpcController ---------------------------
(***************************************************************************)
(* The RPC controller (rpc/rpc.go): the semaphore that limits concurrent   *)
(* calls, the retries of a call, the state of the gRPC connection as Ready *)
(* sees it, and Shutdown. Calls begin after Start has returned.            *)
(***************************************************************************)
EXTENDS Naturals, FiniteSets

CONSTANTS
  Calls,                \* Authenticate, Subscribe, ..., Disconnect calls
  Stop,                 \* the goroutine that calls Shutdown
  Concurrency,          \* c.config.Concurrency, 28 by default
  InvokeTimeout,        \* 3000 in the code
  ExhaustedInterval,    \* 10
  UnavailableInterval,  \* 100
  MaxFailures           \* bound: how often the connection fails

ASSUME RpcAssumption ==
  /\ IsFiniteSet(Calls) /\ Stop \notin Calls
  /\ Concurrency \in Nat \ {0} /\ InvokeTimeout \in Nat /\ MaxFailures \in Nat
  /\ ExhaustedInterval \in Nat \ {0} /\ UnavailableInterval \in Nat \ {0}
  /\ ExhaustedInterval <= UnavailableInterval

Threads == Calls \cup {Stop}

VARIABLES
  sem,          \* len(c.sem)
  pc,           \* per goroutine: where it is
  retryAge, power, wasExhausted,  \* per goroutine: the variables of retry; power
                \* is math.Pow(2, attempt), all that is made of attempt
  conn,         \* the state of the connection: "ok", "failure" or "shutdown"
  recovering,   \* st.recovering
  failures      \* bounded by MaxFailures

retryVars == <<retryAge, power, wasExhausted>>
connVars == <<conn, recovering, failures>>
rpcVars == <<sem, pc, retryVars, connVars>>

RpcInit ==
  /\ sem = Concurrency
  /\ pc = [t \in Threads |-> "idle"]
  /\ retryAge = [t \in Threads |-> 0]
  /\ power = [t \in Threads |-> 1]
  /\ wasExhausted = [t \in Threads |-> FALSE]
  /\ conn = "ok" /\ recovering = FALSE /\ failures = 0

Go(t, from, next) == pc[t] = from /\ pc' = [pc EXCEPT ![t] = next]

\* Where a goroutine goes when its retry is over.
Over(t) == IF t = Stop THEN "close" ELSE "release"

\* The calls between <-c.sem and its deferred counterpart, and what busy()
\* takes for their number.
InFlight == {c \in Calls : pc[c] \in {"ready", "recover", "reset", "invoke", "release"}}
busy == Concurrency - sem

-----------------------------------------------------------------------------
(* A call, up to its retry and after it.                                   *)

Begin(c) ==
  /\ c \in Calls /\ Go(c, "idle", "wait")
  /\ UNCHANGED <<sem, retryVars, connVars>>

\* <-c.sem
Acquire(c) ==
  /\ sem > 0 /\ Go(c, "wait", "ready")
  /\ sem' = sem - 1
  /\ UNCHANGED <<retryVars, connVars>>

\* What goes back to the semaphore.
\* Mutation: a call that has been retried keeps its ticket.
ticketUnlessRetried(c) == IF power[c] > 1 THEN 0 ELSE 1
ticket(c) == 1

\* The deferred c.sem <- struct{}{}.
Release(c) ==
  /\ Go(c, "release", "done")
  /\ sem' = sem + ticket(c)
  /\ UNCHANGED <<retryVars, connVars>>

-----------------------------------------------------------------------------
(* Ready. *)

\* The connection's state is read first, without a lock, ...
GetState(t) ==
  /\ pc[t] = "ready"
  /\ pc' = [pc EXCEPT ![t] = CASE conn = "shutdown" -> Over(t)
                               [] conn = "failure" -> "recover"
                               [] OTHER -> "reset"]
  /\ UNCHANGED <<sem, retryVars, connVars>>

\* ... and acted upon later: the first call in a failure asks for an immediate
\* reconnect and goes on, the others are refused, ...
tryRecover(t) ==
  /\ pc[t] = "recover"
  /\ pc' = [pc EXCEPT ![t] = IF recovering THEN Over(t) ELSE "invoke"]
  /\ recovering' = TRUE
  /\ UNCHANGED <<sem, retryVars, conn, failures>>

\* ... and a call that finds the connection working ends the recovery.
reset(t) ==
  /\ Go(t, "reset", "invoke")
  /\ recovering' = FALSE
  /\ UNCHANGED <<sem, retryVars, conn, failures>>

-----------------------------------------------------------------------------
(* The loop of retry. *)

\* The callback succeeds, or fails in a way that is not retried.
Answered(c) ==
  /\ c \in Calls /\ Go(c, "invoke", "release")
  /\ UNCHANGED <<sem, retryVars, connVars>>

interval(e) == IF e THEN ExhaustedInterval ELSE UnavailableInterval

\* The next delay in intervals, after an error of kind e: attempt starts again
\* from 0 when the kind of the error changes.
\* Mutation: it does not.
powerKept(c, e) == power[c]
powerFor(c, e) == IF e # wasExhausted[c] THEN 1 ELSE power[c]

\* Whether retry gives up.
tooOld(c) == retryAge[c] > InvokeTimeout

\* ResourceExhausted (e) or Unavailable: the call sleeps and tries again.
Retry(c, e) ==
  /\ c \in Calls /\ ~tooOld(c) /\ Go(c, "invoke", "ready")
  /\ retryAge' = [retryAge EXCEPT ![c] = @ + powerFor(c, e) * interval(e)]
  /\ power' = [power EXCEPT ![c] = 2 * powerFor(c, e)]
  /\ wasExhausted' = [wasExhausted EXCEPT ![c] = e]
  /\ UNCHANGED <<sem, connVars>>

GiveUp(c) ==
  /\ c \in Calls /\ tooOld(c) /\ Go(c, "invoke", "release")
  /\ UNCHANGED <<sem, retryVars, connVars>>

-----------------------------------------------------------------------------
(* Shutdown: the calls in flight are counted by a callback of retry, whose *)
(* error carries no status, so that retry returns it at once.              *)

ShutdownController ==
  /\ Go(Stop, "idle", "ready")
  /\ UNCHANGED <<sem, retryVars, connVars>>

CountBusy ==
  /\ Go(Stop, "invoke", "close")
  /\ UNCHANGED <<sem, retryVars, connVars>>

\* The deferred c.clientState.Close.
Close ==
  /\ Go(Stop, "close", "done")
  /\ conn' = "shutdown"
  /\ UNCHANGED <<sem, retryVars, recovering, failures>>

-----------------------------------------------------------------------------
(* The connection. *)

ConnectionFails ==
  /\ conn = "ok" /\ failures < MaxFailures
  /\ conn' = "failure" /\ failures' = failures + 1
  /\ UNCHANGED <<sem, pc, retryVars, recovering>>

ConnectionRestored ==
  /\ conn = "failure"
  /\ conn' = "ok"
  /\ UNCHANGED <<sem, pc, retryVars, recovering, failures>>

-----------------------------------------------------------------------------
ReadyStep(t) == GetState(t) \/ tryRecover(t) \/ reset(t)
CallStep(c) ==
  \/ ReadyStep(c) \/ Answered(c) \/ (\E e \in BOOLEAN : Retry(c, e)) \/ GiveUp(c)
  \/ Release(c)
StopStep == ReadyStep(Stop) \/ CountBusy \/ Close

RpcNext ==
  \/ \E c \in Calls : Begin(c) \/ Acquire(c) \/ CallStep(c)
  \/ ShutdownController \/ StopStep
  \/ ConnectionFails \/ ConnectionRestored

RpcSpec == RpcInit /\ [][RpcNext]_rpcVars

\* RPC calls return, and the channel serves the waiting calls in turn.
RpcFairness ==
  /\ \A c \in Calls : WF_rpcVars(CallStep(c)) /\ SF_rpcVars(Acquire(c))
  /\ WF_rpcVars(StopStep)

RpcFairSpec == RpcSpec /\ RpcFairness

-----------------------------------------------------------------------------
(* Properties. *)

\* The semaphore, the goroutines and the connection have values of their types
\* (retryAge is the subject of RetryBounded).
RpcTypeOK ==
  /\ sem \in 0..Concurrency
  /\ pc \in [Threads -> {"idle", "wait", "ready", "recover", "reset", "invoke",
                         "release", "close", "done"}]
  /\ power \in [Threads -> Nat]
  /\ wasExhausted \in [Threads -> BOOLEAN]
  /\ conn \in {"ok", "failure", "shutdown"} /\ failures \in Nat
  /\ recovering \in BOOLEAN

\* busy() is the number of calls in flight: every path through a call, with or
\* without retries, returns the ticket it took, and no more.
BusyIsInFlight == busy = Cardinality(InFlight)

\* A call sleeps for less than twice the invoke timeout and one interval,
\* whatever errors it gets and in what order: the exponential delays never
\* exceed the time already spent by more than one interval.
RetryBounded == \A c \in Calls : retryAge[c] <= 2 * InvokeTimeout + UnavailableInterval

\* Every call returns, also when the connection fails or is closed under it.
CallsReturn == \A c \in Calls : (pc[c] # "idle") ~> (pc[c] = "done")

=============================================================================
