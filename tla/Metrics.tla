------------------------------ MODULE Metrics ------------------------------
(***************************************************************************)
(* The metrics registry (metrics/): counters and what is logged of them,   *)
(* Metrics.Run and Metrics.Shutdown, and scrapes over HTTP.                *)
(*                                                                         *)
(* Counters are atomic words that grow while the registry's lock m.mu is   *)
(* held by a rotation, a snapshot, a scrape or Shutdown. Time is not       *)
(* modelled: a timer may fire whenever its goroutine waits for it.         *)
(***************************************************************************)
EXTENDS Integers

CONSTANTS
  Counters,    \* names of counters
  Configs,     \* configurations: [http : {"none", "own", "shared"}, log : BOOLEAN]
  Scrapes,     \* requests for the metrics that may arrive
  Increments,  \* arguments of Counter.Add
  MaxValue     \* bound on a counter's value

ASSUME MetricsAssumption ==
  /\ Configs \subseteq [http : {"none", "own", "shared"}, log : BOOLEAN]
  /\ Increments \subseteq Nat \ {0}
  /\ MaxValue \in Nat

VARIABLES
  config,            \* the configuration FromConfig was given
  value, last, delta,  \* per counter: value, lastIntervalValue, lastIntervalDelta
  logged,            \* history, per counter: the sum of the intervals logged
  run, left,         \* Metrics.Run: where it is, the counters its loop has still to visit
  watching,          \* whether the select of Run waits for a channel that is not nil
  mu, readers,       \* m.mu: who holds it for writing, who for reading
  shutdownCh,        \* m.shutdownCh: "open", "closed", or "nil"
  shutdown,          \* Metrics.Shutdown: where it is
  started, stopped,  \* the flags of the HTTP server
  up,                \* whether it accepts connections
  scrape             \* per request: where PrometheusHandler is

counterVars == <<value, last, delta, logged>>
runVars == <<run, left, watching>>
lockVars == <<mu, readers>>
shutdownVars == <<shutdownCh, shutdown>>
serverVars == <<started, stopped, up>>
vars == <<config, counterVars, runVars, lockVars, shutdownVars, serverVars, scrape>>

Init ==
  /\ config \in Configs
  /\ value = [c \in Counters |-> 0] /\ last = value /\ delta = value /\ logged = value
  /\ run = "boot" /\ left = {} /\ watching = FALSE
  /\ mu = "free" /\ readers = {}
  /\ shutdownCh = "open" /\ shutdown = "idle"
  /\ started = FALSE /\ stopped = FALSE /\ up = FALSE
  /\ scrape = [r \in Scrapes |-> "none"]

-----------------------------------------------------------------------------
(* Counters. *)

Add(c, n) ==
  /\ value[c] + n <= MaxValue
  /\ value' = [value EXCEPT ![c] = @ + n]
  /\ UNCHANGED <<config, last, delta, logged, runVars, lockVars, shutdownVars, serverVars,
                 scrape>>

\* Mutation: the live value, as in the first interval.
liveValue(c) == value[c]
IntervalValue(c) == IF last[c] = 0 THEN value[c] ELSE delta[c]

UpdateDelta(c) ==
  /\ delta' = [delta EXCEPT ![c] = value[c] - last[c]]
  /\ last' = [last EXCEPT ![c] = value[c]]

-----------------------------------------------------------------------------
(* Metrics.Run. *)

\* The loop evaluates m.shutdownCh, without the lock, each time it selects.
enterSelect == run' = "select" /\ watching' = (shutdownCh # "nil")

\* What follows the server: nothing to do without writers.
afterServer ==
  \/ config.log /\ enterSelect
  \/ ~config.log /\ run' = "done" /\ UNCHANGED watching

\* StartAndAnnounce: mounted on a running server, or listening and serving in
\* this goroutine until the server is shut down, or failing to listen.
RunServer ==
  /\ run = "boot"
  /\ \/ /\ config.http = "none" \/ started
        /\ afterServer /\ UNCHANGED <<started, up>>
     \/ /\ config.http # "none" /\ ~started
        /\ started' = TRUE
        /\ \/ run' = "serve" /\ up' = ~stopped
           \/ run' = "ended" /\ UNCHANGED up
        /\ UNCHANGED watching
  /\ UNCHANGED <<config, counterVars, left, lockVars, shutdownVars, stopped, scrape>>

RunServed ==
  /\ run = "serve" /\ stopped
  /\ run' = "ended"
  /\ UNCHANGED <<config, counterVars, left, watching, lockVars, shutdownVars, serverVars,
                 scrape>>

\* The error is passed on unless the server was stopped.
RunEnded ==
  /\ run = "ended"
  /\ IF stopped THEN afterServer ELSE run' = "failed" /\ UNCHANGED watching
  /\ UNCHANGED <<config, counterVars, left, lockVars, shutdownVars, serverVars, scrape>>

\* The select: a closed channel, if it is not read as nil, or the timer.
RunSelect ==
  /\ run = "select"
  /\ \/ watching /\ shutdownCh # "open" /\ run' = "done"
     \/ run' = "tick"
  /\ UNCHANGED <<config, counterVars, left, watching, lockVars, shutdownVars, serverVars,
                 scrape>>

\* rotate holds m.mu over all counters.
RotateLock ==
  /\ run = "tick" /\ mu = "free" /\ readers = {}
  /\ mu' = "run" /\ run' = "rotate" /\ left' = Counters
  /\ UNCHANGED <<config, counterVars, watching, readers, shutdownVars, serverVars, scrape>>

Rotate(c) ==
  /\ run = "rotate" /\ c \in left
  /\ UpdateDelta(c)
  /\ left' = left \ {c}
  /\ UNCHANGED <<config, value, logged, run, watching, lockVars, shutdownVars, serverVars,
                 scrape>>

\* The lock after the rotation.
\* Mutation: it is kept when there was nothing to rotate.
muKept == IF \E c \in Counters : delta[c] > 0 THEN "free" ELSE mu
muReleased == "free"

RotateUnlock ==
  /\ run = "rotate" /\ left = {}
  /\ mu' = muReleased /\ run' = "write"
  /\ UNCHANGED <<config, counterVars, left, watching, readers, shutdownVars, serverVars,
                 scrape>>

\* Write takes an IntervalSnapshot under m.mu.RLock and prints it.
SnapshotLock ==
  /\ run = "write" /\ mu = "free"
  /\ readers' = readers \cup {"run"} /\ run' = "snapshot" /\ left' = Counters
  /\ UNCHANGED <<config, counterVars, watching, mu, shutdownVars, serverVars, scrape>>

Snapshot(c) ==
  /\ run = "snapshot" /\ c \in left
  /\ logged' = [logged EXCEPT ![c] = @ + IntervalValue(c)]
  /\ left' = left \ {c}
  /\ UNCHANGED <<config, value, last, delta, run, watching, lockVars, shutdownVars, serverVars,
                 scrape>>

WriteDone ==
  /\ run = "snapshot" /\ left = {}
  /\ readers' = readers \ {"run"}
  /\ enterSelect
  /\ UNCHANGED <<config, counterVars, left, mu, shutdownVars, serverVars, scrape>>

-----------------------------------------------------------------------------
(* Scrapes: PrometheusHandler takes m.mu.RLock for the counters and again  *)
(* for the gauges.                                                         *)

ScrapeArrives(r) ==
  /\ scrape[r] = "none" /\ up
  /\ scrape' = [scrape EXCEPT ![r] = "counters"]
  /\ UNCHANGED <<config, counterVars, runVars, lockVars, shutdownVars, serverVars>>

\* EachCounter and EachGauge.
EachLock(r) ==
  /\ scrape[r] \in {"counters", "gauges"} /\ r \notin readers /\ mu = "free"
  /\ readers' = readers \cup {r}
  /\ UNCHANGED <<config, counterVars, runVars, mu, shutdownVars, serverVars, scrape>>

EachUnlock(r) ==
  /\ r \in readers
  /\ readers' = readers \ {r}
  /\ scrape' = [scrape EXCEPT ![r] = IF @ = "counters" THEN "gauges" ELSE "done"]
  /\ UNCHANGED <<config, counterVars, runVars, mu, shutdownVars, serverVars>>

\* The server's other user starts it (the WebSocket server of the same port).
OtherStarts ==
  /\ config.http = "shared" /\ ~started
  /\ started' = TRUE /\ up' = ~stopped
  /\ UNCHANGED <<config, counterVars, runVars, lockVars, shutdownVars, stopped, scrape>>

-----------------------------------------------------------------------------
(* Metrics.Shutdown, called by the runner's signal handler; m.mu is held   *)
(* until it returns.                                                       *)

ShutdownLock ==
  /\ shutdown = "idle" /\ mu = "free" /\ readers = {}
  /\ mu' = "shutdown" /\ shutdown' = "close"
  /\ UNCHANGED <<config, counterVars, runVars, readers, shutdownCh, serverVars, scrape>>

\* close(m.shutdownCh), then m.shutdownCh = nil.
ShutdownClose ==
  /\ shutdown \in {"close", "nil"}
  /\ shutdownCh' = IF shutdown = "close" THEN "closed" ELSE "nil"
  /\ shutdown' = IF shutdown = "close" THEN "nil"
                 ELSE IF config.http = "none" THEN "unlock" ELSE "server"
  /\ UNCHANGED <<config, counterVars, runVars, lockVars, serverVars, scrape>>

\* HTTPServer.Shutdown sets its flag and closes the listener...
ShutdownServer ==
  /\ shutdown = "server"
  /\ stopped' = TRUE /\ up' = FALSE /\ shutdown' = "drain"
  /\ UNCHANGED <<config, counterVars, runVars, lockVars, shutdownCh, started, scrape>>

\* ... and waits for the requests in flight, with m.mu held: for ever, if one of
\* them is a scrape that has not read the counters or the gauges yet.
noneInFlight == \A r \in Scrapes : scrape[r] \in {"none", "done"}

ShutdownDrained ==
  /\ shutdown = "drain" /\ noneInFlight
  /\ shutdown' = "unlock"
  /\ UNCHANGED <<config, counterVars, runVars, lockVars, shutdownCh, serverVars, scrape>>

ShutdownUnlock ==
  /\ shutdown = "unlock"
  /\ mu' = "free" /\ shutdown' = "done"
  /\ UNCHANGED <<config, counterVars, runVars, readers, shutdownCh, serverVars, scrape>>

-----------------------------------------------------------------------------
Run ==
  \/ RunServer \/ RunServed \/ RunEnded \/ RunSelect
  \/ RotateLock \/ (\E c \in Counters : Rotate(c)) \/ RotateUnlock
  \/ SnapshotLock \/ (\E c \in Counters : Snapshot(c)) \/ WriteDone

Scrape(r) == EachLock(r) \/ EachUnlock(r)

Shutdown ==
  ShutdownLock \/ ShutdownClose \/ ShutdownServer \/ ShutdownDrained \/ ShutdownUnlock

Next ==
  \/ \E c \in Counters : \E n \in Increments : Add(c, n)
  \/ Run
  \/ \E r \in Scrapes : ScrapeArrives(r) \/ Scrape(r)
  \/ OtherStarts
  \/ Shutdown

Spec == Init /\ [][Next]_vars

\* Goroutines are scheduled, timers fire, and locks are granted in the end.
\* Nobody owes a signal, an increment or a scrape.
Fairness ==
  /\ WF_vars(Run) /\ SF_vars(RotateLock) /\ SF_vars(SnapshotLock)
  /\ \A r \in Scrapes : SF_vars(Scrape(r))

FairSpec == Spec /\ Fairness

-----------------------------------------------------------------------------
(* Properties. *)

\* The registry's words, lock and goroutines hold values of their types.
TypeOK ==
  /\ config \in Configs
  /\ {value, last, delta, logged} \subseteq [Counters -> Nat]
  /\ run \in {"boot", "serve", "ended", "select", "tick", "rotate", "write", "snapshot",
              "done", "failed"}
  /\ left \subseteq Counters /\ watching \in BOOLEAN
  /\ mu \in {"free", "run", "shutdown"} /\ readers \subseteq Scrapes \cup {"run"}
  /\ shutdownCh \in {"open", "closed", "nil"}
  /\ shutdown \in {"idle", "close", "nil", "server", "drain", "unlock", "done"}
  /\ {started, stopped, up} \subseteq BOOLEAN
  /\ scrape \in [Scrapes -> {"none", "counters", "gauges", "done"}]

\* The log adds up. Between two rounds of Metrics.Run everything a rotation
\* has consumed has been logged, although counters grow under the rotation and
\* between rotation and snapshot; and nothing is logged more than twice: what
\* arrives between the first rotation and its snapshot is logged with both the
\* first and the second interval (IntervalValue reads the live value until
\* lastIntervalValue is positive).
LogAddsUp ==
  run \in {"select", "tick"} =>
    \A c \in Counters :
      /\ last[c] <= logged[c]
      /\ logged[c] <= 2 * last[c] \/ (last[c] = 0 /\ logged[c] <= value[c])

InLoop == run \in {"select", "tick", "rotate", "write", "snapshot"}

\* While metrics are rotated, whatever has been counted is logged, unless the
\* process is being shut down.
CountsAreLogged ==
  \A c \in Counters : \A n \in 1..MaxValue :
    (InLoop /\ value[c] = n) ~> (logged[c] >= n \/ shutdown # "idle")

=============================================================================
