--------------------------- MODULE MetricsProofs ---------------------------
(* The log of the counters adds up, for any counters, increments, scrapes  *)
(* and configurations, and without a bound on the number of intervals.     *)
EXTENDS Metrics, TLAPS

CountersOK ==
  /\ value \in [Counters -> Nat] /\ last \in [Counters -> Nat]
  /\ delta \in [Counters -> Nat] /\ logged \in [Counters -> Nat]
  /\ left \subseteq Counters

\* Rotated, and not logged since.
Pending(c) ==
  \/ run = "rotate" /\ c \notin left
  \/ run = "write"
  \/ run = "snapshot" /\ c \in left

Settled(c) ==
  /\ last[c] <= logged[c]
  /\ logged[c] <= 2 * last[c] \/ (last[c] = 0 /\ logged[c] <= value[c])

\* The same of the interval before, which ended at last - delta.
Due(c) ==
  /\ delta[c] <= last[c]
  /\ last[c] - delta[c] <= logged[c]
  /\ logged[c] <= 2 * (last[c] - delta[c]) \/ (last[c] = delta[c] /\ logged[c] <= last[c])

Books(c) == last[c] <= value[c] /\ IF Pending(c) THEN Due(c) ELSE Settled(c)

IInv == CountersOK /\ \A c \in Counters : Books(c)

\* A counter grows at any moment, also while it is rotated or logged.
LEMMA AddKeeps ==
  ASSUME IInv, NEW c \in Counters, NEW n \in Increments, Add(c, n)
  PROVE  IInv'
<1> USE MetricsAssumption
<1>1. n \in Nat
  OBVIOUS
<1>2. /\ value' = [value EXCEPT ![c] = @ + n]
      /\ UNCHANGED <<last, delta, logged, run, left>>
  BY DEF Add, runVars
<1>3. CountersOK'
  BY <1>1, <1>2 DEF IInv, CountersOK
<1>4. ASSUME NEW d \in Counters PROVE Books(d)'
  <2>1. value[d] \in Nat /\ value'[d] \in Nat /\ value[d] <= value'[d]
    BY <1>1, <1>2 DEF IInv, CountersOK
  <2>2. Books(d)
    BY DEF IInv
  <2>3. last[d] \in Nat /\ delta[d] \in Nat /\ logged[d] \in Nat
    BY DEF IInv, CountersOK
  <2>4. QED
    BY <1>2, <2>1, <2>2, <2>3 DEF Books, Pending, Due, Settled
<1>5. QED
  BY <1>3, <1>4 DEF IInv

\* UpdateDelta closes the interval of one counter: the rest of what it has
\* counted becomes due.
LEMMA RotateKeeps ==
  ASSUME IInv, NEW c \in Counters, Rotate(c)
  PROVE  IInv'
<1>1. /\ run = "rotate" /\ c \in left /\ left' = left \ {c}
      /\ delta' = [delta EXCEPT ![c] = value[c] - last[c]]
      /\ last' = [last EXCEPT ![c] = value[c]]
      /\ UNCHANGED <<value, logged, run>>
  BY DEF Rotate, UpdateDelta
<1>2. /\ value[c] \in Nat /\ last[c] \in Nat /\ logged[c] \in Nat
      /\ last[c] <= value[c] /\ Settled(c)
  BY <1>1 DEF IInv, CountersOK, Books, Pending
<1>3. value[c] - last[c] \in Nat
  BY <1>2
<1>4. CountersOK'
  BY <1>1, <1>2, <1>3 DEF IInv, CountersOK
<1>5. ASSUME NEW d \in Counters PROVE Books(d)'
  <2>1. CASE d = c
    <3>1. last'[c] = value[c] /\ delta'[c] = value[c] - last[c] /\ Pending(c)'
      BY <1>1 DEF IInv, CountersOK, Pending
    <3>2. Due(c)'
      BY <1>1, <1>2, <3>1 DEF Due, Settled
    <3>3. QED
      BY <1>1, <1>2, <2>1, <3>1, <3>2 DEF Books
  <2>2. CASE d # c
    <3>1. last'[d] = last[d] /\ delta'[d] = delta[d] /\ (d \in left' <=> d \in left)
      BY <1>1, <2>2 DEF IInv, CountersOK
    <3>2. Books(d)
      BY DEF IInv
    <3>3. QED
      BY <1>1, <3>1, <3>2 DEF Books, Pending, Due, Settled
  <2>3. QED
    BY <2>1, <2>2
<1>6. QED
  BY <1>4, <1>5 DEF IInv

\* The snapshot logs what is due, or the live value in the first interval.
LEMMA SnapshotKeeps ==
  ASSUME IInv, NEW c \in Counters, Snapshot(c)
  PROVE  IInv'
<1>1. /\ run = "snapshot" /\ c \in left /\ left' = left \ {c}
      /\ logged' = [logged EXCEPT ![c] = @ + IntervalValue(c)]
      /\ UNCHANGED <<value, last, delta, run>>
  BY DEF Snapshot
<1>2. /\ value[c] \in Nat /\ last[c] \in Nat /\ logged[c] \in Nat /\ delta[c] \in Nat
      /\ last[c] <= value[c] /\ Due(c)
  BY <1>1 DEF IInv, CountersOK, Books, Pending
<1>3. IntervalValue(c) \in Nat
  BY <1>2 DEF IntervalValue
<1>4. CountersOK'
  BY <1>1, <1>2, <1>3 DEF IInv, CountersOK
<1>5. ASSUME NEW d \in Counters PROVE Books(d)'
  <2>1. CASE d = c
    <3>1. logged'[c] = logged[c] + IntervalValue(c) /\ ~Pending(c)'
      BY <1>1 DEF IInv, CountersOK, Pending
    <3>2. CASE last[c] = 0
      <4>1. IntervalValue(c) = value[c]
        BY <3>2 DEF IntervalValue
      <4>2. logged[c] = 0
        BY <1>2, <3>2 DEF Due
      <4>3. Settled(c)'
        BY <1>1, <1>2, <3>1, <3>2, <4>1, <4>2 DEF Settled
      <4>4. QED
        BY <1>1, <1>2, <2>1, <3>1, <4>3 DEF Books
    <3>3. CASE last[c] # 0
      <4>1. IntervalValue(c) = delta[c]
        BY <3>3 DEF IntervalValue
      <4>2. logged'[c] = logged[c] + delta[c] /\ last'[c] = last[c] /\ value'[c] = value[c]
        BY <1>1, <3>1, <4>1
      <4>3. last[c] <= logged[c] + delta[c] /\ logged[c] + delta[c] <= 2 * last[c]
        BY <1>2 DEF Due
      <4>4. Settled(c)'
        BY <4>2, <4>3 DEF Settled
      <4>5. QED
        BY <1>1, <1>2, <2>1, <3>1, <4>4 DEF Books
    <3>4. QED
      BY <3>2, <3>3
  <2>2. CASE d # c
    <3>1. logged'[d] = logged[d] /\ (d \in left' <=> d \in left)
      BY <1>1, <2>2 DEF IInv, CountersOK
    <3>2. Books(d)
      BY DEF IInv
    <3>3. QED
      BY <1>1, <3>1, <3>2 DEF Books, Pending, Due, Settled
  <2>3. QED
    BY <2>1, <2>2
<1>6. QED
  BY <1>4, <1>5 DEF IInv

\* The steps that change no counter: what is pending stays so.
LEMMA OthersKeep ==
  ASSUME IInv, UNCHANGED counterVars, left' \subseteq Counters,
         \A c \in Counters : Pending(c)' <=> Pending(c)
  PROVE  IInv'
<1>1. UNCHANGED <<value, last, delta, logged>>
  BY DEF counterVars
<1>2. CountersOK'
  BY <1>1 DEF IInv, CountersOK
<1>3. \A c \in Counters : Books(c)'
  BY <1>1 DEF IInv, Books, Due, Settled
<1>4. QED
  BY <1>2, <1>3 DEF IInv

\* Every step of Metrics.Run keeps the books.
LEMMA RunKeeps ==
  ASSUME IInv, Run
  PROVE  IInv'
<1>1. left \subseteq Counters
  BY DEF IInv, CountersOK
<1>2. CASE RunServer \/ RunServed \/ RunEnded \/ RunSelect
  <2>1. UNCHANGED <<counterVars, left>>
    BY <1>2 DEF RunServer, RunServed, RunEnded, RunSelect
  <2>2. run \notin {"rotate", "write", "snapshot"} /\ run' \notin {"rotate", "write", "snapshot"}
    BY <1>2 DEF RunServer, RunServed, RunEnded, RunSelect, afterServer, enterSelect
  <2>3. QED
    BY <1>1, <2>1, <2>2, OthersKeep DEF Pending
<1>3. CASE RotateLock \/ RotateUnlock \/ SnapshotLock \/ WriteDone
  <2>1. UNCHANGED counterVars /\ left' \subseteq Counters
    BY <1>1, <1>3 DEF RotateLock, RotateUnlock, SnapshotLock, WriteDone
  <2>2. \A c \in Counters : Pending(c)' <=> Pending(c)
    BY <1>3 DEF RotateLock, RotateUnlock, SnapshotLock, WriteDone, enterSelect, Pending
  <2>3. QED
    BY <2>1, <2>2, OthersKeep
<1>4. QED
  BY <1>2, <1>3, RotateKeeps, SnapshotKeeps DEF Run

\* Every step keeps the books; scrapes and Shutdown touch neither the counters
\* nor the place of Metrics.Run.
LEMMA StepKeeps ==
  ASSUME IInv, [Next]_vars
  PROVE  IInv'
<1>1. left \subseteq Counters
  BY DEF IInv, CountersOK
<1>2. ASSUME NEW r \in Scrapes, ScrapeArrives(r) \/ Scrape(r)
      PROVE  UNCHANGED <<counterVars, run, left>>
  BY <1>2 DEF ScrapeArrives, Scrape, EachLock, EachUnlock, runVars
<1>3. CASE OtherStarts \/ Shutdown \/ UNCHANGED vars
  <2>1. UNCHANGED <<counterVars, run, left>>
    BY <1>3 DEF OtherStarts, Shutdown, ShutdownLock, ShutdownClose, ShutdownServer,
                ShutdownDrained, ShutdownUnlock, runVars, vars
  <2>2. QED
    BY <1>1, <2>1, OthersKeep DEF Pending
<1>4. ASSUME UNCHANGED <<counterVars, run, left>> PROVE IInv'
  BY <1>1, <1>4, OthersKeep DEF Pending
<1>5. QED
  BY <1>2, <1>3, <1>4, AddKeeps, RunKeeps DEF Next

\* Between two rounds of Metrics.Run, everything a rotation has consumed has
\* been logged, and nothing more than twice.
THEOREM LogIsRight == Spec => []LogAddsUp
<1>1. Init => IInv
  BY DEF Init, IInv, CountersOK, Books, Pending, Settled
<1>2. IInv /\ [Next]_vars => IInv'
  BY StepKeeps
<1>3. IInv => LogAddsUp
  BY DEF IInv, Books, Pending, Settled, LogAddsUp
<1>4. QED
  BY <1>1, <1>2, <1>3, PTL DEF Spec
-----------------------------------------------------------------------------
(* Types: the counters have theirs because an interval never ends before   *)
(* it starts (Books).                                                      *)

Places == {"boot", "serve", "ended", "select", "tick", "rotate", "write", "snapshot",
           "done", "failed"}

RestOK ==
  /\ config \in Configs /\ run \in Places
  /\ mu \in {"free", "run", "shutdown"} /\ readers \subseteq Scrapes \cup {"run"}
  /\ shutdownCh \in {"open", "closed", "nil"}
  /\ shutdown \in {"idle", "close", "nil", "server", "drain", "unlock", "done"}
  /\ scrape \in [Scrapes -> {"none", "counters", "gauges", "done"}]

FlagsOK == watching \in BOOLEAN /\ started \in BOOLEAN /\ stopped \in BOOLEAN /\ up \in BOOLEAN

\* Every step keeps the types of the variables that are not counters, ...
LEMMA RestKeeps ==
  ASSUME RestOK, [Next]_vars
  PROVE  RestOK'
<1> USE DEF RestOK
<1>1. ASSUME NEW c \in Counters, (\E n \in Increments : Add(c, n)) \/ Rotate(c) \/ Snapshot(c)
      PROVE  RestOK'
  BY <1>1 DEF Add, Rotate, Snapshot, runVars, lockVars, shutdownVars
<1>2. CASE RunServer \/ RunServed \/ RunEnded \/ RunSelect
  <2>1. run' \in Places
    BY <1>2 DEF RunServer, RunServed, RunEnded, RunSelect, afterServer, enterSelect, Places
  <2>2. UNCHANGED <<config, mu, readers, shutdownCh, shutdown, scrape>>
    BY <1>2 DEF RunServer, RunServed, RunEnded, RunSelect, lockVars, shutdownVars
  <2>3. QED
    BY <2>1, <2>2
<1>3. CASE RotateLock \/ RotateUnlock \/ SnapshotLock \/ WriteDone
  <2>1. run' \in Places /\ mu' \in {"free", "run", "shutdown"}
    BY <1>3 DEF RotateLock, RotateUnlock, SnapshotLock, WriteDone, muReleased, enterSelect, Places
  <2>2. readers' \subseteq Scrapes \cup {"run"}
    BY <1>3 DEF RotateLock, RotateUnlock, SnapshotLock, WriteDone
  <2>3. UNCHANGED <<config, shutdownCh, shutdown, scrape>>
    BY <1>3 DEF RotateLock, RotateUnlock, SnapshotLock, WriteDone, shutdownVars
  <2>4. QED
    BY <2>1, <2>2, <2>3
<1>4. ASSUME NEW r \in Scrapes, ScrapeArrives(r) \/ Scrape(r) PROVE RestOK'
  BY <1>4 DEF ScrapeArrives, Scrape, EachLock, EachUnlock, runVars, lockVars, shutdownVars
<1>5. CASE OtherStarts \/ Shutdown
  <2>1. UNCHANGED <<config, run, readers, scrape>>
    BY <1>5 DEF OtherStarts, Shutdown, ShutdownLock, ShutdownClose, ShutdownServer,
                ShutdownDrained, ShutdownUnlock, runVars, lockVars
  <2>2. mu' \in {mu, "free", "shutdown"} /\ shutdownCh' \in {shutdownCh, "closed", "nil"}
    BY <1>5 DEF OtherStarts, Shutdown, ShutdownLock, ShutdownClose, ShutdownServer,
                ShutdownDrained, ShutdownUnlock, lockVars, shutdownVars
  <2>3. shutdown' \in {"idle", "close", "nil", "server", "drain", "unlock", "done"}
    BY <1>5 DEF OtherStarts, Shutdown, ShutdownLock, ShutdownClose, ShutdownServer,
                ShutdownDrained, ShutdownUnlock, shutdownVars
  <2>4. QED
    BY <2>1, <2>2, <2>3
<1>6. CASE UNCHANGED vars
  BY <1>6 DEF vars, runVars, lockVars, shutdownVars
<1>7. QED
  BY <1>1, <1>2, <1>3, <1>4, <1>5, <1>6 DEF Next, Run

\* ... and the flags stay truth values.
LEMMA FlagsKeep ==
  ASSUME FlagsOK, [Next]_vars
  PROVE  FlagsOK'
<1> USE DEF FlagsOK
<1>1. CASE RunServer
  <2>1. watching' \in BOOLEAN
    BY <1>1 DEF RunServer, afterServer, enterSelect
  <2>2. started' \in BOOLEAN /\ up' \in BOOLEAN /\ stopped' = stopped
    BY <1>1 DEF RunServer
  <2>3. QED
    BY <2>1, <2>2
<1>2. CASE RunServed \/ RunEnded \/ RunSelect
  <2>1. watching' \in BOOLEAN
    BY <1>2 DEF RunServed, RunEnded, RunSelect, afterServer, enterSelect
  <2>2. UNCHANGED <<started, stopped, up>>
    BY <1>2 DEF RunServed, RunEnded, RunSelect, serverVars
  <2>3. QED
    BY <2>1, <2>2
<1>3. CASE RotateLock \/ RotateUnlock \/ SnapshotLock \/ WriteDone
  <2>1. watching' \in BOOLEAN
    BY <1>3 DEF RotateLock, RotateUnlock, SnapshotLock, WriteDone, enterSelect
  <2>2. UNCHANGED <<started, stopped, up>>
    BY <1>3 DEF RotateLock, RotateUnlock, SnapshotLock, WriteDone, serverVars
  <2>3. QED
    BY <2>1, <2>2
<1>4. CASE OtherStarts \/ ShutdownServer
  <2>1. watching' = watching
    BY <1>4 DEF OtherStarts, ShutdownServer, runVars
  <2>2. started' \in BOOLEAN /\ stopped' \in BOOLEAN /\ up' \in BOOLEAN
    BY <1>4 DEF OtherStarts, ShutdownServer
  <2>3. QED
    BY <2>1, <2>2
<1>5. ASSUME UNCHANGED <<watching, started, stopped, up>> PROVE FlagsOK'
  BY <1>5
<1>6. ASSUME NEW c \in Counters, (\E n \in Increments : Add(c, n)) \/ Rotate(c) \/ Snapshot(c)
      PROVE  FlagsOK'
  BY <1>5, <1>6 DEF Add, Rotate, Snapshot, runVars, serverVars
<1>7. ASSUME NEW r \in Scrapes, ScrapeArrives(r) \/ Scrape(r) PROVE FlagsOK'
  BY <1>5, <1>7 DEF ScrapeArrives, Scrape, EachLock, EachUnlock, runVars, serverVars
<1>8. CASE ShutdownLock \/ ShutdownClose \/ ShutdownDrained \/ ShutdownUnlock \/ UNCHANGED vars
  BY <1>5, <1>8 DEF ShutdownLock, ShutdownClose, ShutdownDrained, ShutdownUnlock, vars,
                    runVars, serverVars
<1>9. QED
  BY <1>1, <1>2, <1>3, <1>4, <1>6, <1>7, <1>8 DEF Next, Run, Shutdown

\* The registry's words, lock and goroutines hold values of their types: no
\* interval has a negative length.
THEOREM TypeCorrect == Spec => []TypeOK
<1>1. Init => IInv /\ RestOK /\ FlagsOK
  <2>1. Init => IInv
    BY DEF Init, IInv, CountersOK, Books, Pending, Settled
  <2>2. Init => RestOK
    BY DEF Init, RestOK, Places
  <2>3. Init => FlagsOK
    BY DEF Init, FlagsOK
  <2>4. QED
    BY <2>1, <2>2, <2>3
<1>2. IInv /\ RestOK /\ FlagsOK /\ [Next]_vars => (IInv /\ RestOK /\ FlagsOK)'
  BY StepKeeps, RestKeeps, FlagsKeep
<1>3. IInv /\ RestOK /\ FlagsOK => TypeOK
  BY DEF IInv, CountersOK, RestOK, FlagsOK, Places, TypeOK
<1>4. QED
  BY <1>1, <1>2, <1>3, PTL DEF Spec
=============================================================================
