------------------------------- MODULE GoPool -------------------------------
(***************************************************************************)
(* The goroutine pool (utils/gopool.go): the channels sem and work, the    *)
(* select of schedule, and workers that end after a number of tasks.       *)
(***************************************************************************)
EXTENDS Naturals, Sequences, FiniteSets

CONSTANTS
  Tasks,       \* the functions passed to Schedule and ScheduleTimeout
  Impatient,   \* those passed to ScheduleTimeout
  Ids,         \* goroutines that may become workers
  Size,        \* cap(p.sem)
  Threshold,   \* workerRespawnThreshold, 1 << 16 in the code
  NoTask

spawn == IF Size \div 5 = 0 THEN 1 ELSE IF Size \div 5 > 1024 THEN 1024 ELSE Size \div 5
queue == IF Size \div 2 = 0 THEN 1 ELSE Size \div 2

ASSUME PoolAssumption ==
  /\ Size \in Nat \ {0} /\ Threshold \in Nat \ {0, 1}
  /\ Impatient \subseteq Tasks /\ NoTask \notin Tasks
  /\ IsFiniteSet(Ids) /\ Cardinality(Ids) >= Size

VARIABLES
  sem,      \* len(p.sem)
  work,     \* p.work
  pc,       \* per goroutine: "none", "start", "loop", "run" or "exit"
  task,     \* per goroutine: its task
  counter,  \* per goroutine: its counter
  asked,    \* tasks passed to schedule
  refused,  \* tasks whose ScheduleTimeout has returned ErrScheduleTimeout
  ran       \* history: how often each task has been run to its end

vars == <<sem, work, pc, task, counter, asked, refused, ran>>

\* NewGoPool starts spawn workers with an empty function.
Init ==
  /\ sem = spawn /\ work = <<>>
  /\ \E W \in SUBSET Ids :
       /\ Cardinality(W) = spawn
       /\ pc = [w \in Ids |-> IF w \in W THEN "loop" ELSE "none"]
  /\ task = [w \in Ids |-> NoTask]
  /\ counter = [w \in Ids |-> 1]
  /\ asked = {} /\ refused = {}
  /\ ran = [t \in Tasks |-> 0]

-----------------------------------------------------------------------------
(* schedule: one action per case of its select.                            *)

\* Room in p.work.
\* Mutation: the channel is as long as the pool is large.
roomForSize == Len(work) < queue + Size
roomInWork == Len(work) < queue

ScheduleWork(t) ==
  /\ t \notin asked /\ roomInWork
  /\ asked' = asked \cup {t}
  /\ work' = Append(work, t)
  /\ UNCHANGED <<sem, pc, task, counter, refused, ran>>

ScheduleSpawn(t) ==
  /\ t \notin asked /\ sem < Size
  /\ asked' = asked \cup {t}
  /\ sem' = sem + 1
  /\ \E w \in Ids :
       /\ pc[w] = "none"
       /\ pc' = [pc EXCEPT ![w] = "start"]
       /\ task' = [task EXCEPT ![w] = t]
       /\ counter' = [counter EXCEPT ![w] = 1]
  /\ UNCHANGED <<work, refused, ran>>

ScheduleTimedOut(t) ==
  /\ t \in Impatient /\ t \notin asked
  /\ asked' = asked \cup {t}
  /\ refused' = refused \cup {t}
  /\ UNCHANGED <<sem, work, pc, task, counter, ran>>

-----------------------------------------------------------------------------
(* worker. *)

Start(w) ==
  /\ pc[w] = "start"
  /\ pc' = [pc EXCEPT ![w] = "run"]
  /\ UNCHANGED <<sem, work, task, counter, asked, refused, ran>>

\* p.work without the task received from it.
workTaken == Tail(work)

\* Mutation: the threshold is tested before the task is run, not after it.
TakeUnlessDue(w) ==
  /\ pc[w] = "loop" /\ work # <<>>
  /\ work' = workTaken
  /\ counter' = [counter EXCEPT ![w] = @ + 1]
  /\ IF counter'[w] >= Threshold
     THEN pc' = [pc EXCEPT ![w] = "exit"] /\ UNCHANGED task
     ELSE pc' = [pc EXCEPT ![w] = "run"] /\ task' = [task EXCEPT ![w] = Head(work)]
  /\ UNCHANGED <<sem, asked, refused, ran>>

\* The next task of range p.work.
Take(w) ==
  /\ pc[w] = "loop" /\ work # <<>>
  /\ pc' = [pc EXCEPT ![w] = "run"]
  /\ task' = [task EXCEPT ![w] = Head(work)]
  /\ work' = workTaken
  /\ counter' = [counter EXCEPT ![w] = @ + 1]
  /\ UNCHANGED <<sem, asked, refused, ran>>

\* Whether a worker whose task has returned ends. The task it was started with
\* is not followed by the test.
thresholdReached(w) == counter[w] >= Threshold

Return(w) ==
  /\ pc[w] = "run"
  /\ ran' = [ran EXCEPT ![task[w]] = @ + 1]
  /\ task' = [task EXCEPT ![w] = NoTask]
  /\ pc' = [pc EXCEPT ![w] = IF thresholdReached(w) THEN "exit" ELSE "loop"]
  /\ UNCHANGED <<sem, work, counter, asked, refused>>

\* Mutation: a worker that ends does not give up its place.
ExitKeepsPlace(w) ==
  /\ pc[w] = "exit"
  /\ pc' = [pc EXCEPT ![w] = "none"]
  /\ UNCHANGED <<sem, work, task, counter, asked, refused, ran>>

\* The deferred <-p.sem.
Exit(w) ==
  /\ pc[w] = "exit"
  /\ pc' = [pc EXCEPT ![w] = "none"]
  /\ sem' = sem - 1
  /\ UNCHANGED <<work, task, counter, asked, refused, ran>>

-----------------------------------------------------------------------------
Schedule(t) == ScheduleWork(t) \/ ScheduleSpawn(t) \/ ScheduleTimedOut(t)
Worker(w) == Start(w) \/ Take(w) \/ Return(w) \/ Exit(w)

Next == (\E t \in Tasks : Schedule(t)) \/ (\E w \in Ids : Worker(w))

Spec == Init /\ [][Next]_vars

\* Workers are scheduled and tasks return; nobody is obliged to schedule more.
Fairness == \A w \in Ids : WF_vars(Worker(w))

FairSpec == Spec /\ Fairness

-----------------------------------------------------------------------------
(* Properties. *)

\* The pool's channels stay within their capacities and its goroutines hold
\* values of their types; sem counts the workers that have not ended.
TypeOK ==
  /\ sem = Cardinality({w \in Ids : pc[w] # "none"}) /\ sem <= Size
  /\ work \in Seq(Tasks) /\ Len(work) <= queue
  /\ pc \in [Ids -> {"none", "start", "loop", "run", "exit"}]
  /\ task \in [Ids -> Tasks \cup {NoTask}] /\ counter \in [Ids -> 1..Threshold]
  /\ asked \subseteq Tasks /\ refused \subseteq asked
  /\ ran \in [Tasks -> Nat]

stage(t) ==
  IF t \in refused THEN "refused"
  ELSE IF t \notin asked THEN "new"
  ELSE IF ran[t] > 0 THEN "done"
  ELSE IF \E w \in Ids : pc[w] = "run" /\ task[w] = t THEN "running"
  ELSE "pooled"

Pool == INSTANCE TaskPool WITH at <- [t \in Tasks |-> stage(t)], Workers <- Size, Queue <- queue

\* The pool runs each accepted task at most once, at most Size at a time, and
\* accepts no more than its workers and its queue can hold, whatever cases the
\* selects take and however its workers end and are replaced.
PoolSpec == Pool!Spec

\* No accepted task is dropped or run twice: it waits in p.work, is with one
\* worker, or has run once.
TasksAccounted ==
  \A t \in asked \ refused :
    ran[t] + Cardinality({i \in DOMAIN work : work[i] = t})
      + Cardinality({w \in Ids : task[w] = t}) = 1

\* Schedule schedules a task to be executed: once accepted it is run, unless
\* every worker has ended, having reached its threshold, while it was queued.
AcceptedTaskRuns == \A t \in Tasks : (t \in asked \ refused) ~> (ran[t] = 1 \/ sem = 0)

=============================================================================
