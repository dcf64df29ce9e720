---------------------------- MODULE GoPoolProofs ----------------------------
(* Theorems about the goroutine pool, for any tasks, any size and any      *)
(* respawn threshold: it keeps its types, and it implements TaskPool.      *)
EXTENDS GoPool, FiniteSetTheorems, SequenceTheorems, TLAPS

-----------------------------------------------------------------------------
(* The places of tasks. *)

Alive == {w \in Ids : pc[w] # "none"}

Types ==
  /\ work \in Seq(Tasks) /\ Len(work) <= queue
  /\ pc \in [Ids -> {"none", "start", "loop", "run", "exit"}]
  /\ task \in [Ids -> Tasks \cup {NoTask}]
  /\ asked \subseteq Tasks /\ refused \subseteq asked
  /\ ran \in [Tasks -> Nat]

\* A task has one place: it is not accepted, in p.work, with one worker, or done.
Places ==
  /\ \A w \in Ids : (pc[w] \in {"start", "run"}) <=> (task[w] # NoTask)
  /\ \A w \in Ids : task[w] # NoTask => task[w] \in asked \ refused /\ ran[task[w]] = 0
  /\ \A i \in 1..Len(work) : work[i] \in asked \ refused /\ ran[work[i]] = 0
  /\ \A w1, w2 \in Ids : task[w1] = task[w2] /\ task[w1] # NoTask => w1 = w2
  /\ \A w \in Ids : \A i \in 1..Len(work) : task[w] # work[i]
  /\ \A i, j \in 1..Len(work) : work[i] = work[j] => i = j
  /\ \A t \in Tasks \ (asked \ refused) : ran[t] = 0

\* A worker that goes on has not reached the threshold.
Counting ==
  /\ counter \in [Ids -> 1..Threshold]
  /\ \A w \in Ids : pc[w] = "loop" => counter[w] < Threshold

Semaphore == sem = Cardinality(Alive) /\ sem <= Size

PoolInv == Types /\ Places /\ Counting /\ Semaphore

\* The capacities of the channels.
LEMMA Capacities == queue \in Nat \ {0} /\ spawn \in 1..Size
  BY PoolAssumption, SMTT(30) DEF queue, spawn

\* The pool starts with its first workers idle.
LEMMA PoolInit == Init => PoolInv
<1> SUFFICES ASSUME Init PROVE PoolInv
  OBVIOUS
<1>1. PICK W \in SUBSET Ids : /\ Cardinality(W) = spawn
                              /\ pc = [w \in Ids |-> IF w \in W THEN "loop" ELSE "none"]
  BY DEF Init
<1>2. work = <<>> /\ Len(work) = 0 /\ work \in Seq(Tasks)
  BY DEF Init
<1>3. Types
  BY <1>1, <1>2, Capacities DEF Init, Types
<1>4. \A w \in Ids : pc[w] \in {"loop", "none"} /\ task[w] = NoTask
  BY <1>1 DEF Init
<1>5. 1..Len(work) = {}
  BY <1>2
<1>6. Places
  BY <1>4, <1>5 DEF Init, Places
<1>7. Counting
  BY <1>1, PoolAssumption DEF Init, Counting
<1>8. Alive = W
  BY <1>1 DEF Alive
<1>9. Semaphore
  BY <1>1, <1>8, Capacities, PoolAssumption DEF Init, Semaphore
<1>10. QED
  BY <1>3, <1>6, <1>7, <1>9 DEF PoolInv

\* A task that has not been passed to schedule is nowhere.
LEMMA NewIsNowhere ==
  ASSUME Types, Places, NEW t \in Tasks, t \notin asked
  PROVE  /\ ran[t] = 0
         /\ \A w \in Ids : task[w] # t
         /\ \A i \in 1..Len(work) : work[i] # t
BY PoolAssumption DEF Types, Places

\* schedule finds one place for a new task.
LEMMA ScheduleKeeps ==
  ASSUME PoolInv, NEW t \in Tasks, Schedule(t)
  PROVE  Types' /\ Places' /\ Counting'
<1> USE DEF PoolInv
<1>1. t \notin asked
  BY DEF Schedule, ScheduleWork, ScheduleSpawn, ScheduleTimedOut
<1>2. /\ ran[t] = 0 /\ t # NoTask
      /\ \A w \in Ids : task[w] # t
      /\ \A i \in 1..Len(work) : work[i] # t
  BY <1>1, NewIsNowhere, PoolAssumption
<1>3. CASE ScheduleWork(t)
  <2>1. /\ asked' = asked \cup {t} /\ work' = Append(work, t) /\ Len(work) < queue
        /\ UNCHANGED <<sem, pc, task, counter, refused, ran>>
    BY <1>3 DEF ScheduleWork, roomInWork
  <2>2. /\ work' \in Seq(Tasks) /\ Len(work') = Len(work) + 1 /\ Len(work) \in Nat
        /\ \A i \in 1..Len(work) : work'[i] = work[i]
        /\ work'[Len(work) + 1] = t
    BY <2>1, AppendProperties DEF Types
  <2>3. Types'
    BY <2>1, <2>2, Capacities DEF Types, queue
  <2>4. \A i \in 1..Len(work') : (i \in 1..Len(work) /\ work'[i] = work[i])
                                \/ (i = Len(work) + 1 /\ work'[i] = t)
    BY <2>2
  <2>5. Places'
    <3>1. \A i \in 1..Len(work') : work'[i] \in asked' \ refused' /\ ran'[work'[i]] = 0
      BY <1>1, <1>2, <2>1, <2>4 DEF Places, Types
    <3>2. \A w \in Ids : \A i \in 1..Len(work') : task'[w] # work'[i]
      BY <1>2, <2>1, <2>4 DEF Places
    <3>3. \A i, j \in 1..Len(work') : work'[i] = work'[j] => i = j
      BY <1>2, <2>4 DEF Places
    <3>4. QED
      BY <2>1, <3>1, <3>2, <3>3 DEF Places, Types
  <2>6. QED
    BY <2>1, <2>3, <2>5 DEF Counting
<1>4. CASE ScheduleSpawn(t)
  <2>1. PICK v \in Ids : /\ pc[v] = "none"
                         /\ pc' = [pc EXCEPT ![v] = "start"]
                         /\ task' = [task EXCEPT ![v] = t]
                         /\ counter' = [counter EXCEPT ![v] = 1]
    BY <1>4 DEF ScheduleSpawn
  <2>2. asked' = asked \cup {t} /\ UNCHANGED <<work, refused, ran>>
    BY <1>4 DEF ScheduleSpawn
  <2>3. Types'
    BY <2>1, <2>2 DEF Types
  <2>4. \A w \in Ids : IF w = v THEN task'[w] = t /\ pc'[w] = "start"
                                ELSE task'[w] = task[w] /\ pc'[w] = pc[w]
    BY <2>1 DEF Types
  <2>5. Places'
    BY <1>1, <1>2, <2>2, <2>4 DEF Places, Types
  <2>6. Counting'
    BY <2>1, <2>4, PoolAssumption DEF Counting, Types
  <2>7. QED
    BY <2>3, <2>5, <2>6
<1>5. CASE ScheduleTimedOut(t)
  <2>1. /\ asked' = asked \cup {t} /\ refused' = refused \cup {t}
        /\ UNCHANGED <<sem, work, pc, task, counter, ran>>
    BY <1>5 DEF ScheduleTimedOut
  <2>2. Types'
    BY <2>1 DEF Types
  <2>3. asked' \ refused' = asked \ refused
    BY <1>1, <2>1 DEF Types
  <2>4. Places' /\ Counting'
    BY <2>1, <2>3 DEF Places, Counting
  <2>5. QED
    BY <2>2, <2>4
<1>6. QED
  BY <1>3, <1>4, <1>5 DEF Schedule

\* A worker takes its task from the one place it had.
LEMMA WorkerKeeps ==
  ASSUME PoolInv, NEW v \in Ids, Worker(v)
  PROVE  Types' /\ Places' /\ Counting'
<1> USE DEF PoolInv
<1>1. CASE Start(v) \/ Exit(v)
  <2>1. /\ UNCHANGED <<work, task, counter, asked, refused, ran>>
        /\ \/ pc[v] = "start" /\ pc' = [pc EXCEPT ![v] = "run"]
           \/ pc[v] = "exit" /\ pc' = [pc EXCEPT ![v] = "none"]
    BY <1>1 DEF Start, Exit
  <2>2. \A w \in Ids : w # v => pc'[w] = pc[w]
    BY <2>1 DEF Types
  <2>3. (pc'[v] \in {"start", "run"}) <=> (pc[v] \in {"start", "run"})
    BY <2>1 DEF Types
  <2>4. pc'[v] # "loop"
    BY <2>1 DEF Types
  <2>5. Types'
    BY <2>1 DEF Types
  <2>6. Places'
    BY <2>1, <2>2, <2>3 DEF Places
  <2>7. Counting'
    BY <2>1, <2>2, <2>4 DEF Counting
  <2>8. QED
    BY <2>5, <2>6, <2>7
<1>2. CASE Take(v)
  <2>1. /\ pc[v] = "loop" /\ work # <<>> /\ pc' = [pc EXCEPT ![v] = "run"]
        /\ task' = [task EXCEPT ![v] = Head(work)] /\ work' = Tail(work)
        /\ counter' = [counter EXCEPT ![v] = @ + 1]
        /\ UNCHANGED <<asked, refused, ran>>
    BY <1>2 DEF Take, workTaken
  <2>2. /\ Head(work) = work[1] /\ work[1] \in Tasks /\ work[1] # NoTask
        /\ Len(work) \in Nat \ {0}
    BY <2>1, HeadTailProperties, PoolAssumption DEF Types
  <2>3. /\ work' \in Seq(Tasks) /\ Len(work') = Len(work) - 1
        /\ \A i \in 1..Len(work') : i + 1 \in 1..Len(work) /\ work'[i] = work[i + 1] /\ i + 1 # 1
    BY <2>1, <2>2, HeadTailProperties DEF Types
  <2>4. \A w \in Ids : IF w = v THEN task'[w] = work[1] /\ pc'[w] = "run"
                                 ELSE task'[w] = task[w] /\ pc'[w] = pc[w]
    BY <2>1, <2>2 DEF Types
  <2>5. Types'
    BY <2>1, <2>2, <2>3, Capacities DEF Types, queue
  <2>6. 1 \in 1..Len(work) /\ \A w \in Ids : task[w] # work[1]
    BY <2>2 DEF Places
  <2>7. Places'
    <3>1. \A i \in 1..Len(work') : work'[i] \in asked' \ refused' /\ ran'[work'[i]] = 0
      BY <2>1, <2>3 DEF Places
    <3>2. \A w \in Ids : \A i \in 1..Len(work') : task'[w] # work'[i]
      BY <2>3, <2>4, <2>6 DEF Places
    <3>3. \A i, j \in 1..Len(work') : work'[i] = work'[j] => i = j
      BY <2>3 DEF Places
    <3>4. \A w \in Ids : task'[w] # NoTask => task'[w] \in asked' \ refused' /\ ran'[task'[w]] = 0
      BY <2>1, <2>4, <2>6 DEF Places
    <3>5. \A w1, w2 \in Ids : task'[w1] = task'[w2] /\ task'[w1] # NoTask => w1 = w2
      BY <2>4, <2>6 DEF Places
    <3>6. QED
      BY <2>1, <2>2, <2>4, <3>1, <3>2, <3>3, <3>4, <3>5 DEF Places
  <2>8. Counting'
    BY <2>1, <2>4, PoolAssumption DEF Counting, Types
  <2>9. QED
    BY <2>5, <2>7, <2>8
<1>3. CASE Return(v)
  <2>1. /\ pc[v] = "run" /\ ran' = [ran EXCEPT ![task[v]] = @ + 1]
        /\ task' = [task EXCEPT ![v] = NoTask]
        /\ pc' = [pc EXCEPT ![v] = IF counter[v] >= Threshold THEN "exit" ELSE "loop"]
        /\ UNCHANGED <<work, counter, asked, refused>>
    BY <1>3 DEF Return, thresholdReached
  <2>2. task[v] # NoTask /\ task[v] \in Tasks /\ task[v] \in asked \ refused
    BY <2>1 DEF Places, Types
  <2>3. \A t \in Tasks : t # task[v] => ran'[t] = ran[t]
    BY <2>1 DEF Types
  <2>4. \A w \in Ids : IF w = v THEN task'[w] = NoTask /\ pc'[w] \in {"exit", "loop"}
                                 ELSE task'[w] = task[w] /\ pc'[w] = pc[w]
    BY <2>1 DEF Types
  <2>5. Types'
    BY <2>1, <2>2 DEF Types
  <2>6. Places'
    <3>1. \A i \in 1..Len(work') : work'[i] \in asked' \ refused' /\ ran'[work'[i]] = 0
      BY <2>1, <2>3 DEF Places, Types
    <3>2. \A w \in Ids : task'[w] # NoTask => task'[w] \in asked' \ refused' /\ ran'[task'[w]] = 0
      BY <2>1, <2>2, <2>3, <2>4 DEF Places, Types
    <3>3. \A w \in Ids : \A i \in 1..Len(work') : task'[w] # work'[i]
      BY <2>1, <2>4, PoolAssumption DEF Places, Types
    <3>4. \A t \in Tasks \ (asked' \ refused') : ran'[t] = 0
      BY <2>1, <2>2, <2>3 DEF Places
    <3>5. QED
      BY <2>1, <2>4, <3>1, <3>2, <3>3, <3>4 DEF Places
  <2>7. Counting'
    BY <2>1, <2>4, PoolAssumption DEF Counting, Types
  <2>8. QED
    BY <2>5, <2>6, <2>7
<1>4. QED
  BY <1>1, <1>2, <1>3 DEF Worker

\* p.sem counts the workers: a new one is started only if there is room, and
\* every one gives its place back.
LEMMA SemaphoreKeeps ==
  ASSUME PoolInv, [Next]_vars
  PROVE  Semaphore'
<1> USE DEF PoolInv
<1>1. IsFiniteSet(Alive) /\ Cardinality(Alive) \in Nat /\ Size \in Nat
  <2>1. IsFiniteSet(Alive)
    BY PoolAssumption, FS_Subset DEF Alive
  <2>2. QED
    BY <2>1, FS_CardinalityType, PoolAssumption
<1>2. ASSUME NEW t \in Tasks, ScheduleSpawn(t) PROVE Semaphore'
  <2>1. PICK v \in Ids : pc[v] = "none" /\ pc' = [pc EXCEPT ![v] = "start"]
    BY <1>2 DEF ScheduleSpawn
  <2>2. Alive' = Alive \cup {v} /\ v \notin Alive
    BY <2>1 DEF Alive, Types
  <2>3. Cardinality(Alive') = Cardinality(Alive) + 1
    BY <1>1, <2>2, FS_AddElement
  <2>4. sem' = sem + 1 /\ sem < Size
    BY <1>2 DEF ScheduleSpawn
  <2>5. QED
    BY <1>1, <2>3, <2>4 DEF Semaphore
<1>3. ASSUME NEW v \in Ids, Exit(v) PROVE Semaphore'
  <2>1. pc[v] = "exit" /\ pc' = [pc EXCEPT ![v] = "none"] /\ sem' = sem - 1
    BY <1>3 DEF Exit
  <2>2. Alive' = Alive \ {v} /\ v \in Alive
    BY <2>1 DEF Alive, Types
  <2>3. Cardinality(Alive') = Cardinality(Alive) - 1
    BY <1>1, <2>2, FS_RemoveElement
  <2>4. QED
    BY <1>1, <2>1, <2>3 DEF Semaphore
<1>4. ASSUME NEW v \in Ids, Start(v) \/ Take(v) \/ Return(v) PROVE Semaphore'
  <2>1. pc[v] # "none" /\ pc'[v] # "none" /\ UNCHANGED sem
    BY <1>4 DEF Start, Take, Return, Types
  <2>2. \A w \in Ids : w # v => pc'[w] = pc[w]
    BY <1>4 DEF Start, Take, Return, Types
  <2>3. Alive' = Alive
    BY <2>1, <2>2 DEF Alive
  <2>4. QED
    BY <2>1, <2>3 DEF Semaphore
<1>5. ASSUME UNCHANGED <<sem, pc>> PROVE Semaphore'
  BY <1>5 DEF Semaphore, Alive
<1>6. QED
  BY <1>2, <1>3, <1>4, <1>5
     DEF Next, Schedule, Worker, ScheduleWork, ScheduleTimedOut, vars

\* PoolInv is inductive.
LEMMA PoolKeeps ==
  ASSUME PoolInv, [Next]_vars
  PROVE  PoolInv'
<1>1. CASE Next
  BY <1>1, ScheduleKeeps, WorkerKeeps, SemaphoreKeeps DEF Next, PoolInv
<1>2. CASE UNCHANGED vars
  BY <1>2, SemaphoreKeeps DEF vars, PoolInv, Types, Places, Counting
<1>3. QED
  BY <1>1, <1>2

\* It holds of every reachable state.
LEMMA PoolInvariant == Spec => []PoolInv
<1>1. QED
  BY PoolInit, PoolKeeps, PTL DEF Spec

\* The pool's channels stay within their capacities, sem counts the workers,
\* and no worker goes beyond its threshold.
THEOREM TypeCorrect == Spec => []TypeOK
<1>1. PoolInv => TypeOK
  BY DEF PoolInv, Types, Counting, Semaphore, Alive, TypeOK
<1>2. QED
  BY <1>1, PoolInvariant, PTL

-----------------------------------------------------------------------------
(* The pool implements TaskPool. *)

\* No accepted task is dropped.
Kept ==
  \A t \in asked \ refused :
    \/ ran[t] > 0
    \/ \E i \in 1..Len(work) : work[i] = t
    \/ \E w \in Ids : task[w] = t

\* Each step moves a task from one place to the next.
LEMMA KeptKeeps ==
  ASSUME PoolInv, Kept, [Next]_vars
  PROVE  Kept'
<1> USE DEF PoolInv
<1>1. ASSUME NEW t \in Tasks, ScheduleWork(t) PROVE Kept'
  <2>1. /\ asked' = asked \cup {t} /\ work' = Append(work, t)
        /\ UNCHANGED <<task, refused, ran>>
    BY <1>1 DEF ScheduleWork
  <2>2. /\ Len(work') = Len(work) + 1 /\ Len(work) \in Nat
        /\ \A i \in 1..Len(work) : work'[i] = work[i] /\ i \in 1..Len(work')
        /\ work'[Len(work) + 1] = t /\ Len(work) + 1 \in 1..Len(work')
    BY <2>1, AppendProperties DEF Types
  <2>3. QED
    BY <2>1, <2>2 DEF Kept
<1>2. ASSUME NEW t \in Tasks, ScheduleSpawn(t) PROVE Kept'
  <2>1. PICK v \in Ids : pc[v] = "none" /\ task' = [task EXCEPT ![v] = t]
    BY <1>2 DEF ScheduleSpawn
  <2>2. asked' = asked \cup {t} /\ UNCHANGED <<work, refused, ran>>
    BY <1>2 DEF ScheduleSpawn
  <2>3. task[v] = NoTask /\ task'[v] = t /\ \A w \in Ids : w # v => task'[w] = task[w]
    BY <2>1 DEF Places, Types
  <2>4. SUFFICES ASSUME NEW u \in asked' \ refused'
                 PROVE  \/ ran'[u] > 0
                        \/ \E i \in 1..Len(work') : work'[i] = u
                        \/ \E w \in Ids : task'[w] = u
    BY DEF Kept
  <2>5. CASE u = t
    BY <2>1, <2>3, <2>5
  <2>6. CASE u # t
    <3>1. u \in asked \ refused /\ u # NoTask
      BY <2>2, <2>6, PoolAssumption DEF Types
    <3>2. CASE \E w \in Ids : task[w] = u
      BY <2>3, <3>1, <3>2
    <3>3. QED
      BY <2>2, <3>1, <3>2 DEF Kept
  <2>7. QED
    BY <2>5, <2>6
<1>3. ASSUME NEW t \in Tasks, ScheduleTimedOut(t) PROVE Kept'
  BY <1>3 DEF ScheduleTimedOut, Kept
<1>4. ASSUME NEW v \in Ids, Take(v) PROVE Kept'
  <2>1. /\ pc[v] = "loop" /\ work # <<>>
        /\ task' = [task EXCEPT ![v] = Head(work)] /\ work' = Tail(work)
        /\ UNCHANGED <<asked, refused, ran>>
    BY <1>4 DEF Take, workTaken
  <2>2. /\ Head(work) = work[1] /\ Len(work) \in Nat \ {0} /\ Len(work') = Len(work) - 1
        /\ \A i \in 1..Len(work') : work'[i] = work[i + 1]
    BY <2>1, HeadTailProperties DEF Types
  <2>3. \A i \in 1..Len(work) : i = 1 \/ (i - 1 \in 1..Len(work') /\ work'[i - 1] = work[i])
    BY <2>2
  <2>4. task[v] = NoTask /\ task'[v] = work[1] /\ \A w \in Ids : w # v => task'[w] = task[w]
    BY <2>1, <2>2 DEF Places, Types
  <2>5. SUFFICES ASSUME NEW t \in asked \ refused
                 PROVE  \/ ran[t] > 0
                        \/ \E i \in 1..Len(work') : work'[i] = t
                        \/ \E w \in Ids : task'[w] = t
    BY <2>1 DEF Kept
  <2>6. CASE \E i \in 1..Len(work) : work[i] = t
    BY <2>3, <2>4, <2>6
  <2>7. CASE \E w \in Ids : task[w] = t
    BY <2>4, <2>7, PoolAssumption DEF Types
  <2>8. QED
    BY <2>6, <2>7 DEF Kept
<1>5. ASSUME NEW v \in Ids, Return(v) PROVE Kept'
  <2>1. /\ ran' = [ran EXCEPT ![task[v]] = @ + 1] /\ task' = [task EXCEPT ![v] = NoTask]
        /\ pc[v] = "run" /\ UNCHANGED <<work, asked, refused>>
    BY <1>5 DEF Return
  <2>2. task[v] \in Tasks
    BY <2>1 DEF Places, Types
  <2>3. ran'[task[v]] > 0 /\ \A t \in Tasks : ran'[t] = ran[t] \/ t = task[v]
    BY <2>1, <2>2 DEF Types
  <2>4. \A w \in Ids : w # v => task'[w] = task[w]
    BY <2>1 DEF Types
  <2>5. QED
    BY <2>1, <2>3, <2>4 DEF Kept, Types
<1>6. ASSUME UNCHANGED <<work, task, asked, refused, ran>> PROVE Kept'
  BY <1>6 DEF Kept
<1>7. QED
  BY <1>1, <1>2, <1>3, <1>4, <1>5, <1>6 DEF Next, Schedule, Worker, Start, Exit, vars

ImplInv == PoolInv /\ Kept

At == [t \in Tasks |-> stage(t)]

Waiting == {t \in Tasks : \E i \in 1..Len(work) : work[i] = t}
Held == {t \in Tasks : \E w \in Ids : task[w] = t}
Holders == {w \in Ids : task[w] # NoTask}
Runners == {w \in Ids : pc[w] = "run"}

Running(t) == \E w \in Ids : pc[w] = "run" /\ task[w] = t

\* The cases of stage exclude each other.
LEMMA StageIs ==
  ASSUME PoolInv, NEW t \in Tasks
  PROVE  /\ t \in refused => stage(t) = "refused"
         /\ t \notin asked => stage(t) = "new"
         /\ t \in asked \ refused =>
              \/ ran[t] > 0 /\ stage(t) = "done"
              \/ ran[t] = 0 /\ Running(t) /\ stage(t) = "running"
              \/ ran[t] = 0 /\ ~Running(t) /\ stage(t) = "pooled"
BY DEF PoolInv, Types, stage, Running

\* The tasks that wait in p.work and those with workers are no more than its
\* length and the number of workers.
LEMMA PlacesBound ==
  ASSUME ImplInv
  PROVE  /\ IsFiniteSet(Pool!In({"pooled", "running"}))
         /\ Cardinality(Pool!In({"pooled", "running"})) <= Len(work) + sem
<1> USE DEF ImplInv, PoolInv
<1>1. IsFiniteSet(Waiting) /\ Cardinality(Waiting) <= Len(work)
  <2> DEFINE f == [i \in 1..Len(work) |-> work[i]]
  <2>1. Len(work) \in Nat /\ \A i \in 1..Len(work) : work[i] \in Tasks
    BY DEF Types
  <2>2. f \in Surjection(1..Len(work), Waiting)
    BY <2>1 DEF Surjection, Waiting
  <2>3. IsFiniteSet(1..Len(work)) /\ Cardinality(1..Len(work)) = Len(work)
    <3>1. \A a, b \in Int : /\ IsFiniteSet(a..b)
                            /\ Cardinality(a..b) = IF a > b THEN 0 ELSE b - a + 1
      BY FS_Interval
    <3>2. /\ IsFiniteSet(1..Len(work))
          /\ Cardinality(1..Len(work)) = IF 1 > Len(work) THEN 0 ELSE Len(work) - 1 + 1
      BY <2>1, <3>1, SMTT(30)
    <3>3. QED
      BY <2>1, <3>2
  <2>4. QED
    BY <2>2, <2>3, FS_Surjection
<1>2. IsFiniteSet(Held) /\ Cardinality(Held) <= sem
  <2> DEFINE f == [w \in Holders |-> task[w]]
  <2>1. f \in Surjection(Holders, Held)
    BY PoolAssumption DEF Surjection, Holders, Held, Types
  <2>2. Holders \subseteq Alive
    BY DEF Holders, Alive, Places, Types
  <2>3. IsFiniteSet(Alive)
    BY PoolAssumption, FS_Subset DEF Alive
  <2>4. IsFiniteSet(Holders) /\ Cardinality(Holders) <= Cardinality(Alive)
    BY <2>2, <2>3, FS_Subset
  <2>5. IsFiniteSet(Held) /\ Cardinality(Held) <= Cardinality(Holders)
    BY <2>1, <2>4, FS_Surjection
  <2>6. QED
    BY <2>3, <2>4, <2>5, FS_CardinalityType DEF Semaphore
<1>3. Pool!In({"pooled", "running"}) \subseteq Waiting \cup Held
  <2>1. SUFFICES ASSUME NEW t \in Tasks, stage(t) \in {"pooled", "running"}
                 PROVE  t \in Waiting \cup Held
    BY DEF Pool!In
  <2>2. t \in asked \ refused /\ ~(ran[t] > 0)
    BY <2>1, StageIs DEF Types
  <2>3. QED
    BY <2>2 DEF Kept, Waiting, Held
<1>4. /\ IsFiniteSet(Waiting \cup Held)
      /\ Cardinality(Waiting \cup Held) <= Len(work) + sem
  <2>1. IsFiniteSet(Waiting \cap Held)
    BY <1>1, FS_Subset
  <2>2. {Cardinality(Waiting), Cardinality(Held), Cardinality(Waiting \cap Held)} \subseteq Nat
    BY <1>1, <1>2, <2>1, FS_CardinalityType
  <2>3. /\ IsFiniteSet(Waiting \cup Held)
        /\ Cardinality(Waiting \cup Held)
             = Cardinality(Waiting) + Cardinality(Held) - Cardinality(Waiting \cap Held)
    BY <1>1, <1>2, FS_Union
  <2>4. sem \in Nat /\ Len(work) \in Nat
    <3>1. IsFiniteSet(Alive)
      BY PoolAssumption, FS_Subset DEF Alive
    <3>2. QED
      BY <3>1, FS_CardinalityType DEF Semaphore, Types
  <2>5. QED
    BY <1>1, <1>2, <2>2, <2>3, <2>4
<1>5. QED
  <2>1. IsFiniteSet(Pool!In({"pooled", "running"}))
        /\ Cardinality(Pool!In({"pooled", "running"})) <= Cardinality(Waiting \cup Held)
    BY <1>3, <1>4, FS_Subset
  <2>2. {Cardinality(Waiting \cup Held), Cardinality(Pool!In({"pooled", "running"}))} \subseteq Nat
    BY <1>4, <2>1, FS_CardinalityType
  <2>3. sem \in Nat /\ Len(work) \in Nat
    <3>1. IsFiniteSet(Alive)
      BY PoolAssumption, FS_Subset DEF Alive
    <3>2. QED
      BY <3>1, FS_CardinalityType DEF Semaphore, Types
  <2>4. QED
    BY <1>4, <2>1, <2>2, <2>3

\* A step that leaves the other tasks where they are moves one task.
LEMMA MovesOne ==
  ASSUME NEW t \in Tasks,
         \A u \in Tasks \ {t} : /\ u \in refused' <=> u \in refused
                                /\ u \in asked' <=> u \in asked
                                /\ ran'[u] = ran[u]
                                /\ Running(u)' <=> Running(u)
  PROVE  At' = [At EXCEPT ![t] = stage(t)']
<1>1. \A u \in Tasks \ {t} : stage(u)' = stage(u)
  BY DEF stage, Running
<1>2. At' = [u \in Tasks |-> stage(u)']
  BY DEF At
<1>3. QED
  BY <1>1, <1>2 DEF At

\* A worker that is about to run its task is not yet one of those that run theirs.
LEMMA RunningBound ==
  ASSUME PoolInv, NEW v \in Ids, pc[v] \in {"start", "loop"}
  PROVE  Cardinality(Pool!In({"running"})) < Size
<1> USE DEF PoolInv
<1> DEFINE f == [w \in Runners |-> task[w]]
<1>1. IsFiniteSet(Alive) /\ v \in Alive
  BY PoolAssumption, FS_Subset DEF Alive
<1>2. Runners \subseteq Alive \ {v}
  BY DEF Runners, Alive
<1>3. IsFiniteSet(Alive \ {v}) /\ Cardinality(Alive \ {v}) = Cardinality(Alive) - 1
  BY <1>1, FS_RemoveElement
<1>4. IsFiniteSet(Runners) /\ Cardinality(Runners) <= Cardinality(Alive) - 1
  BY <1>2, <1>3, FS_Subset
<1>5. \A t \in Tasks : stage(t) = "running" <=> Running(t)
  <2>1. SUFFICES ASSUME NEW t \in Tasks PROVE stage(t) = "running" <=> Running(t)
    OBVIOUS
  <2>2. Running(t) => t \in asked \ refused /\ ran[t] = 0
    BY PoolAssumption DEF Running, Places
  <2>3. QED
    BY <2>2, StageIs DEF Types
<1>6. Pool!In({"running"}) = {t \in Tasks : Running(t)}
  BY <1>5 DEF Pool!In
<1>7. f \in Surjection(Runners, Pool!In({"running"}))
  BY <1>6, PoolAssumption DEF Surjection, Runners, Running, Places, Types
<1>8. /\ IsFiniteSet(Pool!In({"running"}))
      /\ Cardinality(Pool!In({"running"})) <= Cardinality(Runners)
  BY <1>4, <1>7, FS_Surjection
<1>9. /\ Cardinality(Alive) \in Nat /\ Cardinality(Runners) \in Nat
      /\ Cardinality(Pool!In({"running"})) \in Nat
  BY <1>1, <1>4, <1>8, FS_CardinalityType
<1>10. QED
  BY <1>4, <1>8, <1>9, PoolAssumption DEF Semaphore

\* TaskPool counts as FiniteSets does.
LEMMA SameCount == ASSUME NEW S PROVE Pool!Cardinality(S) = Cardinality(S)
BY DEF Pool!Cardinality, Cardinality

\* The cases of schedule are TaskPool's Schedule and Refuse.
LEMMA ScheduleSimulates ==
  ASSUME ImplInv, PoolInv', NEW t \in Tasks, Schedule(t)
  PROVE  Pool!Schedule(t) \/ Pool!Refuse(t)
<1> USE DEF ImplInv
<1>1. t \notin asked /\ stage(t) = "new"
  BY StageIs DEF Schedule, ScheduleWork, ScheduleSpawn, ScheduleTimedOut
<1>2. /\ ran[t] = 0
      /\ \A w \in Ids : task[w] # t
  BY <1>1, NewIsNowhere DEF PoolInv
<1>3. /\ Cardinality(Pool!In({"pooled", "running"})) \in Nat
      /\ Cardinality(Pool!In({"pooled", "running"})) <= Len(work) + sem
  BY PlacesBound, FS_CardinalityType
<1>4. Len(work) \in Nat /\ sem \in Nat /\ Len(work) <= queue /\ sem <= Size
  <2>1. IsFiniteSet(Alive)
    BY PoolAssumption, FS_Subset DEF Alive
  <2>2. QED
    BY <2>1, FS_CardinalityType DEF PoolInv, Semaphore, Types
<1>5. ASSUME Len(work) < queue \/ sem < Size, stage(t)' = "pooled",
             At' = [At EXCEPT ![t] = stage(t)']
      PROVE  Pool!Schedule(t)
  <2>1. Cardinality(Pool!In({"pooled", "running"})) < Size + queue
    BY <1>3, <1>4, <1>5, Capacities, PoolAssumption
  <2>2. Pool!Move(t, "new", "pooled")
    BY <1>1, <1>5 DEF Pool!Move, At
  <2>3. QED
    BY <2>1, <2>2, SameCount DEF Pool!Schedule
<1>6. CASE ScheduleWork(t)
  <2>1. asked' = asked \cup {t} /\ Len(work) < queue /\ UNCHANGED <<pc, task, refused, ran>>
    BY <1>6 DEF ScheduleWork, roomInWork
  <2>2. \A u \in Tasks : Running(u)' <=> Running(u)
    BY <2>1 DEF Running
  <2>3. At' = [At EXCEPT ![t] = stage(t)']
    BY <2>1, <2>2, MovesOne
  <2>4. t \notin refused /\ ~Running(t)
    BY <1>1, <1>2 DEF PoolInv, Types, Running
  <2>5. stage(t)' = "pooled"
    BY <1>2, <2>1, <2>4 DEF stage, Running
  <2>6. QED
    BY <1>5, <2>1, <2>3, <2>5
<1>7. CASE ScheduleSpawn(t)
  <2>1. PICK v \in Ids : /\ pc[v] = "none" /\ pc' = [pc EXCEPT ![v] = "start"]
                         /\ task' = [task EXCEPT ![v] = t]
    BY <1>7 DEF ScheduleSpawn
  <2>2. asked' = asked \cup {t} /\ sem < Size /\ UNCHANGED <<refused, ran>>
    BY <1>7 DEF ScheduleSpawn
  <2>3. /\ pc'[v] = "start"
        /\ \A w \in Ids \ {v} : pc'[w] = pc[w] /\ task'[w] = task[w]
    BY <2>1 DEF PoolInv, Types
  <2>4. \A u \in Tasks : Running(u)' <=> Running(u)
    BY <2>1, <2>3 DEF Running
  <2>5. At' = [At EXCEPT ![t] = stage(t)']
    BY <2>2, <2>4, MovesOne
  <2>6. t \notin refused /\ ~Running(t)'
    BY <1>1, <1>2, <2>4 DEF PoolInv, Types, Running
  <2>7. stage(t)' = "pooled"
    BY <1>2, <2>2, <2>6 DEF stage, Running
  <2>8. QED
    BY <1>5, <2>2, <2>5, <2>7
<1>8. CASE ScheduleTimedOut(t)
  <2>1. asked' = asked \cup {t} /\ refused' = refused \cup {t} /\ UNCHANGED <<pc, task, ran>>
    BY <1>8 DEF ScheduleTimedOut
  <2>2. \A u \in Tasks : Running(u)' <=> Running(u)
    BY <2>1 DEF Running
  <2>3. At' = [At EXCEPT ![t] = stage(t)']
    BY <2>1, <2>2, MovesOne
  <2>4. stage(t)' = "refused"
    BY <2>1 DEF stage
  <2>5. QED
    BY <1>1, <2>3, <2>4, Zenon DEF Pool!Refuse, Pool!Move, At
<1>9. QED
  BY <1>6, <1>7, <1>8 DEF Schedule

\* A task that a worker turns to is TaskPool's Start.
LEMMA TurnsTo ==
  ASSUME PoolInv, PoolInv', NEW v \in Ids, pc[v] \in {"start", "loop"},
         NEW t \in Tasks, t \in asked \ refused, ran[t] = 0, ~Running(t),
         pc'[v] = "run", task'[v] = t,
         \A w \in Ids \ {v} : pc'[w] = pc[w] /\ task'[w] = task[w],
         UNCHANGED <<asked, refused, ran>>
  PROVE  Pool!Start(t)
<1>1. stage(t) = "pooled"
  BY StageIs
<1>2. \A u \in Tasks \ {t} : Running(u)' <=> Running(u)
  BY DEF Running
<1>3. At' = [At EXCEPT ![t] = stage(t)']
  BY <1>2, MovesOne
<1>4. stage(t)' = "running"
  BY DEF stage
<1>5. Pool!Move(t, "pooled", "running")
  BY <1>1, <1>3, <1>4 DEF Pool!Move, At
<1>6. Cardinality(Pool!In({"running"})) < Size
  BY RunningBound
<1>7. QED
  BY <1>5, <1>6, SameCount DEF Pool!Start

\* The steps of a worker are TaskPool's Start and Finish; that it ends is not
\* seen there.
LEMMA WorkerSimulates ==
  ASSUME ImplInv, PoolInv', NEW v \in Ids, Worker(v)
  PROVE  (\E t \in Tasks : Pool!Start(t) \/ Pool!Finish(t)) \/ UNCHANGED At
<1> USE DEF ImplInv, PoolInv
<1>1. CASE Start(v)
  <2>1. /\ pc[v] = "start" /\ pc' = [pc EXCEPT ![v] = "run"]
        /\ UNCHANGED <<task, asked, refused, ran>>
    BY <1>1 DEF Start
  <2>2. pc'[v] = "run" /\ \A w \in Ids \ {v} : pc'[w] = pc[w]
    BY <2>1 DEF Types
  <2>3. task[v] \in Tasks /\ task[v] \in asked \ refused /\ ran[task[v]] = 0
    BY <2>1 DEF Types, Places
  <2>4. ~Running(task[v])
    <3>1. SUFFICES ASSUME NEW w \in Ids, pc[w] = "run", task[w] = task[v] PROVE FALSE
      BY DEF Running
    <3>2. \A w1, w2 \in Ids : task[w1] = task[w2] /\ task[w1] # NoTask => w1 = w2
      BY DEF Places
    <3>3. task[v] # NoTask
      BY <2>3, PoolAssumption
    <3>4. QED
      BY <2>1, <3>1, <3>2, <3>3
  <2>5. Pool!Start(task[v])
    BY <2>1, <2>2, <2>3, <2>4, TurnsTo
  <2>6. QED
    BY <2>3, <2>5
<1>2. CASE Take(v)
  <2>1. /\ pc[v] = "loop" /\ work # <<>> /\ pc' = [pc EXCEPT ![v] = "run"]
        /\ task' = [task EXCEPT ![v] = Head(work)]
        /\ UNCHANGED <<asked, refused, ran>>
    BY <1>2 DEF Take
  <2>2. Head(work) = work[1] /\ 1 \in 1..Len(work) /\ work[1] \in Tasks
    BY <2>1, HeadTailProperties DEF Types
  <2>3. /\ pc'[v] = "run" /\ task'[v] = work[1]
        /\ \A w \in Ids \ {v} : pc'[w] = pc[w] /\ task'[w] = task[w]
    BY <2>1, <2>2 DEF Types
  <2>4. work[1] \in asked \ refused /\ ran[work[1]] = 0 /\ ~Running(work[1])
    <3>1. \A i \in 1..Len(work) : work[i] \in asked \ refused /\ ran[work[i]] = 0
      BY DEF Places
    <3>2. \A w \in Ids : \A i \in 1..Len(work) : task[w] # work[i]
      BY DEF Places
    <3>3. \A w \in Ids : task[w] # work[1]
      BY <2>2, <3>2
    <3>4. QED
      BY <2>2, <3>1, <3>3 DEF Running
  <2>5. Pool!Start(work[1])
    BY <2>1, <2>2, <2>3, <2>4, TurnsTo
  <2>6. QED
    BY <2>2, <2>5
<1>3. CASE Return(v)
  <2>1. /\ pc[v] = "run" /\ ran' = [ran EXCEPT ![task[v]] = @ + 1]
        /\ task' = [task EXCEPT ![v] = NoTask] /\ UNCHANGED <<asked, refused>>
        /\ \A w \in Ids \ {v} : pc'[w] = pc[w] /\ task'[w] = task[w]
    BY <1>3 DEF Return, Types
  <2>2. task[v] \in Tasks /\ task[v] \in asked \ refused /\ ran[task[v]] = 0
    BY <2>1 DEF Types, Places
  <2>3. ran'[task[v]] > 0 /\ \A u \in Tasks \ {task[v]} : ran'[u] = ran[u]
    BY <2>1, <2>2 DEF Types
  <2>4. task'[v] = NoTask
    BY <2>1 DEF Types
  <2>5. \A u \in Tasks \ {task[v]} : Running(u)' <=> Running(u)
    BY <2>1, <2>4, PoolAssumption DEF Running
  <2>6. PICK t \in Tasks : t = task[v]
    BY <2>2
  <2>7. At' = [At EXCEPT ![t] = stage(t)']
    BY <2>1, <2>3, <2>5, <2>6, MovesOne
  <2>8. stage(t) = "running"
    <3>1. Running(t)
      BY <2>1, <2>6 DEF Running
    <3>2. QED
      BY <2>2, <2>6, <3>1, StageIs
  <2>9. stage(t)' = "done"
    BY <2>1, <2>2, <2>3, <2>6 DEF stage
  <2>10. Pool!Finish(t)
    BY <2>7, <2>8, <2>9 DEF Pool!Finish, Pool!Move, At
  <2>11. QED
    BY <2>10
<1>4. CASE Exit(v)
  <2>1. pc[v] = "exit" /\ pc' = [pc EXCEPT ![v] = "none"] /\ UNCHANGED <<task, asked, refused, ran>>
    BY <1>4 DEF Exit
  <2>2. pc'[v] = "none" /\ \A w \in Ids \ {v} : pc'[w] = pc[w]
    BY <2>1 DEF Types
  <2>3. \A t \in Tasks : Running(t)' <=> Running(t)
    BY <2>1, <2>2 DEF Running
  <2>4. \A t \in Tasks : stage(t)' = stage(t)
    BY <2>1, <2>3 DEF stage, Running
  <2>5. QED
    BY <2>4 DEF At
<1>5. QED
  BY <1>1, <1>2, <1>3, <1>4 DEF Worker

\* The pool of goroutines is the pool its callers rely on: each task accepted by
\* schedule is run at most once, no more than cap(p.sem) at a time, and no more
\* are accepted than the workers and p.work can hold.
THEOREM Implements == Spec => PoolSpec
<1>1. Init => ImplInv /\ Pool!Init
  <2>1. SUFFICES ASSUME Init PROVE ImplInv /\ Pool!Init
    OBVIOUS
  <2>2. PoolInv
    BY <2>1, PoolInit
  <2>3. Kept /\ \A t \in Tasks : stage(t) = "new"
    BY <2>1 DEF Init, Kept, stage
  <2>4. QED
    BY <2>2, <2>3 DEF ImplInv, Pool!Init
<1>2. ImplInv /\ [Next]_vars => ImplInv' /\ [Pool!Next]_At
  <2>1. SUFFICES ASSUME ImplInv, [Next]_vars PROVE ImplInv' /\ [Pool!Next]_At
    OBVIOUS
  <2>2. PoolInv' /\ Kept'
    BY <2>1, PoolKeeps, KeptKeeps DEF ImplInv
  <2>3. ASSUME NEW t \in Tasks, Schedule(t) PROVE Pool!Next
    BY <2>1, <2>2, <2>3, ScheduleSimulates DEF Pool!Next
  <2>4. ASSUME NEW w \in Ids, Worker(w) PROVE [Pool!Next]_At
    BY <2>1, <2>2, <2>4, WorkerSimulates DEF Pool!Next
  <2>5. ASSUME UNCHANGED vars PROVE UNCHANGED At
    BY <2>5 DEF vars, At, stage
  <2>6. QED
    BY <2>1, <2>2, <2>3, <2>4, <2>5 DEF ImplInv, Next
<1>3. QED
  BY <1>1, <1>2, PTL DEF Spec, PoolSpec, Pool!Spec, At

-----------------------------------------------------------------------------
(* No accepted task is dropped or run twice. *)

Once == \A t \in Tasks : ran[t] <= 1

\* A worker's task has not been run before.
LEMMA OnceKeeps ==
  ASSUME PoolInv, Once, [Next]_vars
  PROVE  Once'
<1> USE DEF PoolInv
<1>1. ASSUME NEW v \in Ids, Return(v) PROVE Once'
  <2>1. pc[v] = "run" /\ ran' = [ran EXCEPT ![task[v]] = @ + 1]
    BY <1>1 DEF Return
  <2>2. task[v] \in Tasks /\ ran[task[v]] = 0
    BY <2>1 DEF Types, Places
  <2>3. ran'[task[v]] = 1 /\ \A t \in Tasks \ {task[v]} : ran'[t] = ran[t]
    BY <2>1, <2>2 DEF Types
  <2>4. QED
    BY <2>3 DEF Once
<1>2. ASSUME ran' = ran PROVE Once'
  BY <1>2 DEF Once
<1>3. QED
  BY <1>1, <1>2 DEF Next, Schedule, ScheduleWork, ScheduleSpawn, ScheduleTimedOut,
                    Worker, Start, Take, Exit, vars

\* An accepted task that has run is nowhere, one that has not is in one place.
LEMMA Accounted ==
  ASSUME ImplInv, Once
  PROVE  TasksAccounted
<1> USE DEF ImplInv, PoolInv
<1>1. SUFFICES ASSUME NEW t \in asked \ refused
               PROVE  ran[t] + Cardinality({i \in DOMAIN work : work[i] = t})
                        + Cardinality({w \in Ids : task[w] = t}) = 1
  BY DEF TasksAccounted
<1> DEFINE I == {i \in DOMAIN work : work[i] = t}
           W == {w \in Ids : task[w] = t}
<1>2. t \in Tasks /\ t # NoTask /\ ran[t] \in Nat /\ ran[t] <= 1
  BY PoolAssumption DEF Types, Once
<1>3. DOMAIN work = 1..Len(work)
  BY DEF Types
<1>4. Cardinality({}) = 0
  BY FS_EmptySet
<1>5. (\A i \in I : ran[t] = 0) /\ (\A w \in W : ran[t] = 0)
  BY <1>2, <1>3 DEF Places
<1>6. CASE ran[t] > 0
  <2>1. I = {} /\ W = {}
    BY <1>5, <1>6
  <2>2. QED
    BY <1>2, <1>4, <1>6, <2>1
<1>7. CASE ran[t] = 0 /\ \E i \in 1..Len(work) : work[i] = t
  <2>1. PICK i \in 1..Len(work) : work[i] = t
    BY <1>7
  <2>2. \A j \in 1..Len(work) : work[j] = t => j = i
    BY <2>1 DEF Places
  <2>3. I = {i}
    BY <1>3, <2>1, <2>2
  <2>4. \A w \in Ids : task[w] # t
    BY <2>1 DEF Places
  <2>5. W = {}
    BY <2>4
  <2>6. Cardinality({i}) = 1
    BY FS_Singleton
  <2>7. Cardinality(I) = 1 /\ Cardinality(W) = 0
    BY <1>4, <2>3, <2>5, <2>6
  <2>8. QED
    BY <1>7, <2>7
<1>8. CASE ran[t] = 0 /\ ~(\E i \in 1..Len(work) : work[i] = t)
  <2>1. PICK v \in Ids : task[v] = t
    BY <1>8 DEF Kept
  <2>2. \A w \in Ids : task[w] = t => w = v
    BY <1>2, <2>1 DEF Places
  <2>3. W = {v}
    BY <2>1, <2>2
  <2>4. I = {}
    BY <1>3, <1>8
  <2>5. Cardinality({v}) = 1
    BY FS_Singleton
  <2>6. Cardinality(I) = 0 /\ Cardinality(W) = 1
    BY <1>4, <2>3, <2>4, <2>5
  <2>7. QED
    BY <1>8, <2>6
<1>9. QED
  BY <1>2, <1>6, <1>7, <1>8

\* A task accepted by schedule waits in p.work, is with one worker or has run
\* once, at every moment and for any number of tasks and workers: none is lost
\* when a worker reaches its threshold and ends.
THEOREM NothingLost == Spec => []TasksAccounted
<1>1. Init => ImplInv /\ Once
  <2>1. SUFFICES ASSUME Init PROVE ImplInv /\ Once
    OBVIOUS
  <2>2. PoolInv
    BY <2>1, PoolInit
  <2>3. QED
    BY <2>1, <2>2 DEF Init, ImplInv, Kept, Once
<1>2. ImplInv /\ Once /\ [Next]_vars => ImplInv' /\ Once'
  BY PoolKeeps, KeptKeeps, OnceKeeps DEF ImplInv
<1>3. QED
  BY <1>1, <1>2, Accounted, PTL DEF Spec
=============================================================================
