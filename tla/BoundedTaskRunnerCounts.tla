----------------------- MODULE BoundedTaskRunnerCounts -----------------------
(***************************************************************************)
(* The counters of BoundedTaskRunner are exact, for any number of jobs,    *)
(* callers, workers and generations: what the semaphore, _active,          *)
(* _accepted and unfinished_tasks say is how many threads and jobs there   *)
(* are. The type invariant and the bounds on concurrency and admission     *)
(* follow from that.                                                       *)
(***************************************************************************)
EXTENDS BoundedTaskRunnerProofs

One(b) == IF b THEN 1 ELSE 0

\* Two sets that differ in x alone.
LEMMA CountMove ==
  ASSUME NEW S, IsFiniteSet(S), NEW x, NEW T,
         \A y : y # x => (y \in T <=> y \in S)
  PROVE  /\ IsFiniteSet(T)
         /\ Cardinality(T) = Cardinality(S) + One(x \in T) - One(x \in S)
<1>0. Cardinality(S) \in Nat
  BY FS_CardinalityType
<1>1. CASE x \in T
  <2>1. T = S \cup {x}
    BY <1>1
  <2> QED
    BY <1>0, <1>1, <2>1, FS_AddElement DEF One
<1>2. CASE x \notin T
  <2>1. T = S \ {x}
    BY <1>2
  <2> QED
    BY <1>0, <1>2, <2>1, FS_RemoveElement DEF One
<1> QED
  BY <1>1, <1>2

\* A sequence without repetitions is as long as the set of its elements.
LEMMA RangeCardinality ==
  ASSUME NEW S, NEW s \in Seq(S),
         \A i, k \in 1..Len(s) : s[i] = s[k] => i = k
  PROVE  IsFiniteSet(Range(s)) /\ Cardinality(Range(s)) = Len(s)
<1>1. Len(s) \in Nat /\ DOMAIN s = 1..Len(s) /\ s \in [1..Len(s) -> S]
  BY LenProperties
<1>2. s \in [1..Len(s) -> Range(s)]
  BY <1>1 DEF Range
<1>3. s \in Bijection(1..Len(s), Range(s))
  BY <1>1, <1>2 DEF Bijection, Injection, Surjection, IsInjective, Range
<1>4. ExistsBijection(1..Len(s), Range(s))
  BY <1>3 DEF ExistsBijection
<1>5. IsFiniteSet(1..Len(s)) /\ Cardinality(1..Len(s)) = Len(s)
  BY <1>1, FS_Interval
<1> QED
  BY <1>4, <1>5, FS_Bijection

LEMMA WorkersFinite ==
  /\ IsFiniteSet(Worker)
  /\ \A L : IsFiniteSet(AtWork(L)) /\ Cardinality(AtWork(L)) \in Nat
<1>1. IsFiniteSet(Gen) /\ IsFiniteSet(1..MaxWorkers)
  BY RunnerAssumption, FS_Interval DEF Gen
<1>2. IsFiniteSet(Worker)
  BY <1>1, FS_Product DEF Worker
<1>3. ASSUME NEW L PROVE IsFiniteSet(AtWork(L)) /\ Cardinality(AtWork(L)) \in Nat
  <2>1. AtWork(L) \in SUBSET Worker
    BY DEF AtWork
  <2> QED
    BY <1>2, <2>1, FS_Subset, FS_CardinalityType
<1> QED
  BY <1>2, <1>3

\* The labels of a thread that does not exist or waits for its slot.
Outside == {"absent", "spawned"}

\* Starting threads moves nobody who is past the semaphore.
LEMMA SpawnCount ==
  ASSUME Types, NEW L, L \cap Outside = {}, NEW g, pc' \in {pc, Spawned(g)}
  PROVE  AtWork(L)' = AtWork(L)
<1>1. \A w \in Worker : pc'[w] \in L <=> pc[w] \in L
  BY DEF Spawned, Outside, Types, WorkerType
<1> QED
  BY <1>1 DEF AtWork

LEMMA MoveCount ==
  ASSUME Types, NEW w \in Worker, NEW l, Goto(w, l), NEW L
  PROVE  /\ pc'[w] = l /\ \A v \in Worker : v # w => pc'[v] = pc[v]
         /\ Cardinality(AtWork(L))'
              = Cardinality(AtWork(L)) + One(l \in L) - One(pc[w] \in L)
<1>1. pc'[w] = l /\ \A v \in Worker : v # w => pc'[v] = pc[v]
  BY DEF Goto, Types, WorkerType
<1>2. \A v : v # w => (v \in AtWork(L)' <=> v \in AtWork(L))
  BY <1>1 DEF AtWork
<1>3. (w \in AtWork(L)' <=> l \in L) /\ (w \in AtWork(L) <=> pc[w] \in L)
  BY <1>1 DEF AtWork
<1>4. Cardinality(AtWork(L)')
        = Cardinality(AtWork(L)) + One(w \in AtWork(L)') - One(w \in AtWork(L))
  BY <1>2, WorkersFinite, CountMove
<1> QED
  BY <1>1, <1>3, <1>4

\* What no client, restarting or closing thread touches.
LEMMA ClientEffect ==
  ASSUME [Next]_vars
  PROVE  \/ \E w \in Worker : Work(w)
         \/ /\ UNCHANGED <<active, slots, job>>
            /\ pc' = pc \/ \E g : pc' = Spawned(g)
<1> DEFINE Same == /\ UNCHANGED <<active, slots, job>>
                   /\ pc' = pc \/ \E g : pc' = Spawned(g)
<1>1. ASSUME Start PROVE Same
  BY <1>1 DEF Start, counters
<1>2. ASSUME NEW j \in Jobs, Reserve(j) \/ Commit(j) \/ Rollback(j)
      PROVE  Same
  BY <1>2 DEF Reserve, Commit, Rollback, workers
<1>3. ASSUME NEW c \in Callers, Restart(c)
      PROVE  Same
  BY <1>3 DEF Restart
<1>4. ASSUME NEW c \in Callers, NEW drain \in BOOLEAN, NEW join \in BOOLEAN,
             Close(c, drain, join)
      PROVE  Same
  BY <1>4 DEF Close, workers
<1>5. ASSUME NEW c \in Callers, Call(c) PROVE Same
  BY <1>5 DEF Call, NotifyCancelled, NotifiedReturn, NotifiedWait, QueueJoined,
              ThreadsJoined, Return, counters, workers
<1>6. ASSUME UNCHANGED vars PROVE Same
  BY <1>6 DEF vars, counters, workers
<1> HIDE DEF Same
<1>7. Same \/ \E w \in Worker : Work(w)
  BY <1>1, <1>2, <1>3, <1>4, <1>5, <1>6, NextCases
<1> QED
  BY <1>7 DEF Same

-----------------------------------------------------------------------------
(* The semaphore and _active.                                              *)

\* Between acquire() and release() of _worker_slots.
Inside == {"loop", "empty", "taken", "run", "ran", "dropped", "notify", "leaving"}

Threads ==
  /\ slots \in Nat
  /\ slots + Cardinality(AtWork(Inside)) = MaxWorkers
  /\ active = Cardinality(AtWork({"run"}))

LEMMA ThreadsInit == Init => Threads
<1> SUFFICES ASSUME Init PROVE Threads
  OBVIOUS
<1>1. AtWork(Inside) = {} /\ AtWork({"run"}) = {}
  BY DEF Init, AtWork, Inside
<1>2. Cardinality(AtWork(Inside)) = 0 /\ Cardinality(AtWork({"run"})) = 0
  BY <1>1, FS_EmptySet
<1> QED
  BY <1>2, RunnerAssumption DEF Init, Threads

LEMMA ThreadsStep == Types /\ Threads /\ [Next]_vars => Threads'
<1> SUFFICES ASSUME Types, Threads, [Next]_vars PROVE Threads'
  OBVIOUS
<1>0. /\ Cardinality(AtWork(Inside)) \in Nat /\ Cardinality(AtWork({"run"})) \in Nat
      /\ slots \in Nat /\ MaxWorkers \in Nat
      /\ slots + Cardinality(AtWork(Inside)) = MaxWorkers
      /\ active = Cardinality(AtWork({"run"}))
  BY WorkersFinite, RunnerAssumption DEF Threads
\* A worker's step from one label to the next.
<1>a. ASSUME NEW w \in Worker, NEW l, Goto(w, l),
             slots' = slots - One(l \in Inside) + One(pc[w] \in Inside),
             active' = active + One(l \in {"run"}) - One(pc[w] \in {"run"}),
             slots' \in Nat
      PROVE  Threads'
  <2>1. /\ Cardinality(AtWork(Inside))'
             = Cardinality(AtWork(Inside)) + One(l \in Inside) - One(pc[w] \in Inside)
        /\ Cardinality(AtWork({"run"}))'
             = Cardinality(AtWork({"run"})) + One(l \in {"run"}) - One(pc[w] \in {"run"})
    BY <1>a, MoveCount
  <2>2. One(l \in Inside) \in Nat /\ One(pc[w] \in Inside) \in Nat
    BY DEF One
  <2>3. One(l \in {"run"}) \in Nat /\ One(pc[w] \in {"run"}) \in Nat
    BY DEF One
  <2>4. active' = Cardinality(AtWork({"run"}))'
    BY <1>0, <1>a, <2>1, <2>3
  <2>5. slots' + Cardinality(AtWork(Inside))' = MaxWorkers
    BY <1>0, <1>a, <2>1, <2>2
  <2> QED
    BY <1>a, <2>4, <2>5 DEF Threads
<1>1. ASSUME NEW w \in Worker, Work(w) PROVE Threads'
  <2> USE DEF One, Inside
  <2>1. CASE AcquireSlot(w)
    BY <1>0, <1>a, <2>1 DEF AcquireSlot, SlotFree
  <2>2. CASE Take(w)
    BY <1>0, <1>a, <2>2 DEF Take, counters
  <2>3. CASE TimeOut(w)
    BY <1>0, <1>a, <2>3 DEF TimeOut, counters
  <2>4. CASE CheckMode(w)
    BY <1>0, <1>a, <2>4 DEF CheckMode, counters
  <2>5. CASE Decide(w)
    <3>1. CASE ShouldRun(GenOf(w))
      BY <1>0, <1>a, <2>5, <3>1 DEF Decide
    <3>2. CASE ~ShouldRun(GenOf(w))
      BY <1>0, <1>a, <2>5, <3>2 DEF Decide
    <3> QED
      BY <3>1, <3>2
  <2>6. CASE Finish(w)
    BY <1>0, <1>a, <2>6 DEF Finish
  <2>7. CASE RanDone(w)
    BY <1>0, <1>a, <2>7 DEF RanDone, counters
  <2>8. CASE DroppedDone(w)
    BY <1>0, <1>a, <2>8 DEF DroppedDone, counters
  <2>9. CASE NotifyDropped(w)
    BY <1>0, <1>a, <2>9 DEF NotifyDropped, counters
  <2>10. CASE ReleaseSlot(w)
    BY <1>0, <1>a, <2>10 DEF ReleaseSlot
  <2>11. CASE Leave(w)
    BY <1>0, <1>a, <2>11 DEF Leave, counters
  <2> QED
    BY <1>1, <2>1, <2>2, <2>3, <2>4, <2>5, <2>6, <2>7, <2>8, <2>9, <2>10, <2>11
    DEF Work
<1>2. ASSUME UNCHANGED <<active, slots>>, NEW g, pc' \in {pc, Spawned(g)}
      PROVE  Threads'
  <2>1. AtWork(Inside)' = AtWork(Inside)
    BY <1>2, SpawnCount DEF Inside, Outside
  <2>2. AtWork({"run"})' = AtWork({"run"})
    BY <1>2, SpawnCount DEF Outside
  <2> QED
    BY <1>0, <1>2, <2>1, <2>2 DEF Threads
<1> QED
  BY <1>1, <1>2, ClientEffect

\* At most max_workers callbacks run at once, the ones of older generations
\* included, and _active is their number.
THEOREM ConcurrencyTheorem == Spec => []ConcurrencyBound
<1>1. Threads => ConcurrencyBound
  <2> SUFFICES ASSUME Threads PROVE ConcurrencyBound
    OBVIOUS
  <2>1. AtWork({"run"}) \in SUBSET AtWork(Inside)
    BY DEF AtWork, Inside
  <2>2. Cardinality(AtWork({"run"})) <= Cardinality(AtWork(Inside))
    BY <2>1, WorkersFinite, FS_Subset
  <2>3. /\ Cardinality(AtWork({"run"})) \in Nat /\ Cardinality(AtWork(Inside)) \in Nat
        /\ MaxWorkers \in Nat
    BY WorkersFinite, RunnerAssumption
  <2> QED
    BY <2>2, <2>3 DEF Threads, ConcurrencyBound
<1>2. Placement => Types
  BY DEF Placement
<1> QED
  BY <1>1, <1>2, ThreadsInit, ThreadsStep, PlacementTheorem, PTL DEF Spec

\* No generation loses a permit or gives one back twice, however threads of
\* several generations take turns.
THEOREM PermitsTheorem == Spec => []PermitsExact
<1>1. Threads => PermitsExact
  BY DEF Threads, Inside, PermitsExact
<1>2. Placement => Types
  BY DEF Placement
<1> QED
  BY <1>1, <1>2, ThreadsInit, ThreadsStep, PlacementTheorem, PTL DEF Spec

-----------------------------------------------------------------------------
(* unfinished_tasks.                                                       *)

\* The workers of g that took a task and have not called task_done.
Owing == {"taken", "run", "ran", "dropped"}
Owers(g) == {w \in AtWork(Owing) : GenOf(w) = g}

Joins ==
  /\ unfinished \in [Gen -> Nat]
  /\ \A g \in Gen : unfinished[g] = Len(queue[g]) + Cardinality(Owers(g))

LEMMA OwersFinite ==
  \A g : IsFiniteSet(Owers(g)) /\ Cardinality(Owers(g)) \in Nat
<1> SUFFICES ASSUME NEW g
             PROVE  IsFiniteSet(Owers(g)) /\ Cardinality(Owers(g)) \in Nat
  OBVIOUS
<1>1. Owers(g) \in SUBSET AtWork(Owing)
  BY DEF Owers
<1> QED
  BY <1>1, WorkersFinite, FS_Subset, FS_CardinalityType

LEMMA JoinsInit == Init => Joins
<1> SUFFICES ASSUME Init PROVE Joins
  OBVIOUS
<1>1. \A g : Owers(g) = {}
  BY DEF Init, Owers, AtWork, Owing
<1>2. \A g : Cardinality(Owers(g)) = 0
  BY <1>1, FS_EmptySet
<1>3. Len(<<>>) = 0
  BY EmptySeq
<1> QED
  BY <1>2, <1>3 DEF Init, Joins

\* A step of a worker touches the queue of its own generation only.
LEMMA OwersMove ==
  ASSUME Types, NEW w \in Worker, NEW l, Goto(w, l)
  PROVE  /\ \A g : g # GenOf(w) => Owers(g)' = Owers(g)
         /\ Cardinality(Owers(GenOf(w)))'
              = Cardinality(Owers(GenOf(w))) + One(l \in Owing) - One(pc[w] \in Owing)
<1>1. pc'[w] = l /\ \A v \in Worker : v # w => pc'[v] = pc[v]
  BY MoveCount
<1>2. \A g : g # GenOf(w) => Owers(g)' = Owers(g)
  BY <1>1 DEF Owers, AtWork
<1>3. \A v : v # w => (v \in Owers(GenOf(w))' <=> v \in Owers(GenOf(w)))
  BY <1>1 DEF Owers, AtWork
<1>4. /\ w \in Owers(GenOf(w))' <=> l \in Owing
      /\ w \in Owers(GenOf(w)) <=> pc[w] \in Owing
  BY <1>1 DEF Owers, AtWork
<1>5. Cardinality(Owers(GenOf(w))')
        = Cardinality(Owers(GenOf(w)))
          + One(w \in Owers(GenOf(w))') - One(w \in Owers(GenOf(w)))
  BY <1>3, OwersFinite, CountMove
<1> QED
  BY <1>2, <1>4, <1>5

LEMMA JoinsStep == Types /\ Joins /\ [Next]_vars => Joins'
<1> SUFFICES ASSUME Types, Joins, [Next]_vars PROVE Joins'
  OBVIOUS
<1>0. /\ gen \in Gen /\ queue \in [Gen -> Seq(Jobs)]
      /\ unfinished \in [Gen -> Nat]
      /\ \A g \in Gen : unfinished[g] = Len(queue[g]) + Cardinality(Owers(g))
      /\ \A g \in Gen : Len(queue[g]) \in Nat
      /\ \A w \in Worker : GenOf(w) \in Gen
  BY WorkerFacts, LenProperties DEF Types, AdmissionType, QueueType, Joins
\* One entry of unfinished follows its queue and its workers.
<1>a. ASSUME NEW h \in Gen, NEW n, unfinished' = [unfinished EXCEPT ![h] = n],
             n \in Nat, n = Len(queue'[h]) + Cardinality(Owers(h))',
             \A g \in Gen : g # h => /\ queue'[g] = queue[g]
                                     /\ Owers(g)' = Owers(g)
      PROVE  Joins'
  <2>1. unfinished'[h] = n /\ \A g \in Gen : g # h => unfinished'[g] = unfinished[g]
    BY <1>0, <1>a
  <2>2. unfinished' \in [Gen -> Nat]
    BY <1>0, <1>a
  <2>3. \A g \in Gen : unfinished'[g] = Len(queue'[g]) + Cardinality(Owers(g))'
    BY <1>0, <1>a, <2>1
  <2> QED
    BY <2>2, <2>3 DEF Joins
\* Nothing counted moves.
<1>b. ASSUME UNCHANGED queues, \A g \in Gen : Owers(g)' = Owers(g) PROVE Joins'
  BY <1>0, <1>b DEF Joins, queues
<1>c. ASSUME NEW g, pc' \in {pc, Spawned(g)} PROVE \A h \in Gen : Owers(h)' = Owers(h)
  <2>1. AtWork(Owing)' = AtWork(Owing)
    BY <1>c, SpawnCount DEF Owing, Outside
  <2> QED
    BY <2>1 DEF Owers
<1>d. ASSUME NEW wait \in BOOLEAN, CloseQueue(wait), NEW g, pc' \in {pc, Spawned(g)}
      PROVE  Joins'
  <2>0. \A h \in Gen : Owers(h)' = Owers(h)
    BY <1>c, <1>d
  <2>1. CASE ClosedMode(wait) = "cancelled"
    <3>1. /\ queue' = [queue EXCEPT ![gen] = <<>>]
          /\ unfinished' = [unfinished EXCEPT ![gen] = @ - Len(queue[gen])]
      BY <1>d, <2>1 DEF CloseQueue, Discarded
    <3>0. PICK k \in Gen : k = gen
      BY <1>0
    <3>2. queue'[k] = <<>> /\ \A h \in Gen : h # k => queue'[h] = queue[h]
      BY <1>0, <3>0, <3>1
    <3>3. Len(queue'[k]) = 0
      BY <3>2, EmptySeq
    <3>4. /\ Cardinality(Owers(k)) \in Nat
          /\ unfinished[k] = Len(queue[k]) + Cardinality(Owers(k))
          /\ Owers(k)' = Owers(k)
      BY <1>0, <2>0, OwersFinite
    <3>5. unfinished[k] - Len(queue[k]) = Len(queue'[k]) + Cardinality(Owers(k))'
      BY <1>0, <3>3, <3>4
    <3>6. unfinished[k] - Len(queue[k]) \in Nat
      BY <1>0, <3>4
    <3>7. unfinished' = [unfinished EXCEPT ![k] = unfinished[k] - Len(queue[k])]
      BY <3>0, <3>1
    <3> QED
      BY <1>a, <2>0, <3>2, <3>5, <3>6, <3>7
  <2>2. CASE ClosedMode(wait) # "cancelled"
    <3>1. queue' = queue
      BY <1>0, <1>d, <2>2 DEF CloseQueue
    <3>2. unfinished' = unfinished
      <4>1. unfinished' = [unfinished EXCEPT ![gen] = @ - Len(<<>>)] /\ Len(<<>>) = 0
        BY <1>d, <2>2, EmptySeq DEF CloseQueue, Discarded
      <4> QED
        BY <1>0, <4>1
    <3> QED
      BY <1>b, <2>0, <3>1, <3>2 DEF queues
  <2> QED
    BY <2>1, <2>2
<1>1. CASE Start
  <2>1. UNCHANGED queues /\ (pc' = Spawned(gen) \/ pc' = Spawned(gen + 1))
    BY <1>1 DEF Start
  <2> QED
    BY <1>b, <1>c, <2>1
<1>2. ASSUME NEW j \in Jobs, Reserve(j) PROVE Joins'
  BY <1>2, <1>b, <1>c DEF Reserve
<1>3. ASSUME NEW j \in Jobs, Commit(j) PROVE Joins'
  <2>0. pc' = pc
    BY <1>3 DEF Commit, workers
  <2>1. CASE Committable(j)
    <3>1. /\ queue' = [queue EXCEPT ![gen] = Append(@, j)]
          /\ unfinished' = [unfinished EXCEPT ![gen] = @ + 1]
      BY <1>3, <2>1 DEF Commit
    <3>0. PICK k \in Gen : k = gen
      BY <1>0
    <3>2. /\ \A h \in Gen : h # k => queue'[h] = queue[h]
          /\ Len(queue'[k]) = Len(queue[k]) + 1
      BY <1>0, <3>0, <3>1, AppendProperties
    <3>3. /\ \A h \in Gen : Owers(h)' = Owers(h)
          /\ Cardinality(Owers(k)) \in Nat
      BY <1>c, <2>0, OwersFinite
    <3>4. /\ unfinished[k] + 1 \in Nat
          /\ unfinished[k] + 1 = Len(queue'[k]) + Cardinality(Owers(k))'
      BY <1>0, <3>2, <3>3
    <3>5. unfinished' = [unfinished EXCEPT ![k] = unfinished[k] + 1]
      BY <3>0, <3>1
    <3> QED
      BY <1>a, <3>2, <3>3, <3>4, <3>5
  <2>2. CASE ~Committable(j)
    BY <1>3, <1>b, <1>c, <2>0, <2>2 DEF Commit
  <2> QED
    BY <2>1, <2>2
<1>4. ASSUME NEW j \in Jobs, Rollback(j) PROVE Joins'
  BY <1>4, <1>b, <1>c DEF Rollback, workers
<1>5. ASSUME NEW c \in Callers, Restart(c) PROVE Joins'
  <2> DEFINE wait == FALSE
  <2>1. CloseQueue(wait) /\ wait \in BOOLEAN /\ pc' \in {pc, Spawned(gen + 1)}
    BY <1>5 DEF Restart
  <2> HIDE DEF wait
  <2> QED
    BY <1>d, <2>1
<1>6. ASSUME NEW c \in Callers, NEW drain \in BOOLEAN, NEW join \in BOOLEAN,
             Close(c, drain, join) PROVE Joins'
  BY <1>6, <1>d DEF Close, workers
<1>7. ASSUME NEW c \in Callers, Call(c) PROVE Joins'
  <2>1. UNCHANGED queues /\ pc' = pc
    BY <1>7, CallEffect DEF workers
  <2> QED
    BY <1>b, <1>c, <2>1
<1>8. ASSUME NEW w \in Worker, Work(w) PROVE Joins'
  <2> DEFINE h == GenOf(w)
  <2>0. /\ h \in Gen /\ Cardinality(Owers(h)) \in Nat
        /\ unfinished[h] = Len(queue[h]) + Cardinality(Owers(h))
        /\ unfinished[h] \in Nat
    BY <1>0, OwersFinite
  \* No task_done due, none owed.
  <2>a. ASSUME NEW l, Goto(w, l), l \in Owing <=> pc[w] \in Owing, UNCHANGED queues
        PROVE  Joins'
    <3>1. /\ \A g : g # h => Owers(g)' = Owers(g)
          /\ Cardinality(Owers(h))' = Cardinality(Owers(h))
                                      + One(l \in Owing) - One(pc[w] \in Owing)
      BY <2>a, OwersMove
    <3>2. Cardinality(Owers(h))' = Cardinality(Owers(h))
      BY <2>0, <2>a, <3>1 DEF One
    <3> QED
      BY <1>0, <2>a, <3>1, <3>2 DEF Joins, queues
  \* task_done.
  <2>b. ASSUME NEW l, Goto(w, l), l \notin Owing, pc[w] \in Owing,
               UNCHANGED queue, TaskDone(h)
        PROVE  Joins'
    <3>1. /\ \A g : g # h => Owers(g)' = Owers(g)
          /\ Cardinality(Owers(h))' = Cardinality(Owers(h)) - 1
      BY <2>0, <2>b, OwersMove DEF One
    <3>2. Cardinality(Owers(h))' \in Nat
      <4>1. w \in Owers(h)
        BY <2>b DEF Owers, AtWork
      <4>2. Cardinality(Owers(h)) # 0
        BY <4>1, OwersFinite, FS_EmptySet
      <4> QED
        BY <2>0, <3>1, <4>2
    <3>3. unfinished[h] - 1 = Len(queue'[h]) + Cardinality(Owers(h))'
      BY <1>0, <2>0, <2>b, <3>1
    <3>4. unfinished[h] - 1 \in Nat
      BY <1>0, <2>0, <2>b, <3>2, <3>3
    <3>5. unfinished' = [unfinished EXCEPT ![h] = unfinished[h] - 1]
      BY <2>b DEF TaskDone
    <3> HIDE DEF h
    <3> QED
      BY <1>a, <2>0, <2>b, <3>1, <3>3, <3>4, <3>5
  <2> USE DEF Owing
  <2>1. CASE AcquireSlot(w)
    BY <2>a, <2>1 DEF AcquireSlot
  <2>2. CASE Take(w)
    <3>1. /\ queue[h] \in Seq(Jobs) /\ queue[h] # <<>> /\ Goto(w, "taken")
          /\ pc[w] = "loop"
          /\ queue' = [queue EXCEPT ![h] = Tail(@)] /\ UNCHANGED unfinished
      BY <1>0, <2>2 DEF Take
    <3>2. /\ \A g \in Gen : g # h => queue'[g] = queue[g]
          /\ Len(queue'[h]) = Len(queue[h]) - 1
      BY <1>0, <2>0, <3>1, HeadTailProperties
    <3>3. /\ \A g : g # h => Owers(g)' = Owers(g)
          /\ Cardinality(Owers(h))' = Cardinality(Owers(h)) + 1
      BY <2>0, <3>1, OwersMove DEF One
    <3>4. unfinished[h] = Len(queue'[h]) + Cardinality(Owers(h))'
      BY <1>0, <2>0, <3>2, <3>3
    <3>5. unfinished' = [unfinished EXCEPT ![h] = unfinished[h]]
      BY <1>0, <3>1
    <3> HIDE DEF h
    <3> QED
      BY <1>a, <2>0, <3>2, <3>3, <3>4, <3>5
  <2>3. CASE TimeOut(w)
    BY <2>a, <2>3 DEF TimeOut
  <2>4. CASE CheckMode(w)
    BY <2>a, <2>4 DEF CheckMode
  <2>5. CASE Decide(w)
    <3>1. CASE ShouldRun(GenOf(w))
      BY <2>a, <2>5, <3>1 DEF Decide
    <3>2. CASE ~ShouldRun(GenOf(w))
      BY <2>a, <2>5, <3>2 DEF Decide
    <3> QED
      BY <3>1, <3>2
  <2>6. CASE Finish(w)
    BY <2>a, <2>6 DEF Finish
  <2>7. CASE RanDone(w)
    BY <2>b, <2>7 DEF RanDone
  <2>8. CASE DroppedDone(w)
    BY <2>b, <2>8 DEF DroppedDone
  <2>9. CASE NotifyDropped(w)
    BY <2>a, <2>9 DEF NotifyDropped
  <2>10. CASE ReleaseSlot(w)
    BY <2>a, <2>10 DEF ReleaseSlot
  <2>11. CASE Leave(w)
    BY <2>a, <2>11 DEF Leave
  <2> QED
    BY <1>8, <2>1, <2>2, <2>3, <2>4, <2>5, <2>6, <2>7, <2>8, <2>9, <2>10, <2>11
    DEF Work
<1>9. CASE UNCHANGED vars
  BY <1>b, <1>c, <1>9 DEF vars, workers
<1> QED
  BY <1>1, <1>2, <1>3, <1>4, <1>5, <1>6, <1>7, <1>8, <1>9, NextCases

\* unfinished_tasks is exactly what is queued plus what workers still owe a
\* task_done for, so queue.join() returns neither early nor never for want of
\* one.
THEOREM JoinTheorem == Spec => []JoinExact
<1>1. Joins => JoinExact
  BY DEF Joins, JoinExact, Owers, Owing
<1>2. Placement => Types
  BY DEF Placement
<1> QED
  BY <1>1, <1>2, JoinsInit, JoinsStep, PlacementTheorem, PTL DEF Spec

-----------------------------------------------------------------------------
(* _accepted.                                                              *)

OnTask == {"taken", "run"}

Books ==
  /\ accepted = Cardinality(OnBooks)
  /\ accepted <= Capacity

LEMMA BooksFinite ==
  /\ IsFiniteSet(OnBooks) /\ Cardinality(OnBooks) \in Nat
  /\ Capacity \in Nat
<1>1. OnBooks \in SUBSET Jobs
  BY DEF OnBooks
<1> QED
  BY <1>1, RunnerAssumption, FS_Subset, FS_CardinalityType DEF Capacity

LEMMA BooksInit == Init => Books
<1> SUFFICES ASSUME Init PROVE Books
  OBVIOUS
<1>1. \A g \in Gen : Range(queue[g]) = {}
  BY DEF Init, Range
<1>2. OnBooks = {}
  BY <1>1 DEF Init, OnBooks, Queued, Held
<1>3. Cardinality(OnBooks) = 0
  BY <1>2, FS_EmptySet
<1>4. accepted = 0
  BY DEF Init
<1> QED
  BY <1>3, <1>4, BooksFinite DEF Books

LEMMA OnBooksParts ==
  ASSUME NEW j
  PROVE  /\ j \in OnBooks <=> /\ j \in Jobs
                              /\ resv[j] = "reserved" \/ Queued(j) \/ Held(j, OnTask)
         /\ j \in OnBooks' <=> /\ j \in Jobs
                               /\ resv'[j] = "reserved" \/ Queued(j)' \/ Held(j, OnTask)'
BY DEF OnBooks, OnTask

\* A queued job is committed, of the queue's generation, and in no hands.
LEMMA QueuePlace ==
  ASSUME Placement, NEW g \in Gen, NEW j \in Range(queue[g])
  PROVE  /\ j \in Jobs /\ resv[j] = "committed" /\ resvGen[j] = g
         /\ \A w \in Worker : job[w] # j
<1>1. queue[g] \in Seq(Jobs)
  BY DEF Placement, Types, QueueType
<1>2. PICK i \in 1..Len(queue[g]) : queue[g][i] = j
  BY <1>1, RangeElements
<1>3. j \in Jobs /\ resv[j] = "committed" /\ resvGen[j] = g
  BY <1>1, <1>2 DEF Placement, QueueOK
<1>4. ASSUME NEW w \in Worker, job[w] = j PROVE FALSE
  <2>1. GenOf(w) = g
    BY <1>3, <1>4 DEF Placement, HandsOK
  <2> QED
    BY <1>2, <1>3, <1>4, <2>1 DEF Placement, HandsOK
<1> QED
  BY <1>3, <1>4

LEMMA HeldFrame ==
  ASSUME UNCHANGED job, AtWork(OnTask)' = AtWork(OnTask)
  PROVE  \A j \in Jobs : Held(j, OnTask)' <=> Held(j, OnTask)
<1>1. /\ \A j : Held(j, OnTask) <=> \E w \in AtWork(OnTask) : job[w] = j
      /\ \A j : Held(j, OnTask)' <=> \E w \in AtWork(OnTask)' : job'[w] = j
  BY DEF Held, AtWork
<1> QED
  BY <1>1

LEMMA BooksStep == Placement /\ Books /\ [Next]_vars => Books'
<1> SUFFICES ASSUME Placement, Books, [Next]_vars PROVE Books'
  OBVIOUS
<1>0. /\ Types /\ gen \in Gen /\ queue \in [Gen -> Seq(Jobs)]
      /\ pc \in [Worker -> WorkerPC] /\ job \in [Worker -> Jobs \cup {NoJob}]
      /\ resv \in [Jobs -> {"none", "reserved", "committed", "rolled_back", "cancelled"}]
      /\ Cardinality(OnBooks) \in Nat /\ IsFiniteSet(OnBooks) /\ Capacity \in Nat
      /\ accepted = Cardinality(OnBooks) /\ accepted <= Capacity
      /\ \A w \in Worker : GenOf(w) \in Gen
  BY BooksFinite, WorkerFacts
  DEF Placement, Types, AdmissionType, QueueType, WorkerType, ResvType, Books
<1>g. ASSUME NEW g, pc' \in {pc, Spawned(g)} PROVE AtWork(OnTask)' = AtWork(OnTask)
  <2>1. Types /\ OnTask \cap Outside = {}
    BY DEF Placement, OnTask, Outside
  <2> QED
    BY <1>g, <2>1, SpawnCount
\* No job moves on or off the books.
<1>a. ASSUME \A j \in Jobs : j \in OnBooks' <=> j \in OnBooks, UNCHANGED accepted
      PROVE  Books'
  <2>1. OnBooks' = OnBooks
    BY <1>a DEF OnBooks
  <2> QED
    BY <1>0, <1>a, <2>1 DEF Books
\* One job leaves them.
<1>b. ASSUME NEW k \in Jobs, k \in OnBooks, k \notin OnBooks',
             \A j \in Jobs : j # k => (j \in OnBooks' <=> j \in OnBooks),
             accepted' = accepted - 1
      PROVE  Books'
  <2>1. OnBooks' = OnBooks \ {k}
    BY <1>b DEF OnBooks
  <2>2. Cardinality(OnBooks') = Cardinality(OnBooks) - 1
    BY <1>0, <1>b, <2>1, FS_RemoveElement
  <2>3. accepted' = Cardinality(OnBooks') /\ accepted' <= Capacity
    BY <1>0, <1>b, <2>2
  <2> QED
    BY <2>3 DEF Books, Capacity
<1>c. ASSUME UNCHANGED <<queue, job, resv, accepted>>, NEW g, pc' \in {pc, Spawned(g)}
      PROVE  Books'
  <2>1. \A j \in Jobs : Queued(j)' <=> Queued(j)
    BY <1>c DEF Queued
  <2>2. \A j \in Jobs : Held(j, OnTask)' <=> Held(j, OnTask)
    <3>1. AtWork(OnTask)' = AtWork(OnTask)
      BY <1>c, <1>g
    <3> QED
      BY <1>c, <3>1, HeldFrame
  <2> QED
    BY <1>a, <1>c, <2>1, <2>2, OnBooksParts
\* A reservation is on the books as such, and nowhere else.
<1>d. ASSUME NEW k \in Jobs, resv[k] \in {"none", "reserved"}
      PROVE  ~Queued(k) /\ \A L : ~Held(k, L)
  <2>1. ~Queued(k)
    BY <1>d, QueuePlace DEF Queued
  <2>2. \A L : ~Held(k, L)
    BY <1>d, HeldPlace DEF Held
  <2> QED
    BY <2>1, <2>2
<1>1. CASE Start
  <2>1. UNCHANGED <<queue, job, resv, accepted>>
    BY <1>1 DEF Start, queues, counters, resvs
  <2>2. pc' = Spawned(gen) \/ pc' = Spawned(gen + 1)
    BY <1>1 DEF Start
  <2> QED
    BY <1>c, <2>1, <2>2
<1>2. ASSUME NEW k \in Jobs, Reserve(k) PROVE Books'
  <2>1. /\ resv[k] = "none" /\ resv' = [resv EXCEPT ![k] = "reserved"]
        /\ accepted' = accepted + 1 /\ accepted < Capacity
        /\ UNCHANGED <<queue, job>> /\ pc' = Spawned(gen)
    BY <1>2 DEF Reserve, HasRoom, queues
  <2>2. ~Queued(k) /\ ~Held(k, OnTask)
    BY <1>d, <2>1
  <2>3. \A j \in Jobs : (Queued(j)' <=> Queued(j)) /\ (Held(j, OnTask)' <=> Held(j, OnTask))
    <3>1. AtWork(OnTask)' = AtWork(OnTask)
      BY <2>1, <1>g
    <3> QED
      BY <2>1, <3>1, HeldFrame DEF Queued
  <2>4. OnBooks' = OnBooks \cup {k} /\ k \notin OnBooks
    BY <1>0, <2>1, <2>2, <2>3, OnBooksParts
  <2>5. Cardinality(OnBooks') = Cardinality(OnBooks) + 1
    BY <1>0, <2>4, FS_AddElement
  <2>6. accepted' = Cardinality(OnBooks') /\ accepted' <= Capacity
    BY <1>0, <2>1, <2>5
  <2> QED
    BY <2>6 DEF Books, Capacity
\* A reservation that is given up.
<1>e. ASSUME NEW k \in Jobs, resv[k] = "reserved", NEW s, s # "reserved",
             resv' = [resv EXCEPT ![k] = s], accepted' = accepted - 1,
             UNCHANGED <<queue, job, pc>>
      PROVE  Books'
  <2>1. \A j \in Jobs : (Queued(j)' <=> Queued(j)) /\ (Held(j, OnTask)' <=> Held(j, OnTask))
    BY <1>e DEF Queued, Held
  <2>2. k \in OnBooks /\ k \notin OnBooks'
    BY <1>0, <1>d, <1>e, <2>1, OnBooksParts
  <2>3. \A j \in Jobs : j # k => (j \in OnBooks' <=> j \in OnBooks)
    BY <1>0, <1>e, <2>1, OnBooksParts
  <2> QED
    BY <1>b, <1>e, <2>2, <2>3
<1>3. ASSUME NEW k \in Jobs, Commit(k) PROVE Books'
  <2>0. resv[k] = "reserved" /\ UNCHANGED <<job, pc>>
    BY <1>3 DEF Commit, workers
  <2>1. CASE Committable(k)
    <3>1. /\ queue' = [queue EXCEPT ![gen] = Append(@, k)]
          /\ resv' = [resv EXCEPT ![k] = "committed"] /\ UNCHANGED accepted
      BY <1>3, <2>1 DEF Commit
    <3>2. /\ \A g \in Gen : g # gen => queue'[g] = queue[g]
          /\ Range(queue'[gen]) = Range(queue[gen]) \cup {k}
      BY <1>0, <3>1, RangeAppend
    <3>3. \A j \in Jobs : Queued(j)' <=> Queued(j) \/ j = k
      BY <1>0, <3>2 DEF Queued
    <3>4. \A j \in Jobs : Held(j, OnTask)' <=> Held(j, OnTask)
      BY <2>0 DEF Held
    <3>5. \A j \in Jobs : j # k => resv'[j] = resv[j]
      BY <1>0, <3>1
    <3>6. \A j \in Jobs : j \in OnBooks' <=> j \in OnBooks
      BY <2>0, <3>3, <3>4, <3>5, OnBooksParts
    <3> QED
      BY <1>a, <3>1, <3>6
  <2>2. CASE ~Committable(k)
    BY <1>3, <1>e, <2>0, <2>2 DEF Commit, queues
  <2> QED
    BY <2>1, <2>2
<1>4. ASSUME NEW k \in Jobs, Rollback(k) PROVE Books'
  BY <1>4, <1>e DEF Rollback, queues, workers
\* _close_locked takes the reservations and the discarded tasks off the books.
<1>f. ASSUME NEW wait \in BOOLEAN, CloseQueue(wait), UNCHANGED job,
             NEW g, pc' \in {pc, Spawned(g)}
      PROVE  Books'
  <2> DEFINE D == Discarded(wait)
             R == Reserved(gen)
  <2>1. D \in Seq(Jobs) /\ R \in SUBSET Jobs
    BY <1>0, DiscardedType DEF Types, Reserved
  <2>2. \A i, k \in 1..Len(D) : D[i] = D[k] => i = k
    BY <1>0, EmptySeq DEF Discarded, Placement, QueueOK
  <2>3. IsFiniteSet(Range(D)) /\ Cardinality(Range(D)) = Len(D)
    BY <2>1, <2>2, RangeCardinality
  <2>4. Range(D) \subseteq Range(queue[gen])
    BY DEF Discarded, Range
  <2>5. Range(D) \subseteq OnBooks /\ R \subseteq OnBooks
    BY <1>0, <2>1, <2>4, QueuePlace, OnBooksParts DEF Queued, Reserved
  <2>6. R \cap Range(D) = {}
    BY <1>0, <2>4, QueuePlace DEF Reserved
  <2>7. \A j \in Jobs : resv'[j] # "reserved"
    BY <1>f DEF CloseQueue, Reserved, Placement, Generations
  <2>8. Range(queue'[gen]) = Range(queue[gen]) \ Range(D)
        /\ \A h \in Gen : h # gen => queue'[h] = queue[h]
    <3>1. CASE ClosedMode(wait) = "cancelled"
      <4>1. queue' = [queue EXCEPT ![gen] = <<>>] /\ D = queue[gen]
        BY <1>f, <3>1 DEF CloseQueue, Discarded
      <4>2. Range(<<>>) = {}
        BY DEF Range
      <4> QED
        BY <1>0, <4>1, <4>2
    <3>2. CASE ClosedMode(wait) # "cancelled"
      <4>1. queue' = queue /\ D = <<>>
        BY <1>0, <1>f, <3>2 DEF CloseQueue, Discarded
      <4>2. Range(<<>>) = {}
        BY DEF Range
      <4> QED
        BY <1>0, <4>1, <4>2
    <3> QED
      BY <3>1, <3>2
  <2>9. \A j \in Jobs : Held(j, OnTask)' <=> Held(j, OnTask)
    <3>1. AtWork(OnTask)' = AtWork(OnTask)
      BY <1>f, <1>g
    <3> QED
      BY <1>f, <3>1, HeldFrame
  <2> HIDE DEF D, R
  <2>10. ASSUME NEW j \in Jobs
         PROVE  Queued(j)' <=> Queued(j) /\ j \notin Range(D)
    <3>1. CASE j \in Range(queue[gen])
      <4>1. \A h \in Gen : j \in Range(queue[h]) => h = gen
        BY <1>0, <3>1, QueuePlace
      <4> QED
        BY <1>0, <2>8, <3>1, <4>1 DEF Queued
    <3>2. CASE j \notin Range(queue[gen])
      BY <1>0, <2>4, <2>8, <3>2 DEF Queued
    <3> QED
      BY <3>1, <3>2
  <2>11. ASSUME NEW j \in Range(D) PROVE ~Held(j, OnTask)
    BY <1>0, <2>4, QueuePlace DEF Held
  <2>12. ASSUME NEW j \in R PROVE resv[j] = "reserved" /\ ~Queued(j) /\ ~Held(j, OnTask)
    BY <1>d, <2>1 DEF R, Reserved
  <2>13. \A j \in Jobs : resv[j] = "reserved" => j \in R
    BY DEF R, Reserved, Placement, Generations
  <2>14. OnBooks' = OnBooks \ (R \cup Range(D))
    <3>1. ASSUME NEW j \in Jobs
          PROVE  j \in OnBooks' <=> j \in OnBooks /\ j \notin R /\ j \notin Range(D)
      BY <2>7, <2>9, <2>10, <2>11, <2>12, <2>13, OnBooksParts
    <3> QED
      BY <3>1 DEF OnBooks
  <2>15. IsFiniteSet(R) /\ Cardinality(R) \in Nat
    BY <1>0, <2>5, FS_Subset, FS_CardinalityType
  <2>16. /\ IsFiniteSet(R \cup Range(D))
         /\ Cardinality(R \cup Range(D)) = Cardinality(R) + Len(D)
    <3>1. Cardinality(R \cap Range(D)) = 0
      BY <2>6, FS_EmptySet
    <3>2. Len(D) \in Nat
      BY <2>1, LenProperties
    <3> QED
      BY <2>3, <2>15, <3>1, <3>2, FS_Union
  <2>17. Cardinality(OnBooks') = Cardinality(OnBooks) - Cardinality(R) - Len(D)
    <3>1. OnBooks \cap (R \cup Range(D)) = R \cup Range(D)
      BY <2>5
    <3>2. Len(D) \in Nat
      BY <2>1, LenProperties
    <3>3. Cardinality(OnBooks') = Cardinality(OnBooks) - Cardinality(R \cup Range(D))
      <4>1. IsFiniteSet(OnBooks)
        BY <1>0
      <4>2. Cardinality(OnBooks \ (R \cup Range(D)))
              = Cardinality(OnBooks) - Cardinality(OnBooks \cap (R \cup Range(D)))
        BY <2>16, <4>1, FS_Difference
      <4> QED
        BY <2>14, <3>1, <4>2
    <3> QED
      BY <1>0, <2>15, <2>16, <3>2, <3>3
  <2>18. accepted' = accepted - Cardinality(R) - Len(D)
    BY <1>f DEF CloseQueue, D, R
  <2>19. accepted' = Cardinality(OnBooks') /\ accepted' <= Capacity
    <3>1. Len(D) \in Nat
      BY <2>1, LenProperties
    <3> QED
      BY <1>0, <2>15, <2>17, <2>18, <3>1
  <2> QED
    BY <2>19 DEF Books, Capacity
<1>5. ASSUME NEW c \in Callers, Restart(c) PROVE Books'
  <2> DEFINE wait == FALSE
  <2>1. /\ CloseQueue(wait) /\ wait \in BOOLEAN
        /\ pc' \in {pc, Spawned(gen + 1)} /\ UNCHANGED job
    BY <1>5 DEF Restart
  <2> HIDE DEF wait
  <2> QED
    BY <1>f, <2>1
<1>6. ASSUME NEW c \in Callers, NEW drain \in BOOLEAN, NEW join \in BOOLEAN,
             Close(c, drain, join) PROVE Books'
  BY <1>6, <1>f DEF Close, workers
<1>7. ASSUME NEW c \in Callers, Call(c) PROVE Books'
  <2>1. UNCHANGED <<queue, job, resv, pc>>
    BY <1>7, CallEffect DEF queues, resvs, workers
  <2>2. UNCHANGED accepted
    BY <1>7 DEF Call, NotifyCancelled, NotifiedReturn, NotifiedWait, QueueJoined,
                ThreadsJoined, Return, counters
  <2> QED
    BY <1>c, <2>1, <2>2
<1>8. ASSUME NEW w \in Worker, Work(w) PROVE Books'
  <2>0. UNCHANGED resv
    BY <1>8, WorkEffect DEF resvs
  \* Whether w's hands are on the books does not change.
  <2>a. ASSUME NEW l, Goto(w, l), l \in OnTask <=> pc[w] \in OnTask,
               job'[w] = job[w] \/ pc[w] \notin OnTask,
               \A v \in Worker : v # w => job'[v] = job[v],
               UNCHANGED <<queue, accepted>>
        PROVE  Books'
    <3>1. pc'[w] = l /\ \A v \in Worker : v # w => pc'[v] = pc[v]
      BY <1>0, <2>a, MoveCount
    <3>2. \A j \in Jobs : (Queued(j)' <=> Queued(j)) /\ (Held(j, OnTask)' <=> Held(j, OnTask))
      BY <2>a, <3>1 DEF Queued, Held
    <3> QED
      BY <1>a, <2>0, <2>a, <3>2, OnBooksParts
  \* w's job leaves the books.
  <2>b. ASSUME NEW l, Goto(w, l), l \notin OnTask, pc[w] \in OnTask,
               UNCHANGED <<queue, job>>, accepted' = accepted - 1
        PROVE  Books'
    <3>0. job[w] \in Jobs
      BY <2>b DEF Placement, Types, WorkerType, Busy, OnTask
    <3>1. pc'[w] = l /\ \A v \in Worker : v # w => pc'[v] = pc[v]
      BY <1>0, <2>b, MoveCount
    <3>2. /\ resv[job[w]] = "committed" /\ ~Queued(job[w])
          /\ \A v \in Worker : job[v] = job[w] => v = w
      BY <3>0, HeldPlace
    <3>3. \A j \in Jobs : Queued(j)' <=> Queued(j)
      BY <2>b DEF Queued
    <3>4. \A j \in Jobs : j # job[w] => (Held(j, OnTask)' <=> Held(j, OnTask))
      BY <2>b, <3>1 DEF Held
    <3>5. Held(job[w], OnTask)
      BY <2>b DEF Held
    <3>6. PICK k \in Jobs : k = job[w]
      BY <3>0
    <3>7. ~Held(k, OnTask)'
      BY <2>b, <3>1, <3>2, <3>6 DEF Held
    <3>8. k \in OnBooks /\ k \notin OnBooks'
      BY <2>0, <3>2, <3>3, <3>5, <3>6, <3>7, OnBooksParts
    <3>9. \A j \in Jobs : j # k => (j \in OnBooks' <=> j \in OnBooks)
      BY <2>0, <3>3, <3>4, <3>6, OnBooksParts
    <3> QED
      BY <1>b, <2>b, <3>8, <3>9
  <2> USE DEF OnTask
  <2>1. CASE AcquireSlot(w)
    BY <2>a, <2>1 DEF AcquireSlot, queues
  <2>2. CASE Take(w)
    <3>1. PICK h \in Gen : h = GenOf(w)
      BY <1>0
    <3>2. /\ queue[h] \in Seq(Jobs) /\ queue[h] # <<>>
          /\ queue' = [queue EXCEPT ![h] = Tail(@)]
          /\ job' = [job EXCEPT ![w] = Head(queue[h])]
          /\ pc[w] = "loop" /\ Goto(w, "taken") /\ UNCHANGED accepted
      BY <1>0, <2>2, <3>1 DEF Take, counters
    <3>3. \A i, m \in 1..Len(queue[h]) : queue[h][i] = queue[h][m] => i = m
      BY DEF Placement, QueueOK
    <3>4. PICK k \in Jobs : k = Head(queue[h])
      BY <3>2, TailElements
    <3>5. Range(Tail(queue[h])) = Range(queue[h]) \ {k}
      BY <3>2, <3>3, <3>4, RangeTail
    <3>6. k \in Range(queue[h])
      BY <3>2, <3>4, TailElements, RangeElements
    <3>7. \A g \in Gen : k \in Range(queue[g]) => g = h
      BY <3>6, QueuePlace
    <3>8. /\ Range(queue'[h]) = Range(queue[h]) \ {k}
          /\ \A g \in Gen : g # h => queue'[g] = queue[g]
      BY <1>0, <3>2, <3>5
    <3>9. \A j \in Jobs : Queued(j)' <=> Queued(j) /\ j # k
      BY <3>7, <3>8 DEF Queued
    <3>10. pc'[w] = "taken" /\ \A v \in Worker : v # w => pc'[v] = pc[v]
      BY <1>0, <3>2, MoveCount
    <3>11. job'[w] = k /\ \A v \in Worker : v # w => job'[v] = job[v]
      BY <1>0, <3>2, <3>4
    <3>12. \A j \in Jobs : Held(j, OnTask)' <=> Held(j, OnTask) \/ j = k
      BY <3>2, <3>10, <3>11 DEF Held
    <3>13. Queued(k)
      BY <3>6 DEF Queued
    <3> QED
      BY <1>a, <2>0, <3>2, <3>9, <3>12, <3>13, OnBooksParts
  <2>3. CASE TimeOut(w)
    BY <2>a, <2>3 DEF TimeOut, queues, counters
  <2>4. CASE CheckMode(w)
    BY <2>a, <2>4 DEF CheckMode, queues, counters
  <2>5. CASE Decide(w)
    <3>1. CASE ShouldRun(GenOf(w))
      BY <2>a, <2>5, <3>1 DEF Decide, queues
    <3>2. CASE ~ShouldRun(GenOf(w))
      BY <2>b, <2>5, <3>2 DEF Decide, queues
    <3> QED
      BY <3>1, <3>2
  <2>6. CASE Finish(w)
    BY <2>b, <2>6 DEF Finish, queues
  <2>7. CASE RanDone(w)
    BY <1>0, <2>a, <2>7 DEF RanDone, counters
  <2>8. CASE DroppedDone(w)
    BY <2>a, <2>8 DEF DroppedDone, counters
  <2>9. CASE NotifyDropped(w)
    BY <1>0, <2>a, <2>9 DEF NotifyDropped, queues, counters
  <2>10. CASE ReleaseSlot(w)
    BY <2>a, <2>10 DEF ReleaseSlot, queues
  <2>11. CASE Leave(w)
    BY <2>a, <2>11 DEF Leave, queues, counters
  <2> QED
    BY <1>8, <2>1, <2>2, <2>3, <2>4, <2>5, <2>6, <2>7, <2>8, <2>9, <2>10, <2>11
    DEF Work
<1>9. CASE UNCHANGED vars
  <2>1. UNCHANGED <<queue, job, resv, accepted, pc>>
    BY <1>9 DEF vars, queues, workers, resvs, counters
  <2> QED
    BY <1>c, <2>1
<1> QED
  BY <1>1, <1>2, <1>3, <1>4, <1>5, <1>6, <1>7, <1>8, <1>9, NextCases

\* _accepted is the number of jobs that are reserved, queued, taken or running,
\* in any generation, and never passes the capacity.
THEOREM AdmissionTheorem == Spec => []AdmissionExact
<1>1. Books => AdmissionExact
  BY DEF Books, AdmissionExact
<1> QED
  BY <1>1, BooksInit, BooksStep, PlacementTheorem, PTL DEF Spec

\* A pending reservation belongs to the open generation and finds room in its
\* queue, so commit refuses only what a close has cancelled.
THEOREM CommittableTheorem == Spec => []PendingIsCommittable
<1>1. Placement /\ Books => PendingIsCommittable
  <2> SUFFICES ASSUME Placement, Books, NEW j \in Jobs, resv[j] = "reserved"
               PROVE  Committable(j)
    BY DEF PendingIsCommittable
  <2>0. gen \in Gen /\ queue[gen] \in Seq(Jobs)
    BY DEF Placement, Types, AdmissionType, QueueType
  <2>1. Open /\ resvGen[j] = gen
    BY DEF Placement, Generations, Open
  <2>2. \A i, k \in 1..Len(queue[gen]) : queue[gen][i] = queue[gen][k] => i = k
    BY <2>0 DEF Placement, QueueOK
  <2>3. /\ IsFiniteSet(Range(queue[gen]))
        /\ Cardinality(Range(queue[gen])) = Len(queue[gen])
    BY <2>0, <2>2, RangeCardinality
  <2>4. j \notin Range(queue[gen])
    BY <2>0, QueuePlace
  <2>5. Range(queue[gen]) \cup {j} \in SUBSET OnBooks
    BY <2>0, QueuePlace, OnBooksParts DEF Queued
  <2>6. Cardinality(Range(queue[gen]) \cup {j}) = Len(queue[gen]) + 1
    BY <2>3, <2>4, FS_AddElement
  <2>7. Len(queue[gen]) + 1 <= Cardinality(OnBooks)
    BY <2>5, <2>6, BooksFinite, FS_Subset
  <2>8. Len(queue[gen]) \in Nat
    BY <2>0, LenProperties
  <2>9. Len(queue[gen]) < Capacity
    BY <2>7, <2>8, BooksFinite DEF Books
  <2> QED
    BY <2>1, <2>9 DEF Committable
<1> QED
  BY <1>1, BooksInit, BooksStep, PlacementTheorem, PTL DEF Spec

\* No counter ever goes below zero, and every variable keeps its type.
THEOREM TypeTheorem == Spec => []TypeOK
<1>1. Placement /\ Books /\ Threads /\ Joins => TypeOK
  <2> SUFFICES ASSUME Placement, Books, Threads, Joins PROVE TypeOK
    OBVIOUS
  <2>1. accepted \in Nat /\ active \in Nat /\ slots \in Nat
    BY BooksFinite, WorkersFinite DEF Books, Threads
  <2>2. unfinished \in [Gen -> Nat]
    BY DEF Joins
  <2> QED
    BY <2>1, <2>2 DEF Placement, Types, AdmissionType, QueueType, ResvType,
                      WorkerType, CallType, HistoryType, TypeOK
<1>2. Placement => Types
  BY DEF Placement
<1> QED
  BY <1>1, <1>2, BooksInit, BooksStep, ThreadsInit, ThreadsStep, JoinsInit,
     JoinsStep, PlacementTheorem, PTL DEF Spec

-----------------------------------------------------------------------------
(* A waiting shutdown returns to a quiet runner.                           *)

\* What a waiting call knows: its generation is closed for good, the threads
\* it does not wait for have ended or will never start, and once past
\* queue.join() the queue is empty.
Waits ==
  \A c \in Callers :
    /\ cpc[c] \in {"join", "threads"} => waitGen[c] # 0
    /\ waitGen[c] # 0 =>
         /\ waitGen[c] <= gen /\ mode[waitGen[c]] # "running"
         /\ \A w \in Worker : GenOf(w) <= waitGen[c] /\ w \notin waitFor[c]
                                => pc[w] \in {"absent", "gone"}
    /\ cpc[c] = "threads" => queue[waitGen[c]] = <<>>

\* A thread is started only for a generation that is open.
LEMMA StartsOpen ==
  ASSUME Placement, [Next]_vars, NEW w \in Worker,
         pc[w] \in {"absent", "gone"}, pc'[w] \notin {"absent", "gone"}
  PROVE  GenOf(w) > gen \/ (GenOf(w) = gen /\ mode[gen] = "running")
<1>0. /\ gen \in Gen /\ gen \in Nat /\ GenOf(w) \in Nat
      /\ pc \in [Worker -> WorkerPC]
  BY WorkerFacts DEF Placement, Types, AdmissionType, WorkerType
<1>1. ASSUME NEW g, pc' = Spawned(g) PROVE GenOf(w) = g
  BY <1>1 DEF Spawned
<1>2. CASE Start
  <2>1. CASE Open
    BY <1>1, <1>2, <2>1 DEF Start, Open
  <2>2. CASE ~Open
    <3>1. GenOf(w) = gen + 1
      BY <1>1, <1>2, <2>2 DEF Start
    <3> QED
      BY <1>0, <3>1
  <2> QED
    BY <2>1, <2>2
<1>3. ASSUME NEW j \in Jobs, Reserve(j) \/ Commit(j) \/ Rollback(j)
      PROVE  GenOf(w) = gen /\ mode[gen] = "running"
  BY <1>1, <1>3 DEF Reserve, Commit, Rollback, workers, Open
<1>4. ASSUME NEW c \in Callers, Restart(c) PROVE GenOf(w) > gen
  <2>1. GenOf(w) = gen + 1
    BY <1>1, <1>4 DEF Restart
  <2> QED
    BY <1>0, <2>1
<1>5. ASSUME NEW c \in Callers, NEW drain \in BOOLEAN, NEW join \in BOOLEAN,
             Close(c, drain, join)
      PROVE  FALSE
  BY <1>5 DEF Close, workers
<1>6. ASSUME NEW c \in Callers, Call(c) PROVE FALSE
  BY <1>6, CallEffect DEF workers
<1>7. ASSUME NEW v \in Worker, Work(v) PROVE FALSE
  <2>1. pc[v] \notin {"absent", "gone"} /\ \A u \in Worker : u # v => pc'[u] = pc[u]
    <3>1. CASE AcquireSlot(v) \/ Take(v) \/ TimeOut(v) \/ CheckMode(v)
      BY <1>0, <3>1 DEF AcquireSlot, Take, TimeOut, CheckMode, Goto
    <3>2. CASE Decide(v) \/ Finish(v) \/ RanDone(v) \/ DroppedDone(v)
      BY <1>0, <3>2 DEF Decide, Finish, RanDone, DroppedDone, Goto
    <3>3. CASE NotifyDropped(v) \/ ReleaseSlot(v) \/ Leave(v)
      BY <1>0, <3>3 DEF NotifyDropped, ReleaseSlot, Leave, Goto
    <3> QED
      BY <1>7, <3>1, <3>2, <3>3 DEF Work
  <2> QED
    BY <2>1
<1>8. CASE UNCHANGED vars
  BY <1>8 DEF vars, workers
<1> QED
  BY <1>2, <1>3, <1>4, <1>5, <1>6, <1>7, <1>8, NextCases

\* A generation that is not open never opens again, and gen never decreases.
LEMMA StaysClosed ==
  ASSUME Placement, [Next]_vars
  PROVE  /\ gen' >= gen
         /\ \A g \in Gen : g <= gen /\ mode[g] # "running" => mode'[g] # "running"
<1>0. gen \in Gen /\ gen \in Nat /\ \A g \in Gen : g \in Nat
  BY WorkerFacts DEF Placement, Types, AdmissionType
<1>1. mode \in [Gen -> {"unborn", "running", "draining", "cancelled"}]
  BY DEF Placement, Types, AdmissionType
<1>2. CASE UNCHANGED admission
  BY <1>0, <1>2 DEF admission
<1>3. ASSUME NEW m \in {"running", "draining", "cancelled"}, m = mode[gen] \/ m # "running",
             gen' = gen + 1, gen < MaxGen,
             mode' = [mode EXCEPT ![gen] = m, ![gen + 1] = "running"]
      PROVE  /\ gen' >= gen
             /\ \A g \in Gen : g <= gen /\ mode[g] # "running" => mode'[g] # "running"
  <2>1. gen + 1 \in Gen /\ \A g \in Gen : g <= gen => g # gen + 1
    BY <1>0, <1>3, WorkerFacts
  <2> QED
    BY <1>0, <1>1, <1>3, <2>1
<1>4. CASE Start
  <2>1. CASE Open
    BY <1>2, <1>4, <2>1 DEF Start
  <2>2. CASE ~Open
    <3>1. mode[gen] \in {"running", "draining", "cancelled"}
      BY <1>0, <1>1 DEF Placement, Generations
    <3>2. mode' = [mode EXCEPT ![gen] = mode[gen], ![gen + 1] = "running"]
      BY <1>0, <1>1, <1>4, <2>2 DEF Start
    <3>3. gen' = gen + 1 /\ gen < MaxGen
      BY <1>4, <2>2 DEF Start
    <3> QED
      BY <1>3, <3>1, <3>2, <3>3
  <2> QED
    BY <2>1, <2>2
<1>5. ASSUME NEW j \in Jobs, Reserve(j) \/ Commit(j) \/ Rollback(j)
      PROVE  UNCHANGED admission
  BY <1>5 DEF Reserve, Commit, Rollback
<1>6. ASSUME NEW c \in Callers, Restart(c)
      PROVE  /\ gen' = gen + 1 /\ gen < MaxGen
             /\ mode' = [mode EXCEPT ![gen] = "cancelled", ![gen + 1] = "running"]
  BY <1>6 DEF Restart
<1>7. ASSUME NEW c \in Callers, NEW drain \in BOOLEAN, NEW join \in BOOLEAN,
             Close(c, drain, join)
      PROVE  /\ gen' >= gen
             /\ \A g \in Gen : g <= gen /\ mode[g] # "running" => mode'[g] # "running"
  <2>1. ClosedMode(drain) # "running"
    BY DEF ClosedMode
  <2> QED
    BY <1>0, <1>1, <1>7, <2>1 DEF Close
<1>8. ASSUME NEW c \in Callers, Call(c) PROVE UNCHANGED admission
  BY <1>8, CallEffect
<1>9. ASSUME NEW w \in Worker, Work(w) PROVE UNCHANGED admission
  BY <1>9, WorkEffect
<1>10. CASE UNCHANGED vars
  BY <1>2, <1>10 DEF vars
<1>11. ASSUME NEW c \in Callers, Restart(c)
       PROVE  /\ gen' >= gen
              /\ \A g \in Gen : g <= gen /\ mode[g] # "running" => mode'[g] # "running"
  BY <1>3, <1>6, <1>11
<1> QED
  BY <1>2, <1>4, <1>5, <1>7, <1>8, <1>9, <1>10, <1>11, NextCases

\* What a step does to one waiting call: nothing, or the call begins or moves on.
LEMMA WaitEffect ==
  ASSUME Types, [Next]_vars, NEW c \in Callers
  PROVE  \/ /\ waitGen'[c] = waitGen[c] /\ waitFor'[c] = waitFor[c]
            /\ cpc'[c] = cpc[c] \/ cpc'[c] = "notify"
         \/ waitGen'[c] = 0 /\ cpc'[c] \in {"idle", "notify"}
         \/ /\ waitGen'[c] = gen /\ waitFor'[c] = AllThreads /\ cpc'[c] = "notify"
            /\ gen' = gen /\ UNCHANGED pc /\ mode'[gen] # "running"
         \/ NotifiedWait(c) \/ QueueJoined(c)
<1> DEFINE Goal(d) ==
         \/ /\ waitGen'[d] = waitGen[d] /\ waitFor'[d] = waitFor[d]
            /\ cpc'[d] = cpc[d] \/ cpc'[d] = "notify"
         \/ waitGen'[d] = 0 /\ cpc'[d] \in {"idle", "notify"}
         \/ /\ waitGen'[d] = gen /\ waitFor'[d] = AllThreads /\ cpc'[d] = "notify"
            /\ gen' = gen /\ UNCHANGED pc /\ mode'[gen] # "running"
         \/ NotifiedWait(d) \/ QueueJoined(d)
<1>0. /\ cpc \in [Callers -> {"idle", "notify", "join", "threads"}]
      /\ waitGen \in [Callers -> Gen \cup {0}]
      /\ waitFor \in [Callers -> SUBSET Worker]
      /\ gen \in Gen /\ mode \in [Gen -> {"unborn", "running", "draining", "cancelled"}]
  BY DEF Types, CallType, AdmissionType
<1>1. UNCHANGED calls => Goal(c)
  BY DEF calls
<1>2. ASSUME Start PROVE Goal(c)
  BY <1>1, <1>2 DEF Start
<1>3. ASSUME NEW j \in Jobs, Reserve(j) \/ Commit(j) \/ Rollback(j) PROVE Goal(c)
  BY <1>1, <1>3 DEF Reserve, Commit, Rollback
<1>4. ASSUME NEW d \in Callers, Restart(d) PROVE Goal(c)
  BY <1>0, <1>4 DEF Restart, Enter
<1>5. ASSUME NEW d \in Callers, NEW drain \in BOOLEAN, NEW join \in BOOLEAN,
             Close(d, drain, join)
      PROVE  Goal(c)
  <2>1. /\ ClosedMode(drain) # "running" /\ mode'[gen] = ClosedMode(drain)
        /\ cpc' = [cpc EXCEPT ![d] = "notify"] /\ gen' = gen /\ UNCHANGED pc
        /\ waitGen' \in {[waitGen EXCEPT ![d] = gen], [waitGen EXCEPT ![d] = 0]}
        /\ waitFor' = [waitFor EXCEPT ![d] = AllThreads]
    BY <1>0, <1>5 DEF Close, Enter, ClosedMode, workers
  <2> QED
    BY <1>0, <2>1
<1>6. ASSUME NEW d \in Callers, Call(d) PROVE Goal(c)
  <2>1. CASE NotifyCancelled(d)
    BY <2>1 DEF NotifyCancelled
  <2>2. CASE NotifiedReturn(d) \/ ThreadsJoined(d)
    BY <1>0, <2>2 DEF NotifiedReturn, ThreadsJoined, Return
  <2>3. CASE NotifiedWait(d) \/ QueueJoined(d)
    BY <1>0, <2>3 DEF NotifiedWait, QueueJoined
  <2> QED
    BY <1>6, <2>1, <2>2, <2>3 DEF Call
<1>7. ASSUME NEW w \in Worker, Work(w) PROVE Goal(c)
  BY <1>1, <1>7, WorkEffect
<1>8. ASSUME UNCHANGED vars PROVE Goal(c)
  BY <1>1, <1>8 DEF vars
<1> HIDE DEF Goal
<1>9. Goal(c)
  BY <1>2, <1>3, <1>4, <1>5, <1>6, <1>7, <1>8, NextCases
<1> QED
  BY <1>9 DEF Goal

LEMMA WaitsStep == Placement /\ Joins /\ Waits /\ [Next]_vars => Waits'
<1> SUFFICES ASSUME Placement, Joins, Waits, [Next]_vars, NEW c \in Callers
    PROVE
    /\ cpc'[c] \in {"join", "threads"} => waitGen'[c] # 0
    /\ waitGen'[c] # 0 =>
         /\ waitGen'[c] <= gen' /\ mode'[waitGen'[c]] # "running"
         /\ \A w \in Worker : GenOf(w) <= waitGen'[c] /\ w \notin waitFor'[c]
                                => pc'[w] \in {"absent", "gone"}
    /\ cpc'[c] = "threads" => queue'[waitGen'[c]] = <<>>
  BY DEF Waits
<1>0. /\ Types /\ gen \in Gen /\ gen \in Nat /\ gen' \in Gen /\ gen' \in Nat
      /\ \A g \in Gen : g \in Nat /\ g # 0
      /\ \A w \in Worker : GenOf(w) \in Gen
      /\ waitGen[c] \in Gen \cup {0}
      /\ cpc \in [Callers -> {"idle", "notify", "join", "threads"}]
      /\ queue \in [Gen -> Seq(Jobs)] /\ pc \in [Worker -> WorkerPC]
      /\ \A g \in Gen : Len(queue[g]) \in Nat
  BY WorkerFacts, TypesStep, LenProperties
  DEF Placement, Types, AdmissionType, CallType, QueueType, WorkerType
<1>1. /\ cpc[c] \in {"join", "threads"} => waitGen[c] # 0
      /\ waitGen[c] # 0 =>
           /\ waitGen[c] <= gen /\ mode[waitGen[c]] # "running"
           /\ \A w \in Worker : GenOf(w) <= waitGen[c] /\ w \notin waitFor[c]
                                  => pc[w] \in {"absent", "gone"}
      /\ cpc[c] = "threads" => queue[waitGen[c]] = <<>>
  BY DEF Waits
\* What stays true of the generation a call waits for.
<1>2. ASSUME waitGen[c] # 0
      PROVE  /\ waitGen[c] \in Gen /\ waitGen[c] <= gen'
             /\ mode'[waitGen[c]] # "running"
             /\ \A w \in Worker : GenOf(w) <= waitGen[c] /\ w \notin waitFor[c]
                                    => pc'[w] \in {"absent", "gone"}
             /\ queue[waitGen[c]] = <<>> => queue'[waitGen[c]] = <<>>
  <2>0. waitGen[c] \in Gen /\ waitGen[c] \in Nat
    BY <1>0, <1>2
  <2>1. waitGen[c] <= gen' /\ mode'[waitGen[c]] # "running"
    BY <1>0, <1>1, <1>2, <2>0, StaysClosed
  <2>2. ASSUME NEW w \in Worker, GenOf(w) <= waitGen[c], w \notin waitFor[c],
               pc'[w] \notin {"absent", "gone"}
        PROVE  FALSE
    <3>1. pc[w] \in {"absent", "gone"}
      BY <1>1, <1>2, <2>2
    <3>2. GenOf(w) > gen \/ (GenOf(w) = gen /\ mode[gen] = "running")
      BY <2>2, <3>1, StartsOpen
    <3>3. GenOf(w) = gen /\ waitGen[c] = gen
      <4>1. GenOf(w) \in Nat /\ GenOf(w) <= waitGen[c] /\ waitGen[c] <= gen
        BY <1>0, <1>1, <1>2, <2>2
      <4> QED
        BY <1>0, <2>0, <3>2, <4>1
    <3> QED
      BY <1>0, <1>1, <1>2, <3>2, <3>3
  <2>3. ASSUME queue[waitGen[c]] = <<>> PROVE queue'[waitGen[c]] = <<>>
    <3>1. CASE UNCHANGED queue
      BY <2>3, <3>1
    <3>2. CASE queue' = [queue EXCEPT ![gen] = <<>>]
      BY <1>0, <2>0, <2>3, <3>2
    <3>3. ASSUME NEW j \in Jobs, Committable(j),
                 queue' = [queue EXCEPT ![gen] = Append(@, j)]
          PROVE  queue'[waitGen[c]] = <<>>
      BY <1>0, <1>1, <1>2, <2>0, <2>3, <3>3 DEF Committable, Open
    <3>4. ASSUME NEW w \in Worker, Take(w) PROVE queue'[waitGen[c]] = <<>>
      BY <1>0, <2>0, <2>3, <3>4 DEF Take
    <3> QED
      BY <1>0, <3>1, <3>2, <3>3, <3>4, QueueEffect
  <2> QED
    BY <2>0, <2>1, <2>2, <2>3
<1>3. CASE /\ waitGen'[c] = waitGen[c] /\ waitFor'[c] = waitFor[c]
           /\ cpc'[c] = cpc[c] \/ cpc'[c] = "notify"
  BY <1>1, <1>2, <1>3
<1>4. CASE waitGen'[c] = 0 /\ cpc'[c] \in {"idle", "notify"}
  BY <1>4
<1>5. CASE /\ waitGen'[c] = gen /\ waitFor'[c] = AllThreads /\ cpc'[c] = "notify"
           /\ gen' = gen /\ UNCHANGED pc /\ mode'[gen] # "running"
  BY <1>0, <1>5 DEF AllThreads
<1>6. CASE NotifiedWait(c)
  <2>1. waitGen[c] # 0 /\ waitGen'[c] = waitGen[c] /\ waitFor'[c] = waitFor[c]
        /\ cpc'[c] = "join"
    BY <1>0, <1>6 DEF NotifiedWait
  <2> QED
    BY <1>2, <2>1
<1>7. CASE QueueJoined(c)
  <2>1. /\ cpc[c] = "join" /\ unfinished[waitGen[c]] = 0
        /\ waitGen'[c] = waitGen[c] /\ waitFor'[c] = waitFor[c]
        /\ cpc'[c] = "threads"
    BY <1>0, <1>7 DEF QueueJoined
  <2>2. waitGen[c] # 0 /\ waitGen[c] \in Gen
    BY <1>0, <1>1, <2>1
  <2>3. Len(queue[waitGen[c]]) = 0
    <3>1. PICK g \in Gen : g = waitGen[c]
      BY <2>2
    <3>2. Len(queue[g]) \in Nat /\ Cardinality(Owers(g)) \in Nat
      BY <1>0, OwersFinite
    <3>3. 0 = Len(queue[g]) + Cardinality(Owers(g))
      BY <2>1, <3>1 DEF Joins
    <3> QED
      BY <3>1, <3>2, <3>3
  <2>4. queue[waitGen[c]] = <<>>
    BY <1>0, <2>2, <2>3, EmptySeq
  <2> QED
    BY <1>2, <2>1, <2>2, <2>4
<1> QED
  BY <1>0, <1>3, <1>4, <1>5, <1>6, <1>7, WaitEffect

\* Only a call that has joined every thread leaves the last wait.
LEMMA ReturnsJoined ==
  ASSUME Types, [Next]_vars, NEW c \in Callers, cpc[c] = "threads", cpc'[c] = "idle"
  PROVE  \A w \in waitFor[c] : pc[w] = "gone"
<1>0. cpc \in [Callers -> {"idle", "notify", "join", "threads"}]
  BY DEF Types, CallType
<1>1. ~UNCHANGED calls
  BY DEF calls
<1>2. ~Start /\ \A j \in Jobs : ~Reserve(j) /\ ~Commit(j) /\ ~Rollback(j)
  BY <1>1 DEF Start, Reserve, Commit, Rollback
<1>3. ASSUME NEW d \in Callers, Restart(d) PROVE FALSE
  BY <1>0, <1>3 DEF Restart, Enter
<1>4. ASSUME NEW d \in Callers, NEW drain \in BOOLEAN, NEW join \in BOOLEAN,
             Close(d, drain, join)
      PROVE  FALSE
  BY <1>0, <1>4 DEF Close, Enter
<1>5. ASSUME NEW d \in Callers, Call(d) PROVE \A w \in waitFor[c] : pc[w] = "gone"
  <2>1. CASE NotifyCancelled(d) \/ NotifiedWait(d) \/ QueueJoined(d)
    BY <1>0, <2>1 DEF NotifyCancelled, NotifiedWait, QueueJoined
  <2>2. CASE NotifiedReturn(d) \/ ThreadsJoined(d)
    BY <1>0, <2>2 DEF NotifiedReturn, ThreadsJoined, Return
  <2> QED
    BY <1>5, <2>1, <2>2 DEF Call
<1>6. ASSUME NEW w \in Worker, Work(w) PROVE FALSE
  BY <1>1, <1>6, WorkEffect
<1>7. ~UNCHANGED vars
  BY <1>1 DEF vars
<1> QED
  BY <1>2, <1>3, <1>4, <1>5, <1>6, <1>7, NextCases

\* When a waiting shutdown returns, no thread of its generation or an older one
\* is alive, and the generation's queue is empty.
THEOREM QuietReturnTheorem == Spec => QuietReturn
<1>1. Init => Waits
  BY DEF Init, Waits
<1>2. Placement /\ Joins /\ Waits /\ [Next]_vars => Waits'
  BY WaitsStep
<1>3. Placement /\ Waits /\ [Next]_vars =>
        [\A c \in Callers : cpc[c] = "threads" /\ cpc'[c] = "idle" =>
           /\ \A w \in Worker : GenOf(w) <= waitGen[c] => pc[w] \in {"absent", "gone"}
           /\ queue[waitGen[c]] = <<>>]_vars
  <2> SUFFICES ASSUME Placement, Waits, [Next]_vars, NEW c \in Callers,
                      cpc[c] = "threads", cpc'[c] = "idle"
               PROVE  /\ \A w \in Worker : GenOf(w) <= waitGen[c]
                                             => pc[w] \in {"absent", "gone"}
                      /\ queue[waitGen[c]] = <<>>
    OBVIOUS
  <2>1. waitGen[c] # 0 /\ queue[waitGen[c]] = <<>>
    BY DEF Waits
  <2>2. \A w \in waitFor[c] : pc[w] = "gone"
    BY ReturnsJoined DEF Placement
  <2> QED
    BY <2>1, <2>2 DEF Waits
<1>4. Placement => Types
  BY DEF Placement
<1> QED
  BY <1>1, <1>2, <1>3, <1>4, JoinsInit, JoinsStep, PlacementTheorem, PTL
  DEF Spec, QuietReturn

=============================================================================
