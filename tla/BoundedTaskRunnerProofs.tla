----------------------- MODULE BoundedTaskRunnerProofs -----------------------
(***************************************************************************)
(* Proofs about BoundedTaskRunner, for any number of jobs, callers,        *)
(* workers and generations.                                                *)
(***************************************************************************)
EXTENDS BoundedTaskRunner, FiniteSetTheorems, SequenceTheorems, TLAPS

\* Where a worker has a task in its hands.
Busy == {"taken", "run", "ran", "dropped", "notify"}

(* TypeOK without the counters, whose range follows from what they count,  *)
(* one conjunct for each group of variables.                               *)
AdmissionType ==
  /\ gen \in Gen /\ closed \in BOOLEAN
  /\ mode \in [Gen -> {"unborn", "running", "draining", "cancelled"}]
QueueType == queue \in [Gen -> Seq(Jobs)]
ResvType ==
  /\ resv \in [Jobs -> {"none", "reserved", "committed", "rolled_back", "cancelled"}]
  /\ resvGen \in [Jobs -> Gen \cup {0}]
WorkerType ==
  /\ pc \in [Worker -> WorkerPC]
  /\ job \in [Worker -> Jobs \cup {NoJob}]
  /\ \A w \in Worker : pc[w] \in Busy <=> job[w] \in Jobs
CallType ==
  /\ cpc \in [Callers -> {"idle", "notify", "join", "threads"}]
  /\ host \in [Callers -> Worker \cup {External}]
  /\ toNotify \in [Callers -> Seq(Jobs)]
  /\ waitGen \in [Callers -> Gen \cup {0}]
  /\ waitFor \in [Callers -> SUBSET Worker]
HistoryType == runs \in [Jobs -> Nat] /\ told \in [Jobs -> Nat]

Types == AdmissionType /\ QueueType /\ ResvType /\ WorkerType /\ CallType /\ HistoryType

LEMMA WorkerFacts ==
  /\ \A w \in Worker : GenOf(w) \in Gen
  /\ Gen \subseteq Nat \ {0}
  /\ 1 \in Gen
  /\ \A g \in Gen : g < MaxGen => g + 1 \in Gen /\ g + 1 # g
  /\ External \notin Worker
  /\ NoJob \notin Jobs
BY RunnerAssumption DEF Worker, Gen, GenOf

LEMMA TypesInit == Init => Types
<1> SUFFICES ASSUME Init PROVE Types
  OBVIOUS
<1>1. AdmissionType
  BY WorkerFacts DEF Init, AdmissionType
<1>2. QueueType /\ ResvType
  BY DEF Init, QueueType, ResvType
<1>3. WorkerType
  BY WorkerFacts DEF Init, WorkerType, WorkerPC, Busy
<1>4. CallType
  BY DEF Init, CallType
<1>5. HistoryType
  BY DEF Init, HistoryType
<1> QED
  BY <1>1, <1>2, <1>3, <1>4, <1>5 DEF Types

\* A group of variables that does not change keeps its type.
LEMMA TypesFrame ==
  /\ AdmissionType /\ UNCHANGED admission => AdmissionType'
  /\ QueueType /\ UNCHANGED queue => QueueType'
  /\ QueueType /\ UNCHANGED queues => QueueType'
  /\ ResvType /\ UNCHANGED resvs => ResvType'
  /\ WorkerType /\ UNCHANGED workers => WorkerType'
  /\ CallType /\ UNCHANGED calls => CallType'
  /\ HistoryType /\ UNCHANGED history => HistoryType'
<1>1. AdmissionType /\ UNCHANGED admission => AdmissionType'
  BY DEF AdmissionType, admission
<1>2. QueueType /\ (UNCHANGED queue \/ UNCHANGED queues) => QueueType'
  BY DEF QueueType, queues
<1>3. ResvType /\ UNCHANGED resvs => ResvType'
  BY DEF ResvType, resvs
<1>4. WorkerType /\ UNCHANGED workers => WorkerType'
  BY DEF WorkerType, workers, Busy
<1>5. CallType /\ UNCHANGED calls => CallType'
  BY DEF CallType, calls
<1>6. HistoryType /\ UNCHANGED history => HistoryType'
  BY DEF HistoryType, history
<1> QED
  BY <1>1, <1>2, <1>3, <1>4, <1>5, <1>6

LEMMA DiscardedType ==
  ASSUME AdmissionType, QueueType, NEW wait \in BOOLEAN
  PROVE  Discarded(wait) \in Seq(Jobs)
BY EmptySeq DEF Discarded, QueueType, AdmissionType

LEMMA TypesStep == Types /\ [Next]_vars => Types'
<1> SUFFICES ASSUME Types, [Next]_vars PROVE Types'
  OBVIOUS
<1> USE TypesFrame DEF Types
<1>1. CASE Start
  <2>1. AdmissionType'
    <3>1. CASE Open
      BY <1>1, <3>1 DEF Start
    <3>2. CASE ~Open
      <4>1. gen + 1 \in Gen
        BY <1>1, <3>2, WorkerFacts DEF Start, AdmissionType
      <4> QED
        BY <1>1, <3>2, <4>1 DEF Start, AdmissionType
    <3> QED
      BY <3>1, <3>2
  <2>2. WorkerType'
    BY <1>1 DEF Start, Spawned, WorkerType, WorkerPC, Busy
  <2> QED
    BY <1>1, <2>1, <2>2 DEF Start
<1>2. ASSUME NEW j \in Jobs, Reserve(j) PROVE Types'
  <2>1. ResvType'
    BY <1>2 DEF Reserve, ResvType, AdmissionType
  <2>2. WorkerType'
    BY <1>2 DEF Reserve, Spawned, WorkerType, WorkerPC, Busy
  <2> QED
    BY <1>2, <2>1, <2>2 DEF Reserve
<1>3. ASSUME NEW j \in Jobs, Commit(j) PROVE Types'
  <2>1. ResvType'
    BY <1>3 DEF Commit, ResvType
  <2>2. QueueType'
    <3>1. CASE Committable(j)
      <4>1. Append(queue[gen], j) \in Seq(Jobs)
        BY AppendProperties DEF QueueType, AdmissionType
      <4> QED
        BY <1>3, <3>1, <4>1 DEF Commit, QueueType, AdmissionType
    <3>2. CASE ~Committable(j)
      BY <1>3, <3>2 DEF Commit
    <3> QED
      BY <3>1, <3>2
  <2> QED
    BY <1>3, <2>1, <2>2 DEF Commit
<1>4. ASSUME NEW j \in Jobs, Rollback(j) PROVE Types'
  <2>1. ResvType'
    BY <1>4 DEF Rollback, ResvType
  <2> QED
    BY <1>4, <2>1 DEF Rollback
<1>5. ASSUME NEW c \in Callers, Restart(c) PROVE Types'
  <2>1. AdmissionType'
    <3>1. gen + 1 \in Gen
      BY <1>5, WorkerFacts DEF Restart, AdmissionType
    <3> QED
      BY <1>5, <3>1 DEF Restart, AdmissionType
  <2>2. QueueType'
    BY <1>5, EmptySeq DEF Restart, CloseQueue, ClosedMode, QueueType
  <2>3. ResvType'
    BY <1>5 DEF Restart, CloseQueue, ResvType
  <2>4. WorkerType'
    BY <1>5 DEF Restart, Spawned, WorkerType, WorkerPC, Busy
  <2>5. CallType'
    <3>1. Discarded(FALSE) \in Seq(Jobs)
      BY DiscardedType
    <3>2. cpc' \in [Callers -> {"idle", "notify", "join", "threads"}]
      BY <1>5 DEF Restart, Enter, CallType
    <3>3. host' \in [Callers -> Worker \cup {External}]
      BY <1>5 DEF Restart, Enter, CallType
    <3>4. toNotify' \in [Callers -> Seq(Jobs)]
      BY <1>5, <3>1 DEF Restart, CallType
    <3> QED
      BY <1>5, <3>2, <3>3, <3>4 DEF Restart, CallType
  <2> QED
    BY <1>5, <2>1, <2>2, <2>3, <2>4, <2>5 DEF Restart
<1>6. ASSUME NEW c \in Callers, NEW drain \in BOOLEAN, NEW join \in BOOLEAN,
             Close(c, drain, join) PROVE Types'
  <2>1. AdmissionType'
    BY <1>6 DEF Close, ClosedMode, AdmissionType
  <2>2. QueueType'
    BY <1>6 DEF Close, CloseQueue, QueueType
  <2>3. ResvType'
    BY <1>6 DEF Close, CloseQueue, ResvType
  <2>4. CallType'
    BY <1>6, DiscardedType DEF Close, Enter, AllThreads, CallType, AdmissionType
  <2> QED
    BY <1>6, <2>1, <2>2, <2>3, <2>4 DEF Close
<1>7. ASSUME NEW c \in Callers, Call(c) PROVE Types'
  <2>1. CASE NotifyCancelled(c)
    <3>0. Head(toNotify[c]) \in Jobs /\ Tail(toNotify[c]) \in Seq(Jobs)
      BY <2>1, HeadTailProperties DEF NotifyCancelled, CallType
    <3>1. CallType'
      BY <2>1, <3>0 DEF NotifyCancelled, CallType
    <3>2. HistoryType'
      BY <2>1, <3>0 DEF NotifyCancelled, HistoryType
    <3> QED
      BY <2>1, <3>1, <3>2 DEF NotifyCancelled
  <2>2. CASE Return(c)
    <3>1. CallType'
      BY <2>2 DEF Return, CallType
    <3> QED
      BY <2>2, <3>1 DEF Return
  <2>3. CASE NotifiedWait(c) \/ QueueJoined(c)
    <3>1. CallType'
      BY <2>3 DEF NotifiedWait, QueueJoined, CallType
    <3> QED
      BY <2>3, <3>1 DEF NotifiedWait, QueueJoined
  <2> QED
    BY <1>7, <2>1, <2>2, <2>3 DEF Call, NotifiedReturn, ThreadsJoined
<1>8. ASSUME NEW w \in Worker, Work(w) PROVE Types'
  <2>0. ASSUME Take(w) PROVE QueueType' /\ WorkerType'
    <3>1. /\ Head(queue[GenOf(w)]) \in Jobs
          /\ Tail(queue[GenOf(w)]) \in Seq(Jobs)
      BY <2>0, WorkerFacts, HeadTailProperties DEF Take, QueueType
    <3>2. QueueType'
      BY <2>0, <3>1 DEF Take, QueueType
    <3>3. WorkerType'
      BY <2>0, <3>1, WorkerFacts DEF Take, Goto, WorkerType, WorkerPC, Busy
    <3> QED
      BY <3>2, <3>3
  <2>1. WorkerType'
    <3> USE DEF Goto, WorkerType, WorkerPC, Busy
    <3>1. CASE AcquireSlot(w) \/ TimeOut(w) \/ CheckMode(w) \/ Decide(w)
      BY <3>1 DEF AcquireSlot, TimeOut, CheckMode, Decide
    <3>2. CASE Finish(w) \/ ReleaseSlot(w) \/ Leave(w) \/ DroppedDone(w)
      BY <3>2 DEF Finish, ReleaseSlot, Leave, DroppedDone
    <3>3. CASE RanDone(w) \/ NotifyDropped(w)
      BY <3>3, WorkerFacts DEF RanDone, NotifyDropped
    <3> QED
      BY <1>8, <2>0, <3>1, <3>2, <3>3 DEF Work
  <2>2. CASE Decide(w)
    <3>1. HistoryType'
      <4>1. job[w] \in Jobs
        BY <2>2 DEF Decide, WorkerType, Busy
      <4>2. CASE ShouldRun(GenOf(w))
        BY <2>2, <4>1, <4>2 DEF Decide, HistoryType
      <4>3. CASE ~ShouldRun(GenOf(w))
        BY <2>2, <4>3 DEF Decide, HistoryType
      <4> QED
        BY <4>2, <4>3
    <3> QED
      BY <2>1, <2>2, <3>1 DEF Decide
  <2>3. CASE NotifyDropped(w)
    <3>1. HistoryType'
      <4>1. job[w] \in Jobs
        BY <2>3 DEF NotifyDropped, WorkerType, Busy
      <4> QED
        BY <2>3, <4>1 DEF NotifyDropped, HistoryType
    <3> QED
      BY <2>1, <2>3, <3>1 DEF NotifyDropped
  <2>4. CASE AcquireSlot(w) \/ TimeOut(w) \/ CheckMode(w) \/ Finish(w)
    BY <2>1, <2>4 DEF AcquireSlot, TimeOut, CheckMode, Finish
  <2>5. CASE RanDone(w) \/ DroppedDone(w) \/ ReleaseSlot(w) \/ Leave(w)
    BY <2>1, <2>5 DEF RanDone, DroppedDone, ReleaseSlot, Leave
  <2>6. CASE Take(w)
    BY <2>0, <2>6 DEF Take
  <2> QED
    BY <1>8, <2>2, <2>3, <2>4, <2>5, <2>6 DEF Work
<1>9. CASE UNCHANGED vars
  BY <1>9 DEF vars
<1> QED
  BY <1>1, <1>2, <1>3, <1>4, <1>5, <1>6, <1>7, <1>8, <1>9
  DEF Next, Client, Shutdown, ShutdownDrain, ShutdownCancelPending

-----------------------------------------------------------------------------
(* Where a committed job can be: in one queue, in one worker's hands or on *)
(* one caller's list, and never in two places.                             *)

\* Only the current generation can be open, and only it has reservations.
Generations ==
  /\ closed <=> mode[gen] # "running"
  /\ mode[gen] # "unborn"
  /\ \A g \in Gen : g < gen => mode[g] \in {"draining", "cancelled"}
  /\ \A g \in Gen : g > gen => mode[g] = "unborn" /\ queue[g] = <<>>
  /\ \A g \in Gen : mode[g] = "cancelled" => queue[g] = <<>>
  /\ \A j \in Jobs : resv[j] = "reserved" => resvGen[j] = gen /\ ~closed

\* A queue holds committed jobs of its generation, each of them once.
QueueOK ==
  /\ \A g \in Gen : \A i \in 1..Len(queue[g]) :
       resv[queue[g][i]] = "committed" /\ resvGen[queue[g][i]] = g
  /\ \A g \in Gen : \A i, k \in 1..Len(queue[g]) :
       queue[g][i] = queue[g][k] => i = k

\* A job in a worker's hands is a committed one of the worker's generation
\* that no other worker holds and that has left the queue.
HandsOK ==
  /\ \A w \in Worker : job[w] \in Jobs =>
       /\ resv[job[w]] = "committed" /\ resvGen[job[w]] = GenOf(w)
       /\ \A i \in 1..Len(queue[GenOf(w)]) : queue[GenOf(w)][i] # job[w]
  /\ \A v, w \in Worker : job[v] \in Jobs /\ job[v] = job[w] => v = w

\* A job to notify is committed, and neither queued, nor in a worker's hands,
\* nor on the list of another caller.
NotifyOK ==
  /\ \A c \in Callers : \A i \in 1..Len(toNotify[c]) :
       /\ resv[toNotify[c][i]] = "committed"
       /\ \A g \in Gen : \A k \in 1..Len(queue[g]) : queue[g][k] # toNotify[c][i]
       /\ \A w \in Worker : job[w] # toNotify[c][i]
  /\ \A c, d \in Callers : \A i \in 1..Len(toNotify[c]), k \in 1..Len(toNotify[d]) :
       toNotify[c][i] = toNotify[d][k] => c = d /\ i = k
  /\ \A c \in Callers : cpc[c] # "notify" => toNotify[c] = <<>>

Placement == Types /\ Generations /\ QueueOK /\ HandsOK /\ NotifyOK

LEMMA PlacementInit == Init => Placement
<1> SUFFICES ASSUME Init PROVE Placement
  OBVIOUS
<1>1. Generations
  BY WorkerFacts DEF Init, Generations
<1>2. QueueOK
  BY DEF Init, QueueOK
<1>3. HandsOK
  BY WorkerFacts DEF Init, HandsOK
<1>4. NotifyOK
  BY DEF Init, NotifyOK
<1> QED
  BY <1>1, <1>2, <1>3, <1>4, TypesInit DEF Placement

\* What the steps of a worker change, apart from counters and history.
LEMMA WorkEffect ==
  ASSUME NEW w \in Worker, Work(w)
  PROVE  /\ UNCHANGED <<admission, resvs, calls>>
         /\ \/ Take(w)
            \/ UNCHANGED queue /\ job' \in {job, [job EXCEPT ![w] = NoJob]}
<1>1. CASE AcquireSlot(w) \/ TimeOut(w) \/ CheckMode(w) \/ Decide(w)
  BY <1>1 DEF AcquireSlot, TimeOut, CheckMode, Decide, queues
<1>2. CASE Finish(w) \/ RanDone(w) \/ DroppedDone(w)
  BY <1>2 DEF Finish, RanDone, DroppedDone, queues
<1>3. CASE NotifyDropped(w) \/ ReleaseSlot(w) \/ Leave(w)
  BY <1>3 DEF NotifyDropped, ReleaseSlot, Leave, queues
<1>4. CASE Take(w)
  BY <1>4 DEF Take
<1> QED
  BY <1>1, <1>2, <1>3, <1>4 DEF Work

LEMMA CallEffect ==
  ASSUME NEW c \in Callers, Call(c)
  PROVE  /\ UNCHANGED <<admission, queues, resvs, workers>>
         /\ \/ NotifyCancelled(c)
            \/ UNCHANGED toNotify /\ cpc[c] \in {"join", "threads"}
            \/ UNCHANGED toNotify /\ toNotify[c] = <<>>
<1>1. CASE NotifyCancelled(c)
  BY <1>1 DEF NotifyCancelled
<1>2. CASE NotifiedReturn(c) \/ ThreadsJoined(c)
  BY <1>2 DEF NotifiedReturn, ThreadsJoined, Return
<1>3. CASE NotifiedWait(c) \/ QueueJoined(c)
  BY <1>3 DEF NotifiedWait, QueueJoined
<1> QED
  BY <1>1, <1>2, <1>3 DEF Call

\* Every step is one of these.
LEMMA NextCases ==
  ASSUME [Next]_vars
  PROVE  \/ Start
         \/ \E j \in Jobs : Reserve(j) \/ Commit(j) \/ Rollback(j)
         \/ \E c \in Callers : Restart(c)
         \/ \E c \in Callers : \E drain, join \in BOOLEAN : Close(c, drain, join)
         \/ \E c \in Callers : Call(c)
         \/ \E w \in Worker : Work(w)
         \/ UNCHANGED vars
BY DEF Next, Client, Shutdown, ShutdownDrain, ShutdownCancelPending

\* A committed reservation stays committed.
LEMMA CommittedStays ==
  ASSUME Types, [Next]_vars
  PROVE  \A j \in Jobs : resv[j] = "committed" =>
            resv'[j] = "committed" /\ resvGen'[j] = resvGen[j]
<1> USE DEF Types, ResvType
<1>1. CASE Start
  BY <1>1 DEF Start, resvs
<1>2. ASSUME NEW j \in Jobs, Reserve(j) \/ Commit(j) \/ Rollback(j)
      PROVE  \A k \in Jobs : resv[k] = "committed" =>
                resv'[k] = "committed" /\ resvGen'[k] = resvGen[k]
  BY <1>2 DEF Reserve, Commit, Rollback
<1>3. ASSUME NEW c \in Callers, Restart(c)
      PROVE  \A k \in Jobs : resv[k] = "committed" =>
                resv'[k] = "committed" /\ resvGen'[k] = resvGen[k]
  BY <1>3 DEF Restart, CloseQueue, Reserved
<1>4. ASSUME NEW c \in Callers, NEW drain \in BOOLEAN, NEW join \in BOOLEAN,
             Close(c, drain, join)
      PROVE  \A k \in Jobs : resv[k] = "committed" =>
                resv'[k] = "committed" /\ resvGen'[k] = resvGen[k]
  BY <1>4 DEF Close, CloseQueue, Reserved
<1>5. ASSUME NEW c \in Callers, Call(c) PROVE UNCHANGED resvs
  BY <1>5, CallEffect
<1>6. ASSUME NEW w \in Worker, Work(w) PROVE UNCHANGED resvs
  BY <1>6, WorkEffect
<1>7. CASE UNCHANGED resvs
  BY <1>7 DEF resvs
<1>8. CASE UNCHANGED vars
  BY <1>8 DEF vars, resvs
<1> QED
  BY <1>1, <1>2, <1>3, <1>4, <1>5, <1>6, <1>7, <1>8, NextCases

\* How the queues change: one job is appended or taken, or the queue of the
\* current generation is emptied into a caller's list.
LEMMA QueueEffect ==
  ASSUME Types, [Next]_vars
  PROVE  \/ UNCHANGED queue
         \/ \E j \in Jobs : /\ Commit(j) /\ Committable(j)
                            /\ queue' = [queue EXCEPT ![gen] = Append(@, j)]
         \/ \E w \in Worker : Take(w)
         \/ /\ queue' = [queue EXCEPT ![gen] = <<>>]
            /\ mode'[gen] = "cancelled"
<1> USE DEF Types
<1>1. CASE Start
  BY <1>1 DEF Start, queues
<1>2. ASSUME NEW j \in Jobs, Reserve(j) \/ Commit(j) \/ Rollback(j)
      PROVE  \/ UNCHANGED queue
             \/ /\ Commit(j) /\ Committable(j)
                /\ queue' = [queue EXCEPT ![gen] = Append(@, j)]
  BY <1>2 DEF Reserve, Commit, Rollback, queues
<1>3. ASSUME NEW c \in Callers, Restart(c)
      PROVE  queue' = [queue EXCEPT ![gen] = <<>>] /\ mode'[gen] = "cancelled"
  <2>1. ClosedMode(FALSE) = "cancelled"
    BY DEF ClosedMode
  <2>2. gen # gen + 1
    BY WorkerFacts DEF AdmissionType
  <2> QED
    BY <1>3, <2>1, <2>2 DEF Restart, CloseQueue, AdmissionType
<1>4. ASSUME NEW c \in Callers, NEW drain \in BOOLEAN, NEW join \in BOOLEAN,
             Close(c, drain, join)
      PROVE  \/ UNCHANGED queue
             \/ queue' = [queue EXCEPT ![gen] = <<>>] /\ mode'[gen] = "cancelled"
  BY <1>4 DEF Close, CloseQueue, AdmissionType, QueueType
<1>5. ASSUME NEW c \in Callers, Call(c) PROVE UNCHANGED queue
  BY <1>5, CallEffect DEF queues
<1>6. ASSUME NEW w \in Worker, Work(w) PROVE UNCHANGED queue \/ Take(w)
  BY <1>6, WorkEffect
<1>7. CASE UNCHANGED vars
  BY <1>7 DEF vars, queues
<1> QED
  BY <1>1, <1>2, <1>3, <1>4, <1>5, <1>6, <1>7, NextCases

\* The admission state, the queues and the reservations decide Generations.
LEMMA GenerationsFrame ==
  Generations /\ UNCHANGED <<admission, queue, resvs>> => Generations'
BY DEF Generations, admission, resvs

LEMMA GenerationsStep == Types /\ Generations /\ [Next]_vars => Generations'
<1> SUFFICES ASSUME Types, Generations, [Next]_vars PROVE Generations'
  OBVIOUS
<1> USE GenerationsFrame
<1>0. /\ gen \in Gen /\ gen \in Nat
      /\ \A g \in Gen : g \in Nat
  BY WorkerFacts DEF Types, AdmissionType
\* Opening a new generation behind a closed one.
<1>a. ASSUME gen + 1 \in Gen, gen' = gen + 1, closed' = FALSE,
             NEW m \in {"draining", "cancelled"},
             mode' = [mode EXCEPT ![gen] = m, ![gen + 1] = "running"],
             \A g \in Gen : g # gen => queue'[g] = queue[g],
             m = "cancelled" => queue'[gen] = <<>>,
             \A j \in Jobs : resv'[j] # "reserved"
      PROVE  Generations'
  <2>1. /\ mode'[gen + 1] = "running"
        /\ mode'[gen] = m
        /\ \A g \in Gen : g # gen /\ g # gen + 1 => mode'[g] = mode[g]
    BY <1>a, <1>0 DEF Types, AdmissionType
  <2>2. \A g \in Gen : g < gen + 1 => g # gen + 1 /\ (g < gen \/ g = gen)
    BY <1>0
  <2>3. \A g \in Gen : g > gen + 1 => g > gen /\ g # gen /\ g # gen + 1
    BY <1>0
  <2>4. /\ mode'[gen'] # "unborn" /\ (closed' <=> mode'[gen'] # "running")
    BY <1>a, <2>1
  <2>5. \A g \in Gen : g < gen' => mode'[g] \in {"draining", "cancelled"}
    BY <1>a, <1>0, <2>1, <2>2 DEF Generations
  <2>6. \A g \in Gen : g > gen' => mode'[g] = "unborn" /\ queue'[g] = <<>>
    BY <1>a, <2>1, <2>3 DEF Generations
  <2>7. \A g \in Gen : mode'[g] = "cancelled" => queue'[g] = <<>>
    BY <1>a, <2>1, <1>0 DEF Generations
  <2> QED
    BY <1>a, <2>4, <2>5, <2>6, <2>7 DEF Generations
<1>1. CASE Start
  <2>1. CASE Open
    BY <1>1, <2>1 DEF Start, queues
  <2>2. CASE ~Open
    <3>1. closed /\ mode[gen] \in {"draining", "cancelled"}
      BY <2>2 DEF Open, Generations, Types, AdmissionType
    <3>2. gen + 1 \in Gen /\ gen + 1 # gen
      BY <1>1, <2>2, <1>0, WorkerFacts DEF Start
    <3>3. mode' = [mode EXCEPT ![gen] = mode[gen], ![gen + 1] = "running"]
      BY <1>1, <2>2, <3>2, <1>0 DEF Start, Types, AdmissionType
    <3>4. \A j \in Jobs : resv'[j] # "reserved"
      BY <1>1, <3>1 DEF Start, resvs, Generations
    <3>5. UNCHANGED queue /\ gen' = gen + 1 /\ closed' = FALSE
      BY <1>1, <2>2 DEF Start, queues
    <3> QED
      BY <1>a, <1>0, <3>1, <3>2, <3>3, <3>4, <3>5 DEF Generations
  <2> QED
    BY <2>1, <2>2
<1>2. ASSUME NEW j \in Jobs, Reserve(j) PROVE Generations'
  BY <1>2, <1>0 DEF Reserve, Open, queues, admission, Generations, Types, ResvType
<1>3. ASSUME NEW j \in Jobs, Commit(j) PROVE Generations'
  <2>1. CASE Committable(j)
    BY <1>3, <2>1, <1>0
    DEF Commit, Committable, Open, admission, Generations, Types, ResvType, QueueType
  <2>2. CASE ~Committable(j)
    BY <1>3, <2>2 DEF Commit, queues, admission, Generations, Types, ResvType
  <2> QED
    BY <2>1, <2>2
<1>4. ASSUME NEW j \in Jobs, Rollback(j) PROVE Generations'
  BY <1>4 DEF Rollback, queues, admission, Generations, Types, ResvType
\* _close_locked leaves no reservation.
<1>b. ASSUME NEW wait \in BOOLEAN, CloseQueue(wait)
      PROVE  \A j \in Jobs : resv'[j] # "reserved"
  BY <1>b DEF CloseQueue, Reserved, Generations
<1>5. ASSUME NEW c \in Callers, Restart(c) PROVE Generations'
  <2>1. gen + 1 \in Gen
    BY <1>5, <1>0, WorkerFacts DEF Restart
  <2>2. ClosedMode(FALSE) = "cancelled" /\ CloseQueue(FALSE)
    BY <1>5 DEF ClosedMode, Restart
  <2>3. queue' = [queue EXCEPT ![gen] = <<>>]
    BY <2>2 DEF CloseQueue
  <2>4. /\ \A g \in Gen : g # gen => queue'[g] = queue[g]
        /\ queue'[gen] = <<>>
    BY <2>3, <1>0 DEF Types, QueueType
  <2>5. \A j \in Jobs : resv'[j] # "reserved"
    BY <2>2, <1>b
  <2>6. /\ gen' = gen + 1 /\ closed' = FALSE
        /\ mode' = [mode EXCEPT ![gen] = "cancelled", ![gen + 1] = "running"]
    BY <1>5 DEF Restart
  <2> QED
    BY <1>a, <2>1, <2>4, <2>5, <2>6
<1>6. ASSUME NEW c \in Callers, NEW drain \in BOOLEAN, NEW join \in BOOLEAN,
             Close(c, drain, join) PROVE Generations'
  <2>1. ClosedMode(drain) \in {"draining", "cancelled"}
    BY DEF ClosedMode, Generations, Types, AdmissionType
  <2>2. \A j \in Jobs : resv'[j] # "reserved"
    BY <1>6, <1>b DEF Close
  <2>3. /\ \A g \in Gen : g # gen => queue'[g] = queue[g]
        /\ ClosedMode(drain) = "cancelled" => queue'[gen] = <<>>
    BY <1>6, <1>0 DEF Close, CloseQueue, Types, QueueType
  <2>4. /\ gen' = gen /\ closed' = TRUE
        /\ mode' = [mode EXCEPT ![gen] = ClosedMode(drain)]
    BY <1>6 DEF Close
  <2> QED
    BY <1>0, <2>1, <2>2, <2>3, <2>4 DEF Generations, Types, AdmissionType
<1>7. ASSUME NEW c \in Callers, Call(c) PROVE Generations'
  BY <1>7, CallEffect DEF queues
<1>8. ASSUME NEW w \in Worker, Work(w) PROVE Generations'
  <2>1. UNCHANGED <<admission, resvs>>
    BY <1>8, WorkEffect
  <2>2. CASE UNCHANGED queue
    BY <2>1, <2>2
  <2>3. CASE Take(w)
    BY <2>1, <2>3, WorkerFacts
    DEF Take, Generations, admission, resvs, Types, QueueType
  <2> QED
    BY <1>8, <2>2, <2>3, WorkEffect
<1>9. CASE UNCHANGED vars
  BY <1>9 DEF vars, queues
<1> QED
  BY <1>1, <1>2, <1>3, <1>4, <1>5, <1>6, <1>7, <1>8, <1>9, NextCases

LEMMA TailElements ==
  ASSUME NEW S, NEW s \in Seq(S), s # <<>>
  PROVE  /\ 1 \in 1..Len(s) /\ Head(s) = s[1] /\ Head(s) \in S
         /\ Tail(s) \in Seq(S)
         /\ \A i \in 1..Len(Tail(s)) :
              /\ i + 1 \in 1..Len(s) /\ i \in Nat /\ i + 1 # 1
              /\ Tail(s)[i] = s[i + 1]
<1>1. Len(s) \in Nat \ {0} /\ s = [i \in 1..Len(s) |-> s[i]]
  BY EmptySeq, LenProperties
<1>2. Len(Tail(s)) = Len(s) - 1
  BY HeadTailProperties
<1> QED
  BY <1>1, <1>2, HeadTailProperties

LEMMA AppendElements ==
  ASSUME NEW S, NEW s \in Seq(S), NEW x \in S
  PROVE  /\ Append(s, x) \in Seq(S)
         /\ \A i \in 1..Len(Append(s, x)) :
              \/ i \in 1..Len(s) /\ Append(s, x)[i] = s[i]
              \/ i = Len(s) + 1 /\ Append(s, x)[i] = x
<1>1. Len(s) \in Nat /\ Len(Append(s, x)) = Len(s) + 1
  BY LenProperties, AppendProperties
<1> QED
  BY <1>1, AppendProperties

LEMMA QueueStep == Placement /\ [Next]_vars => QueueOK'
<1> SUFFICES ASSUME Placement, [Next]_vars PROVE QueueOK'
  OBVIOUS
<1>0. /\ gen \in Gen
      /\ \A g \in Gen : queue[g] \in Seq(Jobs)
      /\ \A g \in Gen : \A i \in 1..Len(queue[g]) : queue[g][i] \in Jobs
  BY DEF Placement, Types, AdmissionType, QueueType
<1>1. \A g \in Gen : \A i \in 1..Len(queue[g]) :
         resv'[queue[g][i]] = "committed" /\ resvGen'[queue[g][i]] = g
  BY <1>0, CommittedStays DEF Placement, QueueOK
\* Only the queue of h changes.
<1>a. ASSUME NEW h \in Gen, \A g \in Gen : g # h => queue'[g] = queue[g],
             \A i \in 1..Len(queue'[h]) :
               resv'[queue'[h][i]] = "committed" /\ resvGen'[queue'[h][i]] = h,
             \A i, k \in 1..Len(queue'[h]) : queue'[h][i] = queue'[h][k] => i = k
      PROVE  QueueOK'
  <2>1. ASSUME NEW g \in Gen, NEW i \in 1..Len(queue'[g])
        PROVE  resv'[queue'[g][i]] = "committed" /\ resvGen'[queue'[g][i]] = g
    <3>1. CASE g = h
      BY <1>a, <3>1
    <3>2. CASE g # h
      <4>1. queue'[g] = queue[g]
        BY <1>a, <3>2
      <4> QED
        BY <4>1, <1>1
    <3> QED
      BY <3>1, <3>2
  <2>2. ASSUME NEW g \in Gen, NEW i \in 1..Len(queue'[g]), NEW k \in 1..Len(queue'[g]),
               queue'[g][i] = queue'[g][k]
        PROVE  i = k
    <3>1. CASE g = h
      BY <1>a, <2>2, <3>1
    <3>2. CASE g # h
      <4>1. queue'[g] = queue[g]
        BY <1>a, <3>2
      <4> QED
        BY <2>2, <4>1 DEF Placement, QueueOK
    <3> QED
      BY <3>1, <3>2
  <2> QED
    BY <2>1, <2>2 DEF QueueOK
<1>2. CASE UNCHANGED queue
  BY <1>1, <1>2 DEF Placement, QueueOK
<1>3. CASE queue' = [queue EXCEPT ![gen] = <<>>]
  <2>1. /\ queue'[gen] = <<>>
        /\ \A g \in Gen : g # gen => queue'[g] = queue[g]
    BY <1>3, <1>0 DEF Placement, Types, QueueType
  <2>2. \A i \in 1..Len(queue'[gen]) : FALSE
    BY <2>1
  <2> QED
    BY <1>1, <2>1, <2>2 DEF Placement, QueueOK
<1>4. ASSUME NEW j \in Jobs, Commit(j), Committable(j),
             queue' = [queue EXCEPT ![gen] = Append(@, j)]
      PROVE  QueueOK'
  <2>1. /\ queue'[gen] = Append(queue[gen], j)
        /\ \A g \in Gen : g # gen => queue'[g] = queue[g]
    BY <1>4, <1>0 DEF Placement, Types, QueueType
  <2>2. \A i \in 1..Len(queue'[gen]) :
           \/ i \in 1..Len(queue[gen]) /\ queue'[gen][i] = queue[gen][i]
           \/ i = Len(queue[gen]) + 1 /\ queue'[gen][i] = j
    BY <2>1, <1>0, AppendElements
  <2>3. resv[j] = "reserved" /\ resv'[j] = "committed" /\ resvGen'[j] = gen
    BY <1>4 DEF Commit, Committable, Placement, Types, ResvType
  <2>4. \A i \in 1..Len(queue[gen]) : queue[gen][i] # j
    BY <2>3, <1>0 DEF Placement, QueueOK
  <2>5. \A i \in 1..Len(queue'[gen]) :
           resv'[queue'[gen][i]] = "committed" /\ resvGen'[queue'[gen][i]] = gen
    BY <1>1, <1>0, <2>2, <2>3
  <2>6. \A i, k \in 1..Len(queue'[gen]) :
           queue'[gen][i] = queue'[gen][k] => i = k
    BY <1>0, <2>2, <2>4 DEF Placement, QueueOK
  <2> QED
    BY <1>a, <1>0, <2>1, <2>5, <2>6
<1>5. ASSUME NEW w \in Worker, Take(w) PROVE QueueOK'
  <2> DEFINE h == GenOf(w)
  <2>0. h \in Gen /\ queue[h] # <<>>
    BY <1>5, WorkerFacts DEF Take
  <2>1. /\ queue'[h] = Tail(queue[h])
        /\ \A g \in Gen : g # h => queue'[g] = queue[g]
    BY <1>5, <2>0 DEF Take, Placement, Types, QueueType
  <2>2. \A i \in 1..Len(queue'[h]) :
          i + 1 \in 1..Len(queue[h]) /\ i \in Nat /\ queue'[h][i] = queue[h][i + 1]
    BY <2>0, <2>1, <1>0, TailElements
  <2> HIDE DEF h
  <2>3. \A i \in 1..Len(queue'[h]) :
           resv'[queue'[h][i]] = "committed" /\ resvGen'[queue'[h][i]] = h
    BY <1>1, <2>0, <2>2
  <2>4. \A i, k \in 1..Len(queue'[h]) : queue'[h][i] = queue'[h][k] => i = k
    <3>1. \A i, k \in 1..Len(queue'[h]) :
             queue'[h][i] = queue'[h][k] => i + 1 = k + 1
      BY <2>0, <2>2 DEF Placement, QueueOK
    <3>2. \A i, k \in Nat : i + 1 = k + 1 => i = k
      OBVIOUS
    <3> QED
      BY <2>2, <3>1, <3>2
  <2> QED
    BY <1>a, <2>0, <2>1, <2>3, <2>4
<1> QED
  BY <1>2, <1>3, <1>4, <1>5, QueueEffect DEF Placement

\* How the hands of the workers change: one takes a job, one puts its job down,
\* or none does either.
LEMMA HandsEffect ==
  ASSUME Types, [Next]_vars
  PROVE  \/ UNCHANGED job
         \/ UNCHANGED queue /\ \E w \in Worker : job' = [job EXCEPT ![w] = NoJob]
         \/ \E w \in Worker : Take(w)
<1>1. CASE Start
  BY <1>1 DEF Start
<1>2. ASSUME NEW j \in Jobs, Reserve(j) \/ Commit(j) \/ Rollback(j)
      PROVE  UNCHANGED job
  BY <1>2 DEF Reserve, Commit, Rollback, workers
<1>3. ASSUME NEW c \in Callers, Restart(c) PROVE UNCHANGED job
  BY <1>3 DEF Restart
<1>4. ASSUME NEW c \in Callers, NEW drain \in BOOLEAN, NEW join \in BOOLEAN,
             Close(c, drain, join)
      PROVE  UNCHANGED job
  BY <1>4 DEF Close, workers
<1>5. ASSUME NEW c \in Callers, Call(c) PROVE UNCHANGED job
  BY <1>5, CallEffect DEF workers
<1>6. ASSUME NEW w \in Worker, Work(w)
      PROVE  \/ UNCHANGED job \/ Take(w)
             \/ UNCHANGED queue /\ job' = [job EXCEPT ![w] = NoJob]
  BY <1>6, WorkEffect
<1>7. CASE UNCHANGED vars
  BY <1>7 DEF vars, workers
<1> QED
  BY <1>1, <1>2, <1>3, <1>4, <1>5, <1>6, <1>7, NextCases

\* A job found in a queue after a step was there before it, or is being
\* committed by it.
LEMMA QueueSource ==
  ASSUME Placement, [Next]_vars, NEW g \in Gen, NEW i \in 1..Len(queue'[g])
  PROVE  \/ \E k \in 1..Len(queue[g]) : queue[g][k] = queue'[g][i]
         \/ queue'[g][i] \in Jobs /\ resv[queue'[g][i]] = "reserved"
<1>0. /\ gen \in Gen /\ queue \in [Gen -> Seq(Jobs)] /\ queue[g] \in Seq(Jobs)
  BY DEF Placement, Types, AdmissionType, QueueType
<1>1. CASE UNCHANGED queue
  BY <1>1
<1>2. CASE queue' = [queue EXCEPT ![gen] = <<>>]
  BY <1>0, <1>2
<1>3. ASSUME NEW j \in Jobs, Commit(j), queue' = [queue EXCEPT ![gen] = Append(@, j)]
      PROVE  \/ \E k \in 1..Len(queue[g]) : queue[g][k] = queue'[g][i]
             \/ queue'[g][i] \in Jobs /\ resv[queue'[g][i]] = "reserved"
  <2>1. CASE g = gen
    <3>1. queue'[g] = Append(queue[g], j)
      BY <1>0, <1>3, <2>1
    <3>2. \/ i \in 1..Len(queue[g]) /\ queue'[g][i] = queue[g][i]
          \/ queue'[g][i] = j
      BY <1>0, <3>1, AppendElements
    <3> QED
      BY <1>3, <3>2 DEF Commit
  <2>2. CASE g # gen
    BY <1>0, <1>3, <2>2
  <2> QED
    BY <2>1, <2>2
<1>4. ASSUME NEW w \in Worker, Take(w)
      PROVE  \E k \in 1..Len(queue[g]) : queue[g][k] = queue'[g][i]
  <2>1. CASE g = GenOf(w)
    <3>1. queue'[g] = Tail(queue[g]) /\ queue[g] # <<>>
      BY <1>0, <1>4, <2>1 DEF Take
    <3> QED
      BY <1>0, <3>1, TailElements
  <2>2. CASE g # GenOf(w)
    BY <1>0, <1>4, <2>2 DEF Take
  <2> QED
    BY <2>1, <2>2
<1> QED
  BY <1>1, <1>2, <1>3, <1>4, QueueEffect DEF Placement

LEMMA HandsStep == Placement /\ [Next]_vars => HandsOK'
<1> SUFFICES ASSUME Placement, [Next]_vars PROVE HandsOK'
  OBVIOUS
<1>0. /\ job \in [Worker -> Jobs \cup {NoJob}] /\ NoJob \notin Jobs
      /\ \A w \in Worker : GenOf(w) \in Gen
      /\ \A g \in Gen : queue[g] \in Seq(Jobs)
  BY WorkerFacts DEF Placement, Types, WorkerType, QueueType
\* Jobs that stay where they are.
<1>1. \A w \in Worker : job'[w] = job[w] /\ job[w] \in Jobs =>
        /\ resv'[job[w]] = "committed" /\ resvGen'[job[w]] = GenOf(w)
        /\ \A i \in 1..Len(queue'[GenOf(w)]) : queue'[GenOf(w)][i] # job[w]
  BY <1>0, CommittedStays, QueueSource DEF Placement, HandsOK
<1>2. CASE UNCHANGED job
  BY <1>1, <1>2 DEF Placement, HandsOK
<1>3. ASSUME NEW w \in Worker, job' = [job EXCEPT ![w] = NoJob] PROVE HandsOK'
  <2>1. \A v \in Worker : job'[v] \in Jobs => v # w /\ job'[v] = job[v]
    BY <1>0, <1>3
  <2> QED
    BY <1>1, <2>1 DEF Placement, HandsOK
<1>4. ASSUME NEW w \in Worker, Take(w) PROVE HandsOK'
  <2> DEFINE h == GenOf(w)
             j == Head(queue[h])
  <2>0. h \in Gen /\ queue[h] \in Seq(Jobs) /\ queue[h] # <<>>
    BY <1>0, <1>4 DEF Take
  <2>1. /\ job'[w] = j /\ \A v \in Worker : v # w => job'[v] = job[v]
        /\ queue'[h] = Tail(queue[h])
    BY <1>0, <1>4, <2>0 DEF Take, Placement, Types, QueueType
  <2>2. j \in Jobs /\ 1 \in 1..Len(queue[h]) /\ j = queue[h][1]
    BY <2>0, TailElements
  <2>3. /\ resv[j] = "committed" /\ resvGen[j] = h
        /\ resv'[j] = "committed" /\ resvGen'[j] = h
    BY <2>0, <2>2, CommittedStays DEF Placement, QueueOK
  <2>4. \A i \in 1..Len(queue'[h]) : queue'[h][i] # j
    BY <2>0, <2>1, <2>2, TailElements DEF Placement, QueueOK
  <2>5. \A v \in Worker : v # w => job[v] # j
    BY <2>2, <2>3 DEF Placement, HandsOK
  <2> HIDE DEF h, j
  <2>6. \A v \in Worker : job'[v] \in Jobs =>
        /\ resv'[job'[v]] = "committed" /\ resvGen'[job'[v]] = GenOf(v)
        /\ \A i \in 1..Len(queue'[GenOf(v)]) : queue'[GenOf(v)][i] # job'[v]
    <3>1. /\ resv'[job'[w]] = "committed" /\ resvGen'[job'[w]] = GenOf(w)
          /\ \A i \in 1..Len(queue'[GenOf(w)]) : queue'[GenOf(w)][i] # job'[w]
      BY <2>1, <2>3, <2>4 DEF h
    <3> QED
      BY <1>1, <2>1, <3>1
  <2>7. \A u, v \in Worker : job'[u] \in Jobs /\ job'[u] = job'[v] => u = v
    BY <2>1, <2>2, <2>5 DEF Placement, HandsOK
  <2> QED
    BY <2>6, <2>7 DEF HandsOK
<1> QED
  BY <1>2, <1>3, <1>4, HandsEffect DEF Placement

\* How the lists of jobs to notify change: one job is told, or the queue of the
\* current generation becomes the list of a caller that had none.
LEMMA NotifyEffect ==
  ASSUME Placement, [Next]_vars
  PROVE  \/ /\ UNCHANGED toNotify
            /\ \A c \in Callers : cpc'[c] # "notify" => toNotify[c] = <<>>
         \/ /\ UNCHANGED <<queue, job, cpc>>
            /\ \E c \in Callers : /\ toNotify[c] # <<>>
                                  /\ toNotify' = [toNotify EXCEPT ![c] = Tail(@)]
         \/ /\ queue' = [queue EXCEPT ![gen] = <<>>] /\ UNCHANGED job
            /\ \E c \in Callers :
                 /\ cpc' = [cpc EXCEPT ![c] = "notify"]
                 /\ toNotify[c] = <<>>
                 /\ toNotify' = [toNotify EXCEPT ![c] = queue[gen]]
<1> DEFINE Silent == \A c \in Callers : cpc'[c] # "notify" => toNotify[c] = <<>>
<1>0. /\ \A c \in Callers : cpc[c] # "notify" => toNotify[c] = <<>>
      /\ cpc \in [Callers -> {"idle", "notify", "join", "threads"}]
      /\ toNotify \in [Callers -> Seq(Jobs)]
      /\ queue \in [Gen -> Seq(Jobs)] /\ gen \in Gen
  BY DEF Placement, NotifyOK, Types, CallType, QueueType, AdmissionType
<1>1. CASE Start
  BY <1>0, <1>1 DEF Start, calls
<1>2. ASSUME NEW j \in Jobs, Reserve(j) \/ Commit(j) \/ Rollback(j)
      PROVE  UNCHANGED toNotify /\ Silent
  BY <1>0, <1>2 DEF Reserve, Commit, Rollback, calls
<1>3. ASSUME NEW c \in Callers, Restart(c)
      PROVE  /\ queue' = [queue EXCEPT ![gen] = <<>>] /\ UNCHANGED job
             /\ cpc' = [cpc EXCEPT ![c] = "notify"]
             /\ toNotify[c] = <<>>
             /\ toNotify' = [toNotify EXCEPT ![c] = queue[gen]]
  <2>1. ClosedMode(FALSE) = "cancelled"
    BY DEF ClosedMode
  <2> QED
    BY <1>0, <1>3, <2>1 DEF Restart, CloseQueue, Discarded, Enter
<1>4. ASSUME NEW c \in Callers, NEW drain \in BOOLEAN, NEW join \in BOOLEAN,
             Close(c, drain, join)
      PROVE  \/ UNCHANGED toNotify /\ Silent
             \/ /\ queue' = [queue EXCEPT ![gen] = <<>>] /\ UNCHANGED job
                /\ cpc' = [cpc EXCEPT ![c] = "notify"]
                /\ toNotify[c] = <<>>
                /\ toNotify' = [toNotify EXCEPT ![c] = queue[gen]]
  <2>1. /\ UNCHANGED job /\ cpc' = [cpc EXCEPT ![c] = "notify"]
        /\ toNotify[c] = <<>> /\ toNotify' = [toNotify EXCEPT ![c] = Discarded(drain)]
    BY <1>0, <1>4 DEF Close, Enter, workers
  <2>2. CASE ClosedMode(drain) = "cancelled"
    BY <1>0, <1>4, <2>1, <2>2 DEF Close, CloseQueue, Discarded
  <2>3. CASE ClosedMode(drain) # "cancelled"
    BY <1>0, <2>1, <2>3 DEF Discarded
  <2> QED
    BY <2>2, <2>3
<1>5. ASSUME NEW c \in Callers, Call(c)
      PROVE  \/ UNCHANGED toNotify /\ Silent
             \/ /\ UNCHANGED <<queue, job, cpc>> /\ toNotify[c] # <<>>
                /\ toNotify' = [toNotify EXCEPT ![c] = Tail(@)]
  <2>1. CASE NotifyCancelled(c)
    BY <2>1 DEF NotifyCancelled, queues, workers
  <2>2. CASE NotifiedReturn(c) \/ ThreadsJoined(c)
    BY <1>0, <2>2 DEF NotifiedReturn, ThreadsJoined, Return
  <2>3. CASE NotifiedWait(c) \/ QueueJoined(c)
    BY <1>0, <2>3 DEF NotifiedWait, QueueJoined
  <2> QED
    BY <1>5, <2>1, <2>2, <2>3 DEF Call
<1>6. ASSUME NEW w \in Worker, Work(w) PROVE UNCHANGED toNotify /\ Silent
  BY <1>0, <1>6, WorkEffect DEF calls
<1>7. CASE UNCHANGED vars
  BY <1>0, <1>7 DEF vars, calls
<1> HIDE DEF Silent
<1>8. CASE UNCHANGED toNotify /\ Silent
  BY <1>8 DEF Silent
<1> QED
  BY <1>1, <1>2, <1>3, <1>4, <1>5, <1>6, <1>7, <1>8, NextCases DEF Silent

LEMMA NotifyStep == Placement /\ [Next]_vars => NotifyOK'
<1> SUFFICES ASSUME Placement, [Next]_vars PROVE NotifyOK'
  OBVIOUS
<1>0. /\ toNotify \in [Callers -> Seq(Jobs)] /\ gen \in Gen
      /\ \A g \in Gen : queue[g] \in Seq(Jobs)
      /\ \A c \in Callers : \A i \in 1..Len(toNotify[c]) : toNotify[c][i] \in Jobs
      /\ cpc \in [Callers -> {"idle", "notify", "join", "threads"}]
  BY DEF Placement, Types, CallType, QueueType, AdmissionType
\* A job put into a worker's hands comes from a queue.
<1>1. \A w \in Worker : \A c \in Callers : \A i \in 1..Len(toNotify[c]) :
         job'[w] # toNotify[c][i]
  <2>1. CASE UNCHANGED job
    BY <2>1 DEF Placement, NotifyOK
  <2>2. ASSUME NEW v \in Worker, job' = [job EXCEPT ![v] = NoJob] PROVE <1>1!:
    BY <1>0, <2>2, WorkerFacts DEF Placement, NotifyOK, Types, WorkerType
  <2>3. ASSUME NEW v \in Worker, Take(v) PROVE <1>1!:
    <3>1. /\ GenOf(v) \in Gen /\ 1 \in 1..Len(queue[GenOf(v)])
          /\ Head(queue[GenOf(v)]) = queue[GenOf(v)][1]
      BY <1>0, <2>3, WorkerFacts, TailElements DEF Take
    <3>2. job' = [job EXCEPT ![v] = queue[GenOf(v)][1]]
      BY <2>3, <3>1 DEF Take
    <3> QED
      BY <3>1, <3>2 DEF Placement, NotifyOK, Types, WorkerType
  <2> QED
    BY <2>1, <2>2, <2>3, HandsEffect DEF Placement
\* A job that is on a list and stays there.
<1>2. \A c \in Callers : \A i \in 1..Len(toNotify[c]) :
        /\ resv'[toNotify[c][i]] = "committed"
        /\ \A g \in Gen : \A k \in 1..Len(queue'[g]) : queue'[g][k] # toNotify[c][i]
        /\ \A w \in Worker : job'[w] # toNotify[c][i]
  <2>1. \A c \in Callers : \A i \in 1..Len(toNotify[c]) :
          /\ resv[toNotify[c][i]] = "committed"
          /\ resv'[toNotify[c][i]] = "committed"
    BY <1>0, CommittedStays DEF Placement, NotifyOK
  <2>2. ASSUME NEW c \in Callers, NEW i \in 1..Len(toNotify[c]),
               NEW g \in Gen, NEW k \in 1..Len(queue'[g])
        PROVE  queue'[g][k] # toNotify[c][i]
    BY <2>1, QueueSource DEF Placement, NotifyOK
  <2> QED
    BY <1>1, <2>1, <2>2
<1>3. CASE /\ UNCHANGED toNotify
           /\ \A c \in Callers : cpc'[c] # "notify" => toNotify[c] = <<>>
  BY <1>2, <1>3 DEF Placement, NotifyOK
<1>4. ASSUME NEW c \in Callers, toNotify[c] # <<>>, UNCHANGED <<queue, job, cpc>>,
             toNotify' = [toNotify EXCEPT ![c] = Tail(@)]
      PROVE  NotifyOK'
  <2>1. /\ toNotify'[c] = Tail(toNotify[c])
        /\ \A d \in Callers : d # c => toNotify'[d] = toNotify[d]
        /\ toNotify[c] \in Seq(Jobs)
    BY <1>0, <1>4
  \* Every entry of a new list is one of the old list, the same shift for all.
  <2> DEFINE From(d, i) == IF d = c THEN i + 1 ELSE i
  <2>2. ASSUME NEW d \in Callers, NEW i \in 1..Len(toNotify'[d])
        PROVE  /\ From(d, i) \in 1..Len(toNotify[d])
               /\ toNotify'[d][i] = toNotify[d][From(d, i)]
    <3>1. CASE d = c
      <4>1. toNotify'[d] = Tail(toNotify[d]) /\ toNotify[d] \in Seq(Jobs)
            /\ toNotify[d] # <<>>
        BY <1>4, <2>1, <3>1
      <4>2. i + 1 \in 1..Len(toNotify[d]) /\ toNotify'[d][i] = toNotify[d][i + 1]
        BY <4>1, TailElements
      <4> QED
        BY <3>1, <4>2
    <3>2. CASE d # c
      BY <2>1, <3>2
    <3> QED
      BY <3>1, <3>2
  <2>3. \A d \in Callers : \A i, k \in 1..Len(toNotify'[d]) :
           From(d, i) = From(d, k) => i = k
    <3>1. \A i, k \in Nat : i + 1 = k + 1 => i = k
      OBVIOUS
    <3>2. \A i \in 1..Len(toNotify'[c]) : i \in Nat
      BY <1>4, <2>1, TailElements
    <3> QED
      BY <3>1, <3>2
  <2> HIDE DEF From
  <2>4. \A d \in Callers : \A i \in 1..Len(toNotify'[d]) :
       /\ resv'[toNotify'[d][i]] = "committed"
       /\ \A g \in Gen : \A k \in 1..Len(queue'[g]) : queue'[g][k] # toNotify'[d][i]
       /\ \A w \in Worker : job'[w] # toNotify'[d][i]
    <3> SUFFICES ASSUME NEW d \in Callers, NEW i \in 1..Len(toNotify'[d])
                 PROVE  /\ resv'[toNotify'[d][i]] = "committed"
                        /\ \A g \in Gen : \A k \in 1..Len(queue'[g]) :
                             queue'[g][k] # toNotify'[d][i]
                        /\ \A w \in Worker : job'[w] # toNotify'[d][i]
      OBVIOUS
    <3>1. /\ From(d, i) \in 1..Len(toNotify[d])
          /\ toNotify'[d][i] = toNotify[d][From(d, i)]
      BY <2>2
    <3> QED
      BY <1>2, <3>1
  <2>5. ASSUME NEW d \in Callers, NEW e \in Callers,
               NEW i \in 1..Len(toNotify'[d]), NEW k \in 1..Len(toNotify'[e]),
               toNotify'[d][i] = toNotify'[e][k]
        PROVE  d = e /\ From(d, i) = From(e, k)
    <3>1. /\ From(d, i) \in 1..Len(toNotify[d]) /\ From(e, k) \in 1..Len(toNotify[e])
          /\ toNotify[d][From(d, i)] = toNotify[e][From(e, k)]
      BY <2>2, <2>5
    <3> QED
      BY <3>1 DEF Placement, NotifyOK
  <2>6. \A d \in Callers : cpc'[d] # "notify" => toNotify'[d] = <<>>
    BY <1>4, <2>1 DEF Placement, NotifyOK
  <2> QED
    BY <2>3, <2>4, <2>5, <2>6 DEF NotifyOK
<1>5. ASSUME NEW c \in Callers, queue' = [queue EXCEPT ![gen] = <<>>], UNCHANGED job,
             cpc' = [cpc EXCEPT ![c] = "notify"], toNotify[c] = <<>>,
             toNotify' = [toNotify EXCEPT ![c] = queue[gen]]
      PROVE  NotifyOK'
  <2>1. /\ toNotify'[c] = queue[gen]
        /\ \A d \in Callers : d # c => toNotify'[d] = toNotify[d]
    BY <1>0, <1>5
  <2>2. /\ \A g \in Gen : g # gen => queue'[g] = queue[g]
        /\ \A k \in 1..Len(queue'[gen]) : FALSE
    BY <1>0, <1>5 DEF Placement, Types, QueueType
  <2>3. \A i \in 1..Len(queue[gen]) :
          /\ queue[gen][i] \in Jobs
          /\ resv[queue[gen][i]] = "committed" /\ resv'[queue[gen][i]] = "committed"
          /\ resvGen[queue[gen][i]] = gen
    BY <1>0, CommittedStays DEF Placement, QueueOK
  <2>4. ASSUME NEW i \in 1..Len(queue[gen]), NEW g \in Gen, NEW k \in 1..Len(queue'[g])
        PROVE  queue'[g][k] # queue[gen][i]
    <3>1. g # gen /\ queue'[g] = queue[g]
      BY <2>2
    <3>2. resvGen[queue[g][k]] = g
      BY <3>1 DEF Placement, QueueOK
    <3> QED
      BY <2>3, <3>1, <3>2
  <2>5. \A i \in 1..Len(queue[gen]) : \A w \in Worker : job[w] # queue[gen][i]
    BY <2>3 DEF Placement, HandsOK
  <2>6. \A d \in Callers : \A i \in 1..Len(toNotify'[d]) :
       /\ resv'[toNotify'[d][i]] = "committed"
       /\ \A g \in Gen : \A k \in 1..Len(queue'[g]) : queue'[g][k] # toNotify'[d][i]
       /\ \A w \in Worker : job'[w] # toNotify'[d][i]
    BY <1>2, <1>5, <2>1, <2>3, <2>4, <2>5
  <2>7. ASSUME NEW d \in Callers, NEW e \in Callers,
               NEW i \in 1..Len(toNotify'[d]), NEW k \in 1..Len(toNotify'[e]),
               toNotify'[d][i] = toNotify'[e][k]
        PROVE  d = e /\ i = k
    <3>1. \A b \in Callers : b # c =>
            \A m \in 1..Len(toNotify[b]), n \in 1..Len(queue[gen]) :
               toNotify[b][m] # queue[gen][n]
      BY <1>0 DEF Placement, NotifyOK
    <3>2. CASE d = c /\ e = c
      BY <1>0, <2>1, <2>7, <3>2 DEF Placement, QueueOK
    <3>3. CASE (d = c) # (e = c)
      BY <2>1, <2>7, <3>1, <3>3
    <3>4. CASE d # c /\ e # c
      BY <2>1, <2>7, <3>4 DEF Placement, NotifyOK
    <3> QED
      BY <3>2, <3>3, <3>4
  <2>8. \A d \in Callers : cpc'[d] # "notify" => toNotify'[d] = <<>>
    BY <1>0, <1>5, <2>1 DEF Placement, NotifyOK
  <2> QED
    BY <2>6, <2>7, <2>8 DEF NotifyOK
<1> QED
  BY <1>3, <1>4, <1>5, NotifyEffect

LEMMA PlacementStep == Placement /\ [Next]_vars => Placement'
BY TypesStep, GenerationsStep, QueueStep, HandsStep, NotifyStep DEF Placement

\* Every committed job is in one place at a time: in the queue of its
\* generation, in the hands of one of its workers, or on the list of one
\* closing thread.
THEOREM PlacementTheorem == Spec => []Placement
<1>1. Init => Placement
  BY PlacementInit
<1>2. Placement /\ [Next]_vars => Placement'
  BY PlacementStep
<1> QED
  BY <1>1, <1>2, PTL DEF Spec

-----------------------------------------------------------------------------
(* A committed job is decided once: ExactlyOnce.                           *)

LEMMA RangeElements ==
  ASSUME NEW S, NEW s \in Seq(S), NEW x
  PROVE  x \in Range(s) <=> \E i \in 1..Len(s) : s[i] = x
BY LenProperties DEF Range

LEMMA RangeAppend ==
  ASSUME NEW S, NEW s \in Seq(S), NEW x \in S
  PROVE  Range(Append(s, x)) = Range(s) \cup {x}
<1>1. Len(s) \in Nat /\ Append(s, x) \in Seq(S) /\ Len(Append(s, x)) = Len(s) + 1
  BY LenProperties, AppendProperties
<1>2. /\ \A i \in 1..Len(s) : i \in 1..Len(Append(s, x)) /\ Append(s, x)[i] = s[i]
      /\ Len(s) + 1 \in 1..Len(Append(s, x)) /\ Append(s, x)[Len(s) + 1] = x
  BY <1>1, AppendProperties
<1>3. ASSUME NEW y \in Range(Append(s, x)) PROVE y \in Range(s) \cup {x}
  <2>1. PICK i \in 1..Len(Append(s, x)) : Append(s, x)[i] = y
    BY <1>1, RangeElements
  <2> QED
    BY <2>1, AppendElements, RangeElements
<1>4. ASSUME NEW y \in Range(s) PROVE y \in Range(Append(s, x))
  <2>1. PICK i \in 1..Len(s) : s[i] = y
    BY RangeElements
  <2> QED
    BY <1>1, <1>2, <2>1, RangeElements
<1>5. x \in Range(Append(s, x))
  BY <1>1, <1>2, RangeElements
<1> QED
  BY <1>3, <1>4, <1>5

LEMMA RangeTail ==
  ASSUME NEW S, NEW s \in Seq(S), s # <<>>,
         \A i, k \in 1..Len(s) : s[i] = s[k] => i = k
  PROVE  Range(Tail(s)) = Range(s) \ {Head(s)}
<1>0. Len(s) \in Nat \ {0} /\ Tail(s) \in Seq(S) /\ Len(Tail(s)) = Len(s) - 1
  BY EmptySeq, HeadTailProperties
<1>1. ASSUME NEW y \in Range(Tail(s)) PROVE y \in Range(s) \ {Head(s)}
  <2>1. PICK i \in 1..Len(Tail(s)) : Tail(s)[i] = y
    BY <1>0, RangeElements
  <2>2. i + 1 \in 1..Len(s) /\ s[i + 1] = y /\ i + 1 # 1 /\ 1 \in 1..Len(s) /\ Head(s) = s[1]
    BY <2>1, TailElements
  <2> QED
    BY <2>2, RangeElements
<1>2. ASSUME NEW y \in Range(s), y # Head(s) PROVE y \in Range(Tail(s))
  <2>1. PICK i \in 1..Len(s) : s[i] = y
    BY RangeElements
  <2>2. i # 1
    BY <1>2, <2>1, TailElements
  <2>3. i - 1 \in 1..Len(Tail(s)) /\ (i - 1) + 1 = i
    BY <1>0, <2>1, <2>2
  <2>4. Tail(s)[i - 1] = y
    BY <2>1, <2>3, TailElements
  <2> QED
    BY <1>0, <2>3, <2>4, RangeElements
<1> QED
  BY <1>1, <1>2

Listed(j) == \E c \in Callers : j \in Range(toNotify[c])
PendingHand == {"taken", "dropped", "notify"}

\* A job in a worker's hands is nowhere else.
LEMMA HeldPlace ==
  ASSUME Placement, NEW w \in Worker, job[w] \in Jobs
  PROVE  /\ resv[job[w]] = "committed"
         /\ ~Queued(job[w]) /\ ~Listed(job[w])
         /\ \A v \in Worker : job[v] = job[w] => v = w
<1>0. /\ \A g \in Gen : queue[g] \in Seq(Jobs)
      /\ \A c \in Callers : toNotify[c] \in Seq(Jobs)
      /\ GenOf(w) \in Gen
  BY WorkerFacts DEF Placement, Types, QueueType, CallType
<1>1. /\ resv[job[w]] = "committed" /\ resvGen[job[w]] = GenOf(w)
      /\ \A v \in Worker : job[v] = job[w] => v = w
      /\ \A i \in 1..Len(queue[GenOf(w)]) : queue[GenOf(w)][i] # job[w]
  BY DEF Placement, HandsOK
<1>2. \A g \in Gen : \A i \in 1..Len(queue[g]) : queue[g][i] # job[w]
  BY <1>1 DEF Placement, QueueOK
<1>3. \A c \in Callers : \A i \in 1..Len(toNotify[c]) : toNotify[c][i] # job[w]
  BY DEF Placement, NotifyOK
<1>4. ~Queued(job[w])
  BY <1>0, <1>2, RangeElements DEF Queued
<1>5. ~Listed(job[w])
  BY <1>0, <1>3, RangeElements DEF Listed
<1> QED
  BY <1>1, <1>4, <1>5

\* Nor is the job a closing thread notifies next, once it is off the list.
LEMMA ListedPlace ==
  ASSUME Placement, NEW c \in Callers, toNotify[c] # <<>>
  PROVE  LET j == Head(toNotify[c])
         IN  /\ j \in Jobs /\ j \in Range(toNotify[c])
             /\ resv[j] = "committed" /\ ~Queued(j)
             /\ \A w \in Worker : job[w] # j
             /\ \A d \in Callers : d # c => j \notin Range(toNotify[d])
             /\ Range(Tail(toNotify[c])) = Range(toNotify[c]) \ {j}
<1> DEFINE j == Head(toNotify[c])
<1>0. /\ \A g \in Gen : queue[g] \in Seq(Jobs)
      /\ \A d \in Callers : toNotify[d] \in Seq(Jobs)
  BY DEF Placement, Types, QueueType, CallType
<1>1. 1 \in 1..Len(toNotify[c]) /\ j = toNotify[c][1] /\ j \in Jobs
  BY <1>0, TailElements
<1> HIDE DEF j
<1>2. /\ resv[j] = "committed"
      /\ \A g \in Gen : \A k \in 1..Len(queue[g]) : queue[g][k] # j
      /\ \A w \in Worker : job[w] # j
  BY <1>1 DEF Placement, NotifyOK
<1>3. \A d \in Callers : d # c => \A k \in 1..Len(toNotify[d]) : toNotify[d][k] # j
  BY <1>1 DEF Placement, NotifyOK
<1>4. ~Queued(j)
  BY <1>0, <1>2, RangeElements DEF Queued
<1>5. \A d \in Callers : d # c => j \notin Range(toNotify[d])
  BY <1>0, <1>3, RangeElements
<1>6. j \in Range(toNotify[c])
  BY <1>0, <1>1, RangeElements
<1>7. \A i, k \in 1..Len(toNotify[c]) : toNotify[c][i] = toNotify[c][k] => i = k
  BY DEF Placement, NotifyOK
<1>8. Range(Tail(toNotify[c])) = Range(toNotify[c]) \ {j}
  BY <1>0, <1>7, RangeTail DEF j
<1> QED
  BY <1>1, <1>2, <1>4, <1>5, <1>6, <1>8 DEF j

\* The four ways to be undecided, and what leaves each of them alone.
LEMMA UndecidedParts ==
  ASSUME NEW j \in Jobs
  PROVE  /\ Undecided(j) <=> resv[j] # "committed" \/ Queued(j)
                             \/ Held(j, PendingHand) \/ Listed(j)
         /\ Undecided(j)' <=> resv'[j] # "committed" \/ Queued(j)'
                             \/ Held(j, PendingHand)' \/ Listed(j)'
BY DEF Undecided, PendingHand, Listed

LEMMA UndecidedFrame ==
  ASSUME NEW j \in Jobs
  PROVE  /\ UNCHANGED queue => (Queued(j)' <=> Queued(j))
         /\ UNCHANGED toNotify => (Listed(j)' <=> Listed(j))
         /\ \A g : Types /\ UNCHANGED job /\ pc' \in {pc, Spawned(g)} =>
              (Held(j, PendingHand)' <=> Held(j, PendingHand))
<1>1. UNCHANGED queue => (Queued(j)' <=> Queued(j))
  BY DEF Queued
<1>2. UNCHANGED toNotify => (Listed(j)' <=> Listed(j))
  BY DEF Listed
<1>3. ASSUME NEW g, Types, UNCHANGED job, pc' \in {pc, Spawned(g)}
      PROVE  Held(j, PendingHand)' <=> Held(j, PendingHand)
  <2>1. \A w \in Worker : pc'[w] \in PendingHand <=> pc[w] \in PendingHand
    BY <1>3 DEF Spawned, Types, WorkerType, PendingHand
  <2> QED
    BY <1>3, <2>1 DEF Held
<1> QED
  BY <1>1, <1>2, <1>3

LEMMA ExactlyOnceStep == Placement /\ ExactlyOnce /\ [Next]_vars => ExactlyOnce'
<1> SUFFICES ASSUME Placement, ExactlyOnce, [Next]_vars, NEW j \in Jobs
             PROVE  runs'[j] + told'[j] = IF Undecided(j)' THEN 0 ELSE 1
  BY DEF ExactlyOnce
<1> DEFINE Goal == runs'[j] + told'[j] = IF Undecided(j)' THEN 0 ELSE 1
<1>0. /\ Types
      /\ runs[j] + told[j] = IF Undecided(j) THEN 0 ELSE 1
      /\ runs[j] \in Nat /\ told[j] \in Nat
      /\ gen \in Gen /\ queue \in [Gen -> Seq(Jobs)]
      /\ toNotify \in [Callers -> Seq(Jobs)]
      /\ pc \in [Worker -> WorkerPC] /\ job \in [Worker -> Jobs \cup {NoJob}]
      /\ resv \in [Jobs -> {"none", "reserved", "committed", "rolled_back", "cancelled"}]
  BY DEF Placement, Types, ExactlyOnce, HistoryType, AdmissionType, QueueType,
         CallType, WorkerType, ResvType
<1>a. UNCHANGED history /\ (Undecided(j)' <=> Undecided(j)) => Goal
  BY <1>0 DEF history
<1>b. ASSUME Undecided(j), ~Undecided(j)',
             \/ UNCHANGED told /\ runs'[j] = runs[j] + 1
             \/ UNCHANGED runs /\ told'[j] = told[j] + 1
      PROVE  Goal
  BY <1>0, <1>b
\* Steps that move no job.
<1>c. ASSUME UNCHANGED <<queue, toNotify, job, history>>,
             pc' = pc \/ \E g : pc' = Spawned(g),
             resv'[j] # "committed" <=> resv[j] # "committed"
      PROVE  Goal
  BY <1>0, <1>a, <1>c, UndecidedParts, UndecidedFrame
<1> HIDE DEF Goal
<1>1. CASE Start
  <2>1. UNCHANGED <<queue, toNotify, job, resv, history>>
    BY <1>1 DEF Start, queues, resvs, calls
  <2>2. pc' = Spawned(gen) \/ pc' = Spawned(gen + 1)
    BY <1>1 DEF Start
  <2> QED
    BY <1>c, <2>1, <2>2 DEF Goal
<1>2. ASSUME NEW k \in Jobs, Reserve(k) PROVE Goal
  BY <1>0, <1>2, <1>c DEF Reserve, queues, calls
<1>3. ASSUME NEW k \in Jobs, Commit(k) PROVE Goal
  <2>1. CASE Committable(k)
    <3>1. /\ queue' = [queue EXCEPT ![gen] = Append(@, k)]
          /\ resv' = [resv EXCEPT ![k] = "committed"] /\ resv[k] = "reserved"
          /\ UNCHANGED <<toNotify, pc, job, history>>
      BY <1>3, <2>1 DEF Commit, workers, calls
    <3>2. /\ \A g \in Gen : g # gen => queue'[g] = queue[g]
          /\ Range(queue'[gen]) = Range(queue[gen]) \cup {k}
      BY <1>0, <3>1, RangeAppend
    <3>3. Queued(j)' <=> Queued(j) \/ j = k
      BY <1>0, <3>2 DEF Queued
    <3> QED
      BY <1>0, <1>a, <3>1, <3>3, UndecidedParts, UndecidedFrame
  <2>2. CASE ~Committable(k)
    BY <1>0, <1>3, <2>2, <1>c DEF Commit, queues, workers, calls
  <2> QED
    BY <2>1, <2>2
<1>4. ASSUME NEW k \in Jobs, Rollback(k) PROVE Goal
  BY <1>0, <1>4, <1>c DEF Rollback, queues, workers, calls
\* The queue of the current generation becomes a list that was empty.
<1>d. ASSUME NEW c \in Callers, toNotify[c] = <<>>,
             queue' = [queue EXCEPT ![gen] = <<>>],
             toNotify' = [toNotify EXCEPT ![c] = queue[gen]],
             resv'[j] # "committed" <=> resv[j] # "committed",
             UNCHANGED <<job, history>>, pc' = pc \/ \E g : pc' = Spawned(g)
      PROVE  Goal
  <2>0. j \notin Range(<<>>)
    BY DEF Range
  <2>1. Queued(j)' <=> \E g \in Gen : g # gen /\ j \in Range(queue[g])
    BY <1>0, <1>d, <2>0 DEF Queued
  <2>2. Listed(j)' <=> j \in Range(queue[gen]) \/ Listed(j)
    BY <1>0, <1>d, <2>0 DEF Listed
  <2>3. Queued(j)' \/ Listed(j)' <=> Queued(j) \/ Listed(j)
    BY <1>0, <2>1, <2>2 DEF Queued
  <2> QED
    BY <1>0, <1>a, <1>d, <2>3, UndecidedParts, UndecidedFrame
<1>e. ASSUME NEW wait \in BOOLEAN, CloseQueue(wait)
      PROVE  resv'[j] # "committed" <=> resv[j] # "committed"
  BY <1>0, <1>e DEF CloseQueue, Reserved
<1>f. \A c \in Callers : cpc[c] = "idle" => toNotify[c] = <<>>
  BY DEF Placement, NotifyOK
<1>5. ASSUME NEW c \in Callers, Restart(c) PROVE Goal
  <2>1. ClosedMode(FALSE) = "cancelled"
    BY DEF ClosedMode
  <2>2. CloseQueue(FALSE)
    BY <1>5 DEF Restart
  <2>3. toNotify[c] = <<>> /\ toNotify' = [toNotify EXCEPT ![c] = queue[gen]]
    BY <1>5, <1>f, <2>1 DEF Restart, Enter, Discarded
  <2>4. queue' = [queue EXCEPT ![gen] = <<>>]
    BY <2>1, <2>2 DEF CloseQueue
  <2>5. UNCHANGED <<job, history>> /\ pc' = Spawned(gen + 1)
    BY <1>5 DEF Restart
  <2> QED
    BY <1>d, <1>e, <2>2, <2>3, <2>4, <2>5
<1>6. ASSUME NEW c \in Callers, NEW drain \in BOOLEAN, NEW join \in BOOLEAN,
             Close(c, drain, join) PROVE Goal
  <2>1. CloseQueue(drain) /\ UNCHANGED <<job, pc, history>> /\ toNotify[c] = <<>>
    BY <1>6, <1>f DEF Close, Enter, workers
  <2>2. CASE ClosedMode(drain) = "cancelled"
    BY <1>6, <1>d, <1>e, <2>1, <2>2 DEF Close, CloseQueue, Discarded
  <2>3. CASE ClosedMode(drain) # "cancelled"
    <3>1. queue' = queue /\ toNotify' = toNotify
      BY <1>0, <1>6, <2>1, <2>3 DEF Close, CloseQueue, Discarded
    <3> QED
      BY <1>c, <1>e, <2>1, <3>1
  <2> QED
    BY <2>2, <2>3
<1>7. ASSUME NEW c \in Callers, Call(c) PROVE Goal
  <2>1. CASE NotifyCancelled(c)
    <3> DEFINE k == Head(toNotify[c])
    <3>1. /\ UNCHANGED <<queue, job, pc, resv, runs>>
          /\ toNotify[c] # <<>> /\ toNotify' = [toNotify EXCEPT ![c] = Tail(@)]
          /\ told' = [told EXCEPT ![k] = @ + 1]
      BY <2>1 DEF NotifyCancelled, queues, workers, resvs
    <3>2. /\ k \in Jobs /\ k \in Range(toNotify[c])
          /\ resv[k] = "committed" /\ ~Queued(k)
          /\ \A w \in Worker : job[w] # k
          /\ \A d \in Callers : d # c => k \notin Range(toNotify[d])
          /\ Range(Tail(toNotify[c])) = Range(toNotify[c]) \ {k}
      BY <3>1, ListedPlace
    <3> HIDE DEF k
    <3>3. /\ \A d \in Callers : d # c => toNotify'[d] = toNotify[d]
          /\ Range(toNotify'[c]) = Range(toNotify[c]) \ {k}
      BY <1>0, <3>1, <3>2
    <3>4. Listed(j)' <=> Listed(j) /\ j # k
      BY <3>2, <3>3 DEF Listed
    <3>5. CASE j = k
      <4>1. Undecided(j) /\ ~Held(j, PendingHand)
        BY <3>2, <3>5, UndecidedParts DEF Listed, Held
      <4>2. ~Undecided(j)'
        BY <1>0, <3>1, <3>2, <3>4, <3>5, <4>1, UndecidedParts, UndecidedFrame
      <4>3. told'[j] = told[j] + 1
        BY <1>0, <3>1, <3>5 DEF Placement, Types, HistoryType
      <4> QED
        BY <1>b, <3>1, <4>1, <4>2, <4>3
    <3>6. CASE j # k
      <4>1. Undecided(j)' <=> Undecided(j)
        BY <1>0, <3>1, <3>4, <3>6, UndecidedParts, UndecidedFrame
      <4>2. told'[j] = told[j] /\ runs'[j] = runs[j]
        BY <3>1, <3>6, <1>0 DEF Placement, Types, HistoryType
      <4> QED
        BY <1>0, <4>1, <4>2 DEF Goal
    <3> QED
      BY <3>5, <3>6
  <2>2. CASE ~NotifyCancelled(c)
    <3>1. UNCHANGED <<queue, job, pc, resv, toNotify>>
      BY <1>7, <2>2, CallEffect DEF queues, workers, resvs
    <3>2. UNCHANGED history
      BY <1>7, <2>2
      DEF Call, NotifiedReturn, NotifiedWait, QueueJoined, ThreadsJoined, Return
    <3> QED
      BY <1>c, <3>1, <3>2
  <2> QED
    BY <2>1, <2>2
<1>8. ASSUME NEW w \in Worker, Work(w) PROVE Goal
  <2>0. /\ \A v \in Worker : v # w => pc'[v] = pc[v] /\ job'[v] = job[v]
        /\ UNCHANGED <<resv, toNotify>>
    <3>1. UNCHANGED <<resv, toNotify>>
      BY <1>8, WorkEffect DEF resvs, calls
    <3>2. CASE AcquireSlot(w) \/ Take(w) \/ TimeOut(w) \/ CheckMode(w)
      BY <1>0, <3>1, <3>2 DEF AcquireSlot, Take, TimeOut, CheckMode, Goto
    <3>3. CASE Decide(w) \/ Finish(w) \/ RanDone(w) \/ DroppedDone(w)
      BY <1>0, <3>1, <3>3 DEF Decide, Finish, RanDone, DroppedDone, Goto
    <3>4. CASE NotifyDropped(w) \/ ReleaseSlot(w) \/ Leave(w)
      BY <1>0, <3>1, <3>4 DEF NotifyDropped, ReleaseSlot, Leave, Goto
    <3> QED
      BY <1>8, <3>1, <3>2, <3>3, <3>4 DEF Work
  \* What w holds decides whether Held changes.
  <2>1. ASSUME (pc'[w] \in PendingHand /\ job'[w] = j)
                 <=> (pc[w] \in PendingHand /\ job[w] = j),
               UNCHANGED <<queue, history>>
        PROVE  Goal
    <3>1. Held(j, PendingHand)' <=> Held(j, PendingHand)
      BY <2>0, <2>1 DEF Held
    <3> QED
      BY <1>a, <2>0, <2>1, <3>1, UndecidedParts, UndecidedFrame
  \* The worker's decision about the job it holds.
  <2>2. ASSUME pc[w] \in PendingHand, pc'[w] \notin PendingHand,
               UNCHANGED queue,
               \/ UNCHANGED told /\ runs' = [runs EXCEPT ![job[w]] = @ + 1]
               \/ UNCHANGED runs /\ told' = [told EXCEPT ![job[w]] = @ + 1]
        PROVE  Goal
    <3>0. job[w] \in Jobs
      BY <2>2 DEF Placement, Types, WorkerType, Busy, PendingHand
    <3>1. CASE j = job[w]
      <4>1. /\ resv[j] = "committed" /\ ~Queued(j) /\ ~Listed(j)
            /\ \A v \in Worker : job[v] = j => v = w
        BY <3>0, <3>1, HeldPlace
      <4>2. Undecided(j)
        BY <2>2, <3>1, UndecidedParts DEF Held
      <4>3. ~Held(j, PendingHand)'
        BY <2>0, <2>2, <4>1 DEF Held
      <4>4. ~Undecided(j)'
        BY <2>0, <2>2, <4>1, <4>3, UndecidedParts, UndecidedFrame
      <4>5. \/ UNCHANGED told /\ runs'[j] = runs[j] + 1
            \/ UNCHANGED runs /\ told'[j] = told[j] + 1
        BY <2>2, <3>1 DEF Placement, Types, HistoryType
      <4> QED
        BY <1>b, <4>2, <4>4, <4>5
    <3>2. CASE j # job[w]
      <4>1. \A v \in Worker : pc'[v] \in PendingHand /\ job'[v] = j
                              <=> pc[v] \in PendingHand /\ job[v] = j
        BY <2>0, <2>2, <3>2
      <4>2. Held(j, PendingHand)' <=> Held(j, PendingHand)
        BY <4>1 DEF Held
      <4>3. Undecided(j)' <=> Undecided(j)
        BY <2>0, <2>2, <4>2, UndecidedParts, UndecidedFrame
      <4>4. runs'[j] = runs[j] /\ told'[j] = told[j]
        BY <2>2, <3>2 DEF Placement, Types, HistoryType
      <4> QED
        BY <1>0, <4>3, <4>4 DEF Goal
    <3> QED
      BY <3>1, <3>2
  <2>3. CASE Take(w)
    <3> DEFINE h == GenOf(w)
               k == Head(queue[h])
    <3>0. h \in Gen /\ queue[h] \in Seq(Jobs) /\ queue[h] # <<>>
      BY <1>0, <2>3, WorkerFacts DEF Take
    <3>1. \A i, m \in 1..Len(queue[h]) : queue[h][i] = queue[h][m] => i = m
      BY <3>0 DEF Placement, QueueOK
    <3>2. /\ Range(Tail(queue[h])) = Range(queue[h]) \ {k}
          /\ 1 \in 1..Len(queue[h]) /\ k = queue[h][1] /\ k \in Jobs
      BY <3>0, <3>1, RangeTail, TailElements
    <3>3. k \in Range(queue[h])
      BY <3>0, <3>2, RangeElements
    <3>4. ASSUME NEW g \in Gen, k \in Range(queue[g]) PROVE g = h
      <4>0. queue[g] \in Seq(Jobs)
        BY <1>0
      <4>1. PICK i \in 1..Len(queue[g]) : queue[g][i] = k
        BY <3>4, <4>0, RangeElements
      <4>2. resvGen[k] = g /\ resvGen[k] = h
        BY <3>0, <3>2, <4>1 DEF Placement, QueueOK
      <4> QED
        BY <4>2
    <3>5. /\ queue' = [queue EXCEPT ![h] = Tail(@)]
          /\ pc'[w] = "taken" /\ job'[w] = k
          /\ pc[w] = "loop" /\ UNCHANGED history
      BY <1>0, <2>3 DEF Take, Goto
    <3> HIDE DEF h, k
    <3>6. Range(queue'[h]) = Range(queue[h]) \ {k}
          /\ \A g \in Gen : g # h => queue'[g] = queue[g]
      BY <1>0, <3>0, <3>2, <3>5
    <3>7. Queued(j)' <=> Queued(j) /\ j # k
      BY <3>0, <3>4, <3>6 DEF Queued
    <3>8. Held(j, PendingHand)' <=> Held(j, PendingHand) \/ j = k
      BY <2>0, <3>5 DEF Held, PendingHand
    <3>9. Queued(k)
      BY <3>0, <3>3 DEF Queued
    <3> QED
      BY <1>a, <2>0, <3>5, <3>7, <3>8, <3>9, UndecidedParts, UndecidedFrame
  <2>4. CASE Decide(w)
    <3>1. CASE ShouldRun(GenOf(w))
      BY <1>0, <2>2, <2>4, <3>1 DEF Decide, Goto, PendingHand, queues
    <3>2. CASE ~ShouldRun(GenOf(w))
      BY <1>0, <2>1, <2>4, <3>2 DEF Decide, Goto, PendingHand, queues, history
    <3> QED
      BY <3>1, <3>2
  <2>5. CASE NotifyDropped(w)
    BY <1>0, <2>2, <2>5 DEF NotifyDropped, Goto, PendingHand, queues
  <2>6. CASE AcquireSlot(w) \/ TimeOut(w) \/ CheckMode(w) \/ Finish(w)
    BY <1>0, <2>1, <2>6
    DEF AcquireSlot, TimeOut, CheckMode, Finish, Goto, PendingHand, queues
  <2>7. CASE RanDone(w) \/ DroppedDone(w) \/ ReleaseSlot(w) \/ Leave(w)
    BY <1>0, <2>1, <2>7
    DEF RanDone, DroppedDone, ReleaseSlot, Leave, Goto, PendingHand, queues
  <2> QED
    BY <1>8, <2>3, <2>4, <2>5, <2>6, <2>7 DEF Work
<1>9. CASE UNCHANGED vars
  <2>1. UNCHANGED <<queue, toNotify, job, pc, resv, history>>
    BY <1>9 DEF vars, queues, calls, workers, resvs
  <2> QED
    BY <1>c, <2>1 DEF Goal
<1> QED
  BY <1>1, <1>2, <1>3, <1>4, <1>5, <1>6, <1>7, <1>8, <1>9, NextCases DEF Goal

\* A committed task is run once or told once that it was cancelled, never both:
\* whichever of a closing thread and a worker gets to it first decides.
THEOREM ExactlyOnceTheorem == Spec => []ExactlyOnce
<1>1. Init => ExactlyOnce
  BY DEF Init, ExactlyOnce, Undecided
<1>2. Placement /\ ExactlyOnce /\ [Next]_vars => ExactlyOnce'
  BY ExactlyOnceStep
<1> QED
  BY <1>1, <1>2, PlacementTheorem, PTL DEF Spec

=============================================================================
