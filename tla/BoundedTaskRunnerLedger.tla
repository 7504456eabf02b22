----------------------- MODULE BoundedTaskRunnerLedger -----------------------
(***************************************************************************)
(* BoundedTaskRunner implements JobLedger, for any number of jobs,         *)
(* callers, workers and generations: whatever threads, queues and closing  *)
(* calls do, a client sees a bounded number of jobs on the books, a        *)
(* bounded number of them executing, and each committed job leaving the    *)
(* books once.                                                             *)
(***************************************************************************)
EXTENDS BoundedTaskRunnerCounts

\* What the status of a committed job depends on.
Running(j) == Held(j, {"run"})
Pending(j) == Held(j, {"taken"}) \/ Queued(j)
Ran(j)     == runs[j] = 1

LEMMA StatusIs ==
  ASSUME ResvType, NEW j \in Jobs
  PROVE  /\ resv[j] = "none" => LedgerStatus[j] = "idle"
         /\ resv[j] = "reserved" => LedgerStatus[j] = "reserved"
         /\ resv[j] \in {"rolled_back", "cancelled"} => LedgerStatus[j] = "released"
         /\ resv[j] = "committed" =>
              /\ Running(j) => LedgerStatus[j] = "running"
              /\ ~Running(j) /\ Pending(j) => LedgerStatus[j] = "pending"
              /\ ~Running(j) /\ ~Pending(j) /\ Ran(j) => LedgerStatus[j] = "finished"
              /\ ~Running(j) /\ ~Pending(j) /\ ~Ran(j) => LedgerStatus[j] = "cancelled"
BY DEF LedgerStatus, Running, Pending, Ran

LEMMA StatusWillBe ==
  ASSUME ResvType', NEW j \in Jobs
  PROVE  /\ resv'[j] = "none" => LedgerStatus'[j] = "idle"
         /\ resv'[j] = "reserved" => LedgerStatus'[j] = "reserved"
         /\ resv'[j] \in {"rolled_back", "cancelled"} => LedgerStatus'[j] = "released"
         /\ resv'[j] = "committed" =>
              /\ Running(j)' => LedgerStatus'[j] = "running"
              /\ ~Running(j)' /\ Pending(j)' => LedgerStatus'[j] = "pending"
              /\ ~Running(j)' /\ ~Pending(j)' /\ Ran(j)' => LedgerStatus'[j] = "finished"
              /\ ~Running(j)' /\ ~Pending(j)' /\ ~Ran(j)' => LedgerStatus'[j] = "cancelled"
BY DEF LedgerStatus, Running, Pending, Ran

LEMMA StatusType ==
  /\ ResvType => LedgerStatus \in [Jobs -> Ledger!Status]
  /\ ResvType' => LedgerStatus' \in [Jobs -> Ledger!Status]
<1>1. ASSUME ResvType PROVE LedgerStatus \in [Jobs -> Ledger!Status]
  <2>1. \A j \in Jobs : LedgerStatus[j] \in Ledger!Status
    BY <1>1, StatusIs DEF Ledger!Status, ResvType
  <2> QED
    BY <2>1 DEF LedgerStatus
<1>2. ASSUME ResvType' PROVE LedgerStatus' \in [Jobs -> Ledger!Status]
  <2>1. \A j \in Jobs : LedgerStatus'[j] \in Ledger!Status
    BY <1>2, StatusWillBe DEF Ledger!Status, ResvType
  <2> QED
    BY <2>1 DEF LedgerStatus
<1> QED
  BY <1>1, <1>2

\* A job whose place and history do not change stands where it stood.
LEMMA StatusFrame ==
  ASSUME ResvType, ResvType', NEW j \in Jobs,
         resv'[j] = resv[j], Ran(j)' <=> Ran(j),
         Running(j)' <=> Running(j), Pending(j)' <=> Pending(j)
  PROVE  LedgerStatus'[j] = LedgerStatus[j]
BY StatusIs, StatusWillBe DEF ResvType

\* One job moves: the step of the ledger.
LEMMA LedgerMove ==
  ASSUME ResvType, ResvType', NEW k \in Jobs,
         \A j \in Jobs : j # k => LedgerStatus'[j] = LedgerStatus[j]
  PROVE  Ledger!Move({k}, LedgerStatus[k], LedgerStatus'[k])
<1>1. /\ LedgerStatus \in [Jobs -> Ledger!Status]
      /\ LedgerStatus' \in [Jobs -> Ledger!Status]
  BY StatusType
<1>2. {k} \subseteq Ledger!WithStatus({LedgerStatus[k]})
  BY DEF Ledger!WithStatus
<1>3. LedgerStatus' = [j \in Jobs |-> IF j \in {k} THEN LedgerStatus'[k] ELSE LedgerStatus[j]]
  BY <1>1
<1> QED
  BY <1>2, <1>3 DEF Ledger!Move

LEMMA LedgerStutter ==
  ASSUME ResvType, ResvType', \A j \in Jobs : LedgerStatus'[j] = LedgerStatus[j]
  PROVE  LedgerStatus' = LedgerStatus
BY StatusType

-----------------------------------------------------------------------------
(* A job that executes was started once: what makes it finished, and not   *)
(* cancelled, when its callback returns.                                   *)

Started == \A w \in Worker : pc[w] = "run" => runs[job[w]] = 1

\* What _close_locked and a worker find on the books was not started.
LEMMA NotStarted ==
  ASSUME Placement, ExactlyOnce, NEW j \in Jobs, Undecided(j)
  PROVE  runs[j] = 0
<1>1. runs[j] + told[j] = 0 /\ runs[j] \in Nat /\ told[j] \in Nat
  BY DEF ExactlyOnce, Placement, Types, HistoryType
<1> QED
  BY <1>1

LEMMA StartedStep == Placement /\ ExactlyOnce /\ Started /\ [Next]_vars => Started'
<1> SUFFICES ASSUME Placement, ExactlyOnce, Started, [Next]_vars,
                    NEW w \in Worker, pc'[w] = "run"
             PROVE  runs'[job'[w]] = 1
  BY DEF Started
<1>0. /\ Types /\ pc \in [Worker -> WorkerPC] /\ job \in [Worker -> Jobs \cup {NoJob}]
      /\ runs \in [Jobs -> Nat]
  BY DEF Placement, Types, WorkerType, HistoryType
<1>1. CASE \E v \in Worker : Work(v)
  <2> PICK v \in Worker : Work(v)
    BY <1>1
  <2>1. CASE Decide(v)
    <3>1. pc[v] = "taken" /\ job' = job /\ job[v] \in Jobs
      BY <1>0, <2>1 DEF Decide, Types, WorkerType, Busy
    <3>2. CASE ShouldRun(GenOf(v))
      <4>1. runs' = [runs EXCEPT ![job[v]] = @ + 1] /\ Goto(v, "run")
        BY <2>1, <3>2 DEF Decide
      <4>2. CASE w = v
        <5>1. Undecided(job[v])
          BY <3>1 DEF Undecided, Held
        <5>2. runs[job[v]] = 0
          BY <3>1, <5>1, NotStarted
        <5> QED
          BY <1>0, <3>1, <4>1, <4>2, <5>2
      <4>3. CASE w # v
        <5>1. pc[w] = "run"
          BY <1>0, <4>1, <4>3 DEF Goto
        <5>2. job[w] # job[v]
          BY <3>1, <4>3, HeldPlace
        <5> QED
          BY <1>0, <3>1, <4>1, <5>1, <5>2 DEF Started
      <4> QED
        BY <4>2, <4>3
    <3>3. CASE ~ShouldRun(GenOf(v))
      <4>1. runs' = runs /\ Goto(v, "dropped")
        BY <2>1, <3>3 DEF Decide
      <4>2. pc[w] = "run"
        BY <1>0, <4>1 DEF Goto
      <4> QED
        BY <3>1, <4>1, <4>2 DEF Started
    <3> QED
      BY <3>2, <3>3
  <2>2. CASE ~Decide(v)
    <3>1. runs' = runs /\ pc[w] = "run" /\ job'[w] = job[w]
      <4>1. CASE AcquireSlot(v) \/ Take(v) \/ TimeOut(v) \/ CheckMode(v)
        BY <1>0, <4>1 DEF AcquireSlot, Take, TimeOut, CheckMode, Goto, history
      <4>2. CASE Finish(v) \/ RanDone(v) \/ DroppedDone(v)
        BY <1>0, <4>2 DEF Finish, RanDone, DroppedDone, Goto, history
      <4>3. CASE NotifyDropped(v) \/ ReleaseSlot(v) \/ Leave(v)
        BY <1>0, <4>3 DEF NotifyDropped, ReleaseSlot, Leave, Goto, history
      <4> QED
        BY <2>2, <4>1, <4>2, <4>3 DEF Work
    <3> QED
      BY <3>1 DEF Started
  <2> QED
    BY <2>1, <2>2
<1>2. CASE ~\E v \in Worker : Work(v)
  <2>1. UNCHANGED job /\ (pc' = pc \/ \E g : pc' = Spawned(g))
    BY <1>2, ClientEffect
  <2>2. pc[w] = "run"
    BY <1>0, <2>1 DEF Spawned
  <2>3. runs' = runs
    <3>1. ASSUME NEW c \in Callers, Call(c) PROVE runs' = runs
      BY <3>1 DEF Call, NotifyCancelled, NotifiedReturn, NotifiedWait, QueueJoined,
                  ThreadsJoined, Return, history
    <3>2. ASSUME NEW j \in Jobs, Reserve(j) \/ Commit(j) \/ Rollback(j) PROVE runs' = runs
      BY <3>2 DEF Reserve, Commit, Rollback, history
    <3>3. ASSUME NEW c \in Callers, Restart(c) PROVE runs' = runs
      BY <3>3 DEF Restart, history
    <3>4. ASSUME NEW c \in Callers, NEW drain \in BOOLEAN, NEW join \in BOOLEAN,
                 Close(c, drain, join) PROVE runs' = runs
      BY <3>4 DEF Close, history
    <3>5. Start \/ UNCHANGED vars => runs' = runs
      BY DEF Start, vars, history
    <3> QED
      BY <1>2, <3>1, <3>2, <3>3, <3>4, <3>5, NextCases
  <2> QED
    BY <2>1, <2>2, <2>3 DEF Started
<1> QED
  BY <1>1, <1>2

-----------------------------------------------------------------------------
(* The bounds of the ledger.                                               *)

LEMMA SameCardinality == \A S : Ledger!Cardinality(S) = Cardinality(S)
BY DEF Cardinality, Ledger!Cardinality

\* What the ledger counts against its capacity is what _accepted counts.
LEMMA SameBooks ==
  ASSUME Placement
  PROVE  Ledger!OnTheBooks = OnBooks
<1>0. ResvType
  BY DEF Placement, Types
<1>1. ASSUME NEW j \in Jobs PROVE j \in Ledger!OnTheBooks <=> j \in OnBooks
  <2>1. Queued(j) => resv[j] = "committed"
    BY QueuePlace DEF Queued
  <2>2. \A L : Held(j, L) => resv[j] = "committed"
    BY HeldPlace DEF Held
  <2>3. Held(j, OnTask) <=> Held(j, {"taken"}) \/ Held(j, {"run"})
    BY DEF Held, OnTask
  <2>4. j \in OnBooks <=> resv[j] = "reserved" \/ Queued(j) \/ Held(j, OnTask)
    BY OnBooksParts
  <2>5. j \in Ledger!OnTheBooks
          <=> LedgerStatus[j] \in {"reserved", "pending", "running"}
    BY DEF Ledger!OnTheBooks, Ledger!WithStatus
  <2> QED
    BY <1>0, <2>1, <2>2, <2>3, <2>4, <2>5, StatusIs DEF ResvType, Running, Pending
<1>2. Ledger!OnTheBooks \subseteq Jobs /\ OnBooks \subseteq Jobs
  BY DEF Ledger!OnTheBooks, Ledger!WithStatus, OnBooks
<1> QED
  BY <1>1, <1>2

\* A worker that is about to run a task finds one of the MaxWorkers places
\* free: it holds a slot of its own.
LEMMA RunningRoom ==
  ASSUME Placement, Threads, NEW w \in Worker, pc[w] = "taken"
  PROVE  Cardinality(Ledger!WithStatus({"running"})) < MaxWorkers
<1> DEFINE A == AtWork({"run"})
           R == Ledger!WithStatus({"running"})
           f == [v \in A |-> job[v]]
<1>0. /\ IsFiniteSet(A) /\ Cardinality(A) \in Nat /\ w \notin A
      /\ IsFiniteSet(AtWork(Inside)) /\ Cardinality(AtWork(Inside)) \in Nat
      /\ slots \in Nat /\ MaxWorkers \in Nat
      /\ slots + Cardinality(AtWork(Inside)) = MaxWorkers
  BY WorkersFinite, RunnerAssumption DEF Threads, AtWork
<1>1. A \cup {w} \in SUBSET AtWork(Inside)
  BY DEF AtWork, Inside
<1>2. Cardinality(A \cup {w}) = Cardinality(A) + 1
  BY <1>0, FS_AddElement
<1>3. Cardinality(A) + 1 <= Cardinality(AtWork(Inside))
  BY <1>0, <1>1, <1>2, FS_Subset
<1>4. \A j \in Jobs : j \in R <=> Running(j)
  BY StatusIs DEF Placement, Types, ResvType, Ledger!WithStatus, Running, Held, HandsOK
<1>5. R \subseteq Jobs
  BY DEF Ledger!WithStatus
<1>6. \A v \in A : job[v] \in R
  <2> SUFFICES ASSUME NEW v \in A PROVE job[v] \in R
    OBVIOUS
  <2>1. v \in Worker /\ pc[v] = "run"
    BY DEF AtWork
  <2>2. job[v] \in Jobs
    BY <2>1 DEF Placement, Types, WorkerType, Busy
  <2> QED
    BY <1>4, <2>1, <2>2 DEF Running, Held
<1>7. \A j \in R : \E v \in A : job[v] = j
  BY <1>4, <1>5 DEF Running, Held, AtWork
<1>8. f \in Surjection(A, R)
  BY <1>6, <1>7 DEF Surjection
<1>9. IsFiniteSet(R) /\ Cardinality(R) <= Cardinality(A)
  BY <1>0, <1>8, FS_Surjection
<1>10. Cardinality(R) \in Nat
  BY <1>9, FS_CardinalityType
<1> QED
  BY <1>0, <1>3, <1>9, <1>10

-----------------------------------------------------------------------------
(* Every step is a step of the ledger or invisible there.                  *)

LedgerInv == Placement /\ ExactlyOnce /\ Started /\ Threads /\ Books

LedgerOK == Ledger!Next \/ LedgerStatus' = LedgerStatus

LEMMA LedgerNext ==
  ASSUME NEW k \in Jobs,
         \/ Ledger!Reserve(k) \/ Ledger!Commit(k) \/ Ledger!Release(k)
         \/ Ledger!Run(k) \/ Ledger!Finish(k) \/ Ledger!Cancel(k)
  PROVE  LedgerOK
BY DEF LedgerOK, Ledger!Next

\* Steps that move no job.
LEMMA LedgerSame ==
  ASSUME Types, ResvType', UNCHANGED <<queue, resv, runs>>,
         \A j \in Jobs : /\ Running(j)' <=> Running(j)
                         /\ Held(j, {"taken"})' <=> Held(j, {"taken"})
  PROVE  LedgerOK
<1>1. ASSUME NEW j \in Jobs PROVE LedgerStatus'[j] = LedgerStatus[j]
  <2>1. (Queued(j)' <=> Queued(j)) /\ (Ran(j)' <=> Ran(j))
    BY DEF Queued, Ran
  <2> QED
    BY <2>1, StatusFrame DEF Types, Pending
<1> QED
  BY <1>1, LedgerStutter DEF LedgerOK, Types

LEMMA HandsSame ==
  ASSUME Types, UNCHANGED job, NEW g, pc' \in {pc, Spawned(g)}, NEW j \in Jobs
  PROVE  /\ Running(j)' <=> Running(j)
         /\ Held(j, {"taken"})' <=> Held(j, {"taken"})
<1>1. \A w \in Worker : pc'[w] \in {"taken", "run"} \/ pc[w] \in {"taken", "run"}
                          => pc'[w] = pc[w]
  BY DEF Spawned, Types, WorkerType
<1> QED
  BY <1>1 DEF Running, Held

LEMMA ReservationLedger ==
  ASSUME LedgerInv, ResvType', NEW k \in Jobs, Reserve(k) \/ Commit(k) \/ Rollback(k)
  PROVE  LedgerOK
<1>0. /\ Types /\ ResvType /\ gen \in Gen /\ queue \in [Gen -> Seq(Jobs)]
      /\ resv \in [Jobs -> {"none", "reserved", "committed", "rolled_back", "cancelled"}]
      /\ accepted = Cardinality(OnBooks)
  BY DEF LedgerInv, Placement, Types, ResvType, AdmissionType, QueueType, Books
\* Neither is a reservation queued nor in a worker's hands.
<1>a. resv[k] # "committed" => ~Running(k) /\ ~Pending(k)
  <2>1. Queued(k) => resv[k] = "committed"
    BY QueuePlace DEF Queued, LedgerInv
  <2>2. \A L : Held(k, L) => resv[k] = "committed"
    BY HeldPlace DEF Held, LedgerInv
  <2> QED
    BY <2>1, <2>2 DEF Running, Pending
\* The other jobs stay where they are.
<1>b. ASSUME \A j \in Jobs : j # k => resv'[j] = resv[j] /\ (Queued(j)' <=> Queued(j)),
             UNCHANGED <<job, runs>>, NEW g, pc' \in {pc, Spawned(g)}
      PROVE  Ledger!Move({k}, LedgerStatus[k], LedgerStatus'[k])
  <2>0. UNCHANGED job /\ pc' \in {pc, Spawned(g)}
    BY <1>b
  <2>1. ASSUME NEW j \in Jobs, j # k PROVE LedgerStatus'[j] = LedgerStatus[j]
    <3>1. (Running(j)' <=> Running(j)) /\ (Held(j, {"taken"})' <=> Held(j, {"taken"}))
      <4>1. Types
        BY <1>0
      <4> QED
        BY <2>0, <4>1, HandsSame
    <3>2. (Pending(j)' <=> Pending(j)) /\ (Ran(j)' <=> Ran(j))
      BY <1>b, <2>1, <3>1 DEF Pending, Ran
    <3> QED
      BY <1>0, <1>b, <2>1, <3>1, <3>2, StatusFrame
  <2> QED
    BY <1>0, <2>1, LedgerMove
<1>1. CASE Reserve(k)
  <2>1. /\ resv[k] = "none" /\ resv' = [resv EXCEPT ![k] = "reserved"]
        /\ accepted < Capacity /\ UNCHANGED <<queue, job, runs>> /\ pc' = Spawned(gen)
    BY <1>1 DEF Reserve, HasRoom, queues, history
  <2>2. Ledger!Move({k}, LedgerStatus[k], LedgerStatus'[k])
    <3>1. \A j \in Jobs : j # k => resv'[j] = resv[j] /\ (Queued(j)' <=> Queued(j))
      BY <1>0, <2>1 DEF Queued
    <3> QED
      BY <1>b, <2>1, <3>1
  <2>3. LedgerStatus[k] = "idle" /\ LedgerStatus'[k] = "reserved"
    BY <1>0, <2>1, StatusIs, StatusWillBe
  <2>4. Cardinality(Ledger!OnTheBooks) < Capacity
    BY <1>0, <2>1, SameBooks DEF LedgerInv
  <2>5. Ledger!Reserve(k)
    BY <2>2, <2>3, <2>4, SameCardinality DEF Ledger!Reserve
  <2> QED
    BY <2>5, LedgerNext
\* A reservation that is given up.
<1>c. ASSUME resv[k] = "reserved", NEW s \in {"cancelled", "rolled_back"},
             resv' = [resv EXCEPT ![k] = s], UNCHANGED <<queue, job, pc, runs>>
      PROVE  LedgerOK
  <2>1. Ledger!Move({k}, LedgerStatus[k], LedgerStatus'[k])
    BY <1>0, <1>b, <1>c DEF Queued
  <2>2. LedgerStatus[k] = "reserved" /\ LedgerStatus'[k] = "released"
    BY <1>0, <1>c, StatusIs, StatusWillBe
  <2>3. Ledger!Release(k)
    BY <2>1, <2>2 DEF Ledger!Release
  <2> QED
    BY <2>3, LedgerNext
<1>2. CASE Commit(k)
  <2>0. resv[k] = "reserved" /\ UNCHANGED <<job, pc, runs>>
    BY <1>2 DEF Commit, workers, history
  <2>1. CASE Committable(k)
    <3>1. /\ queue' = [queue EXCEPT ![gen] = Append(@, k)]
          /\ resv' = [resv EXCEPT ![k] = "committed"]
      BY <1>2, <2>1 DEF Commit
    <3>2. /\ \A g \in Gen : g # gen => queue'[g] = queue[g]
          /\ Range(queue'[gen]) = Range(queue[gen]) \cup {k}
      BY <1>0, <3>1, RangeAppend
    <3>3. \A j \in Jobs : Queued(j)' <=> Queued(j) \/ j = k
      BY <1>0, <3>2 DEF Queued
    <3>4. Ledger!Move({k}, LedgerStatus[k], LedgerStatus'[k])
      BY <1>0, <1>b, <2>0, <3>1, <3>3
    <3>5. Pending(k)' /\ ~Running(k)'
      BY <1>a, <2>0, <3>3 DEF Pending, Running, Held
    <3>6. LedgerStatus[k] = "reserved" /\ LedgerStatus'[k] = "pending"
      BY <1>0, <2>0, <3>1, <3>5, StatusIs, StatusWillBe
    <3>7. Ledger!Commit(k)
      BY <3>4, <3>6 DEF Ledger!Commit
    <3> QED
      BY <3>7, LedgerNext
  <2>2. CASE ~Committable(k)
    BY <1>2, <1>c, <2>0, <2>2 DEF Commit, queues
  <2> QED
    BY <2>1, <2>2
<1>3. CASE Rollback(k)
  BY <1>3, <1>c DEF Rollback, queues, workers, history
<1> QED
  BY <1>1, <1>2, <1>3

\* A close releases the pending reservations and cancels the tasks it takes
\* out of the queue, none of which was started.
LEMMA CloseLedger ==
  ASSUME LedgerInv, ResvType', NEW wait \in BOOLEAN, CloseQueue(wait),
         UNCHANGED <<job, runs>>, NEW g, pc' \in {pc, Spawned(g)}
  PROVE  LedgerOK
<1> DEFINE D == Discarded(wait)
<1>0. /\ Placement /\ ExactlyOnce /\ Types /\ ResvType
      /\ gen \in Gen /\ queue \in [Gen -> Seq(Jobs)]
      /\ resv \in [Jobs -> {"none", "reserved", "committed", "rolled_back", "cancelled"}]
  BY DEF LedgerInv, Placement, Types, ResvType, AdmissionType, QueueType
<1>t. Types
  BY DEF LedgerInv, Placement
<1>1. Range(D) \subseteq Range(queue[gen])
  BY DEF Discarded, Range
<1>2. /\ Range(queue'[gen]) = Range(queue[gen]) \ Range(D)
      /\ \A h \in Gen : h # gen => queue'[h] = queue[h]
  <2>0. Range(<<>>) = {}
    BY DEF Range
  <2>1. CASE ClosedMode(wait) = "cancelled"
    <3>1. queue' = [queue EXCEPT ![gen] = <<>>] /\ D = queue[gen]
      BY <2>1 DEF CloseQueue, Discarded
    <3> QED
      BY <1>0, <2>0, <3>1
  <2>2. CASE ClosedMode(wait) # "cancelled"
    <3>1. queue' = queue /\ D = <<>>
      BY <1>0, <2>2 DEF CloseQueue, Discarded
    <3> QED
      BY <1>0, <2>0, <3>1
  <2> QED
    BY <2>1, <2>2
<1> HIDE DEF D
<1>3. ASSUME NEW j \in Jobs
      PROVE  Queued(j)' <=> Queued(j) /\ j \notin Range(D)
  <2>1. CASE j \in Range(queue[gen])
    <3>1. \A h \in Gen : j \in Range(queue[h]) => h = gen
      BY <1>0, <2>1, QueuePlace
    <3> QED
      BY <1>0, <1>2, <2>1, <3>1 DEF Queued
  <2>2. CASE j \notin Range(queue[gen])
    BY <1>0, <1>1, <1>2, <2>2 DEF Queued
  <2> QED
    BY <2>1, <2>2
<1>4. ASSUME NEW j \in Jobs
      PROVE  \/ LedgerStatus'[j] = LedgerStatus[j]
             \/ LedgerStatus[j] = "reserved" /\ LedgerStatus'[j] = "released"
             \/ LedgerStatus[j] = "pending" /\ LedgerStatus'[j] = "cancelled"
  <2>1. (Running(j)' <=> Running(j)) /\ (Held(j, {"taken"})' <=> Held(j, {"taken"}))
    BY <1>t, HandsSame
  <2>2. Ran(j)' <=> Ran(j)
    BY DEF Ran
  <2>3. CASE j \in Reserved(gen)
    <3>1. resv[j] = "reserved" /\ resv'[j] = "cancelled"
      BY <2>3 DEF CloseQueue, Reserved
    <3> QED
      BY <1>0, <3>1, StatusIs, StatusWillBe
  <2>4. CASE j \notin Reserved(gen) /\ j \notin Range(D)
    <3>1. resv'[j] = resv[j]
      BY <2>4 DEF CloseQueue
    <3>2. Pending(j)' <=> Pending(j)
      BY <1>3, <2>1, <2>4 DEF Pending
    <3> QED
      BY <1>0, <2>1, <2>2, <3>1, <3>2, StatusFrame
  <2>5. CASE j \notin Reserved(gen) /\ j \in Range(D)
    <3>1. /\ resv[j] = "committed" /\ Queued(j)
          /\ \A w \in Worker : job[w] # j
      BY <1>0, <1>1, <2>5, QueuePlace DEF Queued
    <3>2. resv'[j] = "committed"
      BY <2>5, <3>1 DEF CloseQueue
    <3>3. ~Running(j) /\ Pending(j) /\ ~Held(j, {"taken"})
      BY <3>1 DEF Running, Held, Pending
    <3>4. ~Running(j)' /\ ~Pending(j)'
      BY <1>3, <2>1, <2>5, <3>3 DEF Pending
    <3>5. ~Ran(j)'
      <4>1. Undecided(j)
        BY <3>1 DEF Undecided
      <4>2. runs[j] = 0
        BY <1>0, <4>1, NotStarted
      <4> QED
        BY <4>2 DEF Ran
    <3> QED
      BY <1>0, <3>1, <3>2, <3>3, <3>4, <3>5, StatusIs, StatusWillBe
  <2> QED
    BY <2>3, <2>4, <2>5
<1>5. Ledger!Close
  BY <1>4, StatusType DEF Ledger!Close
<1> QED
  BY <1>5 DEF LedgerOK, Ledger!Next

\* Of a worker's steps the ledger sees the decision and the end of a callback.
LEMMA WorkLedger ==
  ASSUME LedgerInv, ResvType', NEW w \in Worker, Work(w)
  PROVE  LedgerOK
<1>0. /\ Placement /\ ExactlyOnce /\ Types /\ ResvType
      /\ queue \in [Gen -> Seq(Jobs)] /\ runs \in [Jobs -> Nat]
      /\ pc \in [Worker -> WorkerPC] /\ job \in [Worker -> Jobs \cup {NoJob}]
      /\ GenOf(w) \in Gen /\ NoJob \notin Jobs
      /\ \A v \in Worker : pc[v] \in Busy <=> job[v] \in Jobs
  BY WorkerFacts DEF LedgerInv, Placement, Types, QueueType, HistoryType, WorkerType
<1>r. UNCHANGED resv
  BY WorkEffect DEF resvs
\* Nothing the ledger sees changes.
<1>a. ASSUME NEW l, Goto(w, l), l \notin OnTask, pc[w] \notin OnTask,
             \A v \in Worker : v # w => job'[v] = job[v],
             UNCHANGED <<queue, runs>>
      PROVE  LedgerOK
  <2>1. pc'[w] = l /\ \A v \in Worker : v # w => pc'[v] = pc[v]
    BY <1>0, <1>a, MoveCount
  <2>2. \A j \in Jobs : /\ Running(j)' <=> Running(j)
                        /\ Held(j, {"taken"})' <=> Held(j, {"taken"})
    BY <1>a, <2>1 DEF Running, Held, OnTask
  <2> QED
    BY <1>0, <1>a, <1>r, <2>2, LedgerSame
\* What w holds is in no other place, and the step moves that job alone.
<1>b. ASSUME NEW l, Goto(w, l), pc[w] \in OnTask, UNCHANGED <<queue, job>>,
             NEW k \in Jobs, k = job[w],
             \A j \in Jobs : j # k => runs'[j] = runs[j]
      PROVE  /\ resv[k] = "committed"
             /\ Running(k) <=> pc[w] = "run"
             /\ Pending(k) <=> pc[w] = "taken"
             /\ Running(k)' <=> l = "run"
             /\ Pending(k)' <=> l = "taken"
             /\ Ledger!Move({k}, LedgerStatus[k], LedgerStatus'[k])
  <2>1. pc'[w] = l /\ \A v \in Worker : v # w => pc'[v] = pc[v]
    BY <1>0, <1>b, MoveCount
  <2>2. /\ resv[k] = "committed" /\ ~Queued(k)
        /\ \A v \in Worker : job[v] = k => v = w
    BY <1>0, <1>b, HeldPlace
  <2>3. (Running(k) <=> pc[w] = "run") /\ (Pending(k) <=> pc[w] = "taken")
    BY <1>b, <2>2 DEF Running, Pending, Held
  <2>4. \A j \in Jobs : Queued(j)' <=> Queued(j)
    BY <1>b DEF Queued
  <2>5. (Running(k)' <=> l = "run") /\ (Pending(k)' <=> l = "taken")
    BY <1>b, <2>1, <2>2, <2>4 DEF Running, Pending, Held
  <2>6. ASSUME NEW j \in Jobs, j # k PROVE LedgerStatus'[j] = LedgerStatus[j]
    <3>1. (Running(j)' <=> Running(j)) /\ (Pending(j)' <=> Pending(j))
      BY <1>b, <2>1, <2>4, <2>6 DEF Running, Pending, Held
    <3>2. (Ran(j)' <=> Ran(j)) /\ resv'[j] = resv[j]
      BY <1>b, <1>r, <2>6 DEF Ran
    <3> QED
      BY <1>0, <3>1, <3>2, StatusFrame
  <2>7. Ledger!Move({k}, LedgerStatus[k], LedgerStatus'[k])
    BY <1>0, <2>6, LedgerMove
  <2> QED
    BY <2>2, <2>3, <2>5, <2>7
<1> USE DEF OnTask
<1>1. CASE Take(w)
  <2>1. PICK h \in Gen : h = GenOf(w)
    BY <1>0
  <2>2. /\ queue[h] \in Seq(Jobs) /\ queue[h] # <<>>
        /\ queue' = [queue EXCEPT ![h] = Tail(@)]
        /\ job' = [job EXCEPT ![w] = Head(queue[h])]
        /\ pc[w] = "loop" /\ Goto(w, "taken") /\ UNCHANGED runs
    BY <1>0, <1>1, <2>1 DEF Take, history
  <2>3. \A i, m \in 1..Len(queue[h]) : queue[h][i] = queue[h][m] => i = m
    BY <1>0 DEF Placement, QueueOK
  <2>4. PICK k \in Jobs : k = Head(queue[h])
    BY <2>2, TailElements
  <2>5. Range(Tail(queue[h])) = Range(queue[h]) \ {k}
    BY <2>2, <2>3, <2>4, RangeTail
  <2>6. k \in Range(queue[h])
    BY <2>2, <2>4, TailElements, RangeElements
  <2>7. \A g \in Gen : k \in Range(queue[g]) => g = h
    BY <1>0, <2>6, QueuePlace
  <2>8. /\ Range(queue'[h]) = Range(queue[h]) \ {k}
        /\ \A g \in Gen : g # h => queue'[g] = queue[g]
    BY <1>0, <2>2, <2>5
  <2>9. \A j \in Jobs : Queued(j)' <=> Queued(j) /\ j # k
    BY <2>7, <2>8 DEF Queued
  <2>10. pc'[w] = "taken" /\ \A v \in Worker : v # w => pc'[v] = pc[v]
    BY <1>0, <2>2, MoveCount
  <2>11. job'[w] = k /\ \A v \in Worker : v # w => job'[v] = job[v]
    BY <1>0, <2>2, <2>4
  <2>12. ASSUME NEW j \in Jobs PROVE LedgerStatus'[j] = LedgerStatus[j]
    <3>1. Held(j, {"taken"})' <=> Held(j, {"taken"}) \/ j = k
      BY <2>2, <2>10, <2>11 DEF Held
    <3>2. Queued(k)
      BY <2>6 DEF Queued
    <3>3. Pending(j)' <=> Pending(j)
      BY <2>9, <3>1, <3>2 DEF Pending
    <3>4. Running(j)' <=> Running(j)
      BY <2>2, <2>10, <2>11 DEF Running, Held
    <3>5. (Ran(j)' <=> Ran(j)) /\ resv'[j] = resv[j]
      BY <1>r, <2>2 DEF Ran
    <3> QED
      BY <1>0, <3>3, <3>4, <3>5, StatusFrame
  <2> QED
    BY <1>0, <2>12, LedgerStutter DEF LedgerOK
<1>2. CASE Decide(w) /\ ShouldRun(GenOf(w))
  <2>1. /\ pc[w] = "taken" /\ Goto(w, "run") /\ UNCHANGED <<queue, job>>
        /\ runs' = [runs EXCEPT ![job[w]] = @ + 1]
    BY <1>2 DEF Decide, queues
  <2>2. PICK k \in Jobs : k = job[w]
    BY <1>0, <2>1 DEF Busy
  <2>3. \A j \in Jobs : j # k => runs'[j] = runs[j]
    BY <1>0, <2>1, <2>2
  <2>4. /\ resv[k] = "committed" /\ Pending(k) /\ ~Running(k) /\ Running(k)'
        /\ Ledger!Move({k}, LedgerStatus[k], LedgerStatus'[k])
    BY <1>b, <2>1, <2>2, <2>3
  <2>5. LedgerStatus[k] = "pending" /\ LedgerStatus'[k] = "running"
    BY <1>0, <1>r, <2>4, StatusIs, StatusWillBe
  <2>6. Cardinality(Ledger!WithStatus({"running"})) < MaxWorkers
    BY <2>1, RunningRoom DEF LedgerInv
  <2>7. Ledger!Run(k)
    BY <2>4, <2>5, <2>6, SameCardinality DEF Ledger!Run
  <2> QED
    BY <2>7, LedgerNext
<1>3. CASE Decide(w) /\ ~ShouldRun(GenOf(w))
  <2>1. pc[w] = "taken" /\ Goto(w, "dropped") /\ UNCHANGED <<queue, job, runs>>
    BY <1>3 DEF Decide, queues
  <2>2. PICK k \in Jobs : k = job[w]
    BY <1>0, <2>1 DEF Busy
  <2>3. /\ resv[k] = "committed" /\ Pending(k) /\ ~Running(k)
        /\ ~Running(k)' /\ ~Pending(k)'
        /\ Ledger!Move({k}, LedgerStatus[k], LedgerStatus'[k])
    BY <1>b, <2>1, <2>2
  <2>4. ~Ran(k)'
    <3>1. Undecided(k)
      BY <2>1, <2>2 DEF Undecided, Held
    <3>2. runs[k] = 0
      BY <1>0, <3>1, NotStarted
    <3> QED
      BY <2>1, <3>2 DEF Ran
  <2>5. LedgerStatus[k] = "pending" /\ LedgerStatus'[k] = "cancelled"
    BY <1>0, <1>r, <2>3, <2>4, StatusIs, StatusWillBe
  <2>6. Ledger!Cancel(k)
    BY <2>3, <2>5 DEF Ledger!Cancel
  <2> QED
    BY <2>6, LedgerNext
<1>4. CASE Finish(w)
  <2>1. pc[w] = "run" /\ Goto(w, "ran") /\ UNCHANGED <<queue, job, runs>>
    BY <1>4 DEF Finish, queues, history
  <2>2. PICK k \in Jobs : k = job[w]
    BY <1>0, <2>1 DEF Busy
  <2>3. /\ resv[k] = "committed" /\ Running(k) /\ ~Running(k)' /\ ~Pending(k)'
        /\ Ledger!Move({k}, LedgerStatus[k], LedgerStatus'[k])
    BY <1>b, <2>1, <2>2
  <2>4. Ran(k)'
    BY <2>1, <2>2 DEF LedgerInv, Started, Ran
  <2>5. LedgerStatus[k] = "running" /\ LedgerStatus'[k] = "finished"
    BY <1>0, <1>r, <2>3, <2>4, StatusIs, StatusWillBe
  <2>6. Ledger!Finish(k)
    BY <2>3, <2>5 DEF Ledger!Finish
  <2> QED
    BY <2>6, LedgerNext
<1>5. CASE AcquireSlot(w) \/ TimeOut(w) \/ CheckMode(w)
  BY <1>a, <1>5 DEF AcquireSlot, TimeOut, CheckMode, queues, history
<1>6. CASE RanDone(w) \/ DroppedDone(w) \/ NotifyDropped(w)
  BY <1>0, <1>a, <1>6 DEF RanDone, DroppedDone, NotifyDropped, queues, history
<1>7. CASE ReleaseSlot(w) \/ Leave(w)
  BY <1>a, <1>7 DEF ReleaseSlot, Leave, queues, history
<1> QED
  BY <1>1, <1>2, <1>3, <1>4, <1>5, <1>6, <1>7 DEF Work

LEMMA LedgerStep == LedgerInv /\ [Next]_vars => LedgerOK
<1> SUFFICES ASSUME LedgerInv, [Next]_vars PROVE LedgerOK
  OBVIOUS
<1>0. Types /\ Types' /\ ResvType'
  BY TypesStep DEF LedgerInv, Placement, Types
<1>a. ASSUME UNCHANGED <<queue, resv, runs, job>>, NEW g, pc' \in {pc, Spawned(g)}
      PROVE  LedgerOK
  <2>1. \A j \in Jobs : /\ Running(j)' <=> Running(j)
                        /\ Held(j, {"taken"})' <=> Held(j, {"taken"})
    BY <1>0, <1>a, HandsSame
  <2> QED
    BY <1>0, <1>a, <2>1, LedgerSame
<1>1. CASE Start
  <2>1. UNCHANGED <<queue, resv, runs, job>>
    BY <1>1 DEF Start, queues, resvs, history
  <2>2. pc' = Spawned(gen) \/ pc' = Spawned(gen + 1)
    BY <1>1 DEF Start
  <2> QED
    BY <1>a, <2>1, <2>2
<1>2. ASSUME NEW k \in Jobs, Reserve(k) \/ Commit(k) \/ Rollback(k) PROVE LedgerOK
  BY <1>0, <1>2, ReservationLedger
<1>3. ASSUME NEW c \in Callers, Restart(c) PROVE LedgerOK
  <2>1. PICK wait \in BOOLEAN : wait = FALSE
    OBVIOUS
  <2>2. CloseQueue(wait) /\ UNCHANGED <<job, runs>> /\ pc' = Spawned(gen + 1)
    BY <1>3, <2>1 DEF Restart, history
  <2> QED
    BY <1>0, <2>2, CloseLedger
<1>4. ASSUME NEW c \in Callers, NEW drain \in BOOLEAN, NEW join \in BOOLEAN,
             Close(c, drain, join) PROVE LedgerOK
  <2>1. CloseQueue(drain) /\ UNCHANGED <<job, runs, pc>>
    BY <1>4 DEF Close, workers, history
  <2> QED
    BY <1>0, <2>1, CloseLedger
<1>5. ASSUME NEW c \in Callers, Call(c) PROVE LedgerOK
  <2>1. UNCHANGED <<queue, job, resv, pc>>
    BY <1>5, CallEffect DEF queues, resvs, workers
  <2>2. UNCHANGED runs
    BY <1>5 DEF Call, NotifyCancelled, NotifiedReturn, NotifiedWait, QueueJoined,
                ThreadsJoined, Return, history
  <2> QED
    BY <1>a, <2>1, <2>2
<1>6. ASSUME NEW w \in Worker, Work(w) PROVE LedgerOK
  BY <1>0, <1>6, WorkLedger
<1>7. CASE UNCHANGED vars
  <2>1. UNCHANGED <<queue, resv, runs, job, pc>>
    BY <1>7 DEF vars, queues, resvs, history, workers
  <2> QED
    BY <1>a, <2>1
<1> QED
  BY <1>1, <1>2, <1>3, <1>4, <1>5, <1>6, <1>7, NextCases

\* The runner implements the ledger: whatever its threads, its queues and the
\* calls that close or restart it do, each step is one reservation, commit,
\* release, start, end or cancellation within the two bounds, or a close, or
\* nothing that a client could see.
THEOREM LedgerTheorem == Spec => LedgerSpec
<1>1. Init => Ledger!Init /\ Started /\ ExactlyOnce
  <2> SUFFICES ASSUME Init PROVE Ledger!Init /\ Started /\ ExactlyOnce
    OBVIOUS
  <2>1. ResvType /\ \A j \in Jobs : resv[j] = "none"
    BY TypesInit DEF Types, Init
  <2>4. LedgerStatus = [j \in Jobs |-> "idle"]
    BY <2>1, StatusIs, StatusType
  <2>2. Started
    BY DEF Init, Started
  <2>3. ExactlyOnce
    BY DEF Init, ExactlyOnce, Undecided
  <2> QED
    BY <2>2, <2>3, <2>4 DEF Ledger!Init
<1>2. Init => LedgerInv
  BY <1>1, PlacementInit, ThreadsInit, BooksInit DEF LedgerInv
<1>3. LedgerInv /\ [Next]_vars => LedgerInv'
  <2>1. Placement => Types
    BY DEF Placement
  <2> QED
    BY <2>1, PlacementStep, ExactlyOnceStep, StartedStep, ThreadsStep, BooksStep
    DEF LedgerInv
<1>4. LedgerInv /\ [Next]_vars => [Ledger!Next]_LedgerStatus
  BY LedgerStep DEF LedgerOK
<1> QED
  BY <1>1, <1>2, <1>3, <1>4, PTL DEF Spec, LedgerSpec, Ledger!Spec

=============================================================================
