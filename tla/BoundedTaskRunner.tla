-------------------------- MODULE BoundedTaskRunner --------------------------
(***************************************************************************)
(* services/bounded_task_runner.py: the bounded thread pool every          *)
(* background worker of the gateway is built on (image tasks, credential   *)
(* event log, image archive, gallery push).                                *)
(*                                                                         *)
(* A runner goes through generations. Each generation (_RunState) has its  *)
(* own queue, mode and MaxWorkers threads; admission counters and the      *)
(* worker-slot semaphore are shared by all of them, so a new generation    *)
(* may start while threads of an older one are still inside callbacks.     *)
(* A section of code that holds self._lock is one action; what a thread    *)
(* does between two such sections is a step of its own.                    *)
(***************************************************************************)
EXTENDS Integers, Sequences, FiniteSets, Functions

CONSTANTS Jobs,        \* TaskReservation objects: each is reserved once
          Callers,     \* threads inside restart() or a shutdown
          MaxWorkers,  \* max_workers
          QueueSize,   \* queue_size
          MaxGen,      \* bound on the generations started
          NoJob,       \* a worker's hands are empty
          External     \* a caller that is not one of the worker threads

Capacity == MaxWorkers + QueueSize
Gen      == 1..MaxGen
Worker   == Gen \X (1..MaxWorkers)     \* <<generation, index>>

ASSUME RunnerAssumption ==
  /\ MaxWorkers \in Nat \ {0}
  /\ QueueSize \in Nat \ {0}
  /\ MaxGen \in Nat \ {0}
  /\ IsFiniteSet(Jobs)
  /\ NoJob \notin Jobs
  /\ External \notin Worker

VARIABLES
  (* BoundedTaskRunner *)
  gen,         \* _generation, the generation of _state
  closed,      \* _closed
  accepted,    \* _accepted
  active,      \* _active
  slots,       \* permits left in _worker_slots
  (* _RunState of each generation *)
  mode,        \* "unborn" before the generation exists
  queue,       \* the FIFO queue
  unfinished,  \* its unfinished_tasks, what queue.join() waits on
  (* TaskReservation *)
  resv,        \* _state, "none" before reserve()
  resvGen,     \* generation of _run_state
  (* worker threads *)
  pc,          \* where the thread is, see _worker and _worker_loop
  job,         \* the task it took from the queue
  (* callers of restart() and the shutdowns *)
  cpc,         \* where the call is
  host,        \* the worker whose callback makes the call, or External
  toNotify,    \* cancelled tasks whose on_cancel is still to be called
  waitGen,     \* generation whose queue the call joins, 0 if it does not wait
  waitFor,     \* threads it joins
  (* history *)
  runs, told   \* how often each job's callback and on_cancel were called

admission == <<gen, closed, mode>>
counters  == <<accepted, active, slots>>
queues    == <<queue, unfinished>>
resvs     == <<resv, resvGen>>
workers   == <<pc, job>>
calls     == <<cpc, host, toNotify, waitGen, waitFor>>
history   == <<runs, told>>
vars == <<admission, counters, queues, resvs, workers, calls, history>>

GenOf(w) == w[1]

ThreadsOfState == {w \in Worker : GenOf(w) = gen /\ pc[w] \notin {"absent", "gone"}}

\* _all_threads: from thread.start() to the discard at the end of _worker.
AllThreads == {w \in Worker : pc[w] \notin {"absent", "gone"}}

ReservedForgotten(g) == {}
ReservedTwice(g) ==
  {j \in Jobs : resv[j] \in {"reserved", "cancelled"} /\ resvGen[j] = g}

Reserved(g) == {j \in Jobs : resv[j] = "reserved" /\ resvGen[j] = g}

Init ==
  /\ gen = 1 /\ closed = FALSE
  /\ accepted = 0 /\ active = 0 /\ slots = MaxWorkers
  /\ mode = [g \in Gen |-> IF g = 1 THEN "running" ELSE "unborn"]
  /\ queue = [g \in Gen |-> <<>>]
  /\ unfinished = [g \in Gen |-> 0]
  /\ resv = [j \in Jobs |-> "none"]
  /\ resvGen = [j \in Jobs |-> 0]
  /\ pc = [w \in Worker |-> "absent"]
  /\ job = [w \in Worker |-> NoJob]
  /\ cpc = [c \in Callers |-> "idle"]
  /\ host = [c \in Callers |-> External]
  /\ toNotify = [c \in Callers |-> <<>>]
  /\ waitGen = [c \in Callers |-> 0]
  /\ waitFor = [c \in Callers |-> {}]
  /\ runs = [j \in Jobs |-> 0]
  /\ told = [j \in Jobs |-> 0]

-----------------------------------------------------------------------------
(* Admission: start, reserve, commit, rollback.                            *)

Open == ~closed /\ mode[gen] = "running"

\* _start_locked: the threads of a generation are started once.
Spawned(g) ==
  [w \in Worker |-> IF GenOf(w) = g /\ pc[w] = "absent" THEN "spawned" ELSE pc[w]]

Start ==
  /\ IF Open
     THEN /\ pc' = Spawned(gen)
          /\ UNCHANGED admission
     ELSE /\ gen < MaxGen
          /\ gen' = gen + 1
          /\ mode' = [mode EXCEPT ![gen + 1] = "running"]
          /\ closed' = FALSE
          /\ pc' = Spawned(gen + 1)
  /\ UNCHANGED <<counters, queues, resvs, job, calls, history>>

HasRoomOneMore == accepted <= Capacity

HasRoom == accepted < Capacity

Reserve(j) ==
  /\ resv[j] = "none"
  /\ Open
  /\ HasRoom
  /\ pc' = Spawned(gen)
  /\ resv' = [resv EXCEPT ![j] = "reserved"]
  /\ resvGen' = [resvGen EXCEPT ![j] = gen]
  /\ accepted' = accepted + 1
  /\ UNCHANGED <<admission, active, slots, queues, job, calls, history>>

\* The queue takes the job only for the open generation the slot belongs to,
\* and put_nowait raises Full on a queue of Capacity items.
Committable(j) ==
  /\ Open
  /\ resvGen[j] = gen
  /\ Len(queue[gen]) < Capacity

Commit(j) ==
  /\ resv[j] = "reserved"
  /\ IF Committable(j)
     THEN /\ queue' = [queue EXCEPT ![gen] = Append(@, j)]
          /\ unfinished' = [unfinished EXCEPT ![gen] = @ + 1]
          /\ resv' = [resv EXCEPT ![j] = "committed"]
          /\ UNCHANGED accepted
     ELSE /\ resv' = [resv EXCEPT ![j] = "cancelled"]
          /\ accepted' = accepted - 1
          /\ UNCHANGED queues
  /\ UNCHANGED <<admission, active, slots, resvGen, workers, calls, history>>

Rollback(j) ==
  /\ resv[j] = "reserved"
  /\ resv' = [resv EXCEPT ![j] = "rolled_back"]
  /\ accepted' = accepted - 1
  /\ UNCHANGED <<admission, active, slots, queues, resvGen, workers, calls, history>>

-----------------------------------------------------------------------------
(* Closing: restart, shutdown, shutdown_cancel_pending_and_wait.           *)

\* The mode _close_locked leaves the current generation in.
ClosedMode(wait) ==
  IF ~wait THEN "cancelled"
  ELSE IF mode[gen] = "running" THEN "draining" ELSE mode[gen]

DiscardedWhenDraining(wait) == queue[gen]

\* The queued tasks _close_locked takes away.
Discarded(wait) == IF ClosedMode(wait) = "cancelled" THEN queue[gen] ELSE <<>>

\* _close_locked without its assignments to _closed and mode, which
\* restart overrides at once.
CloseQueue(wait) ==
  /\ resv' = [j \in Jobs |-> IF j \in Reserved(gen) THEN "cancelled" ELSE resv[j]]
  /\ queue' = [queue EXCEPT ![gen] = IF ClosedMode(wait) = "cancelled" THEN <<>> ELSE @]
  /\ unfinished' = [unfinished EXCEPT ![gen] = @ - Len(Discarded(wait))]
  /\ accepted' = accepted - Cardinality(Reserved(gen)) - Len(Discarded(wait))

\* The thread that makes the call: any outside thread, or a worker inside
\* its callback.
Enter(c, h) ==
  /\ cpc[c] = "idle"
  /\ \/ h = External
     \/ h \in Worker /\ pc[h] = "run" /\ \A d \in Callers : host[d] # h
  /\ cpc' = [cpc EXCEPT ![c] = "notify"]
  /\ host' = [host EXCEPT ![c] = h]

Restart(c) ==
  \E h \in Worker \cup {External} :
    /\ Enter(c, h)
    /\ gen < MaxGen
    /\ CloseQueue(FALSE)
    /\ mode' = [mode EXCEPT ![gen] = "cancelled", ![gen + 1] = "running"]
    /\ gen' = gen + 1
    /\ closed' = FALSE
    /\ pc' = Spawned(gen + 1)
    /\ toNotify' = [toNotify EXCEPT ![c] = Discarded(FALSE)]
    /\ UNCHANGED <<active, slots, resvGen, job, waitGen, waitFor, history>>

\* drain: _close_locked(wait=...); join: _wait_for_shutdown is called, which
\* returns at once in one of the worker threads.
Close(c, drain, join) ==
  \E h \in Worker \cup {External} :
    /\ Enter(c, h)
    /\ CloseQueue(drain)
    /\ mode' = [mode EXCEPT ![gen] = ClosedMode(drain)]
    /\ closed' = TRUE
    /\ toNotify' = [toNotify EXCEPT ![c] = Discarded(drain)]
    /\ waitGen' = [waitGen EXCEPT ![c] = IF join /\ h \notin AllThreads THEN gen ELSE 0]
    /\ waitFor' = [waitFor EXCEPT ![c] = AllThreads]
    /\ UNCHANGED <<gen, active, slots, resvGen, workers, history>>

Shutdown(c)           == Close(c, FALSE, FALSE)   \* shutdown(wait=False)
ShutdownDrain(c)      == Close(c, TRUE, TRUE)     \* shutdown(wait=True)
ShutdownCancelPending(c) == Close(c, FALSE, TRUE) \* shutdown_cancel_pending_and_wait

\* _notify_cancelled, outside the lock, one on_cancel at a time.
NotifyCancelled(c) ==
  /\ cpc[c] = "notify" /\ toNotify[c] # <<>>
  /\ told' = [told EXCEPT ![Head(toNotify[c])] = @ + 1]
  /\ toNotify' = [toNotify EXCEPT ![c] = Tail(@)]
  /\ UNCHANGED <<admission, counters, queues, resvs, workers, cpc, host,
                 waitGen, waitFor, runs>>

Return(c) ==
  /\ cpc' = [cpc EXCEPT ![c] = "idle"]
  /\ host' = [host EXCEPT ![c] = External]
  /\ waitGen' = [waitGen EXCEPT ![c] = 0]
  /\ waitFor' = [waitFor EXCEPT ![c] = {}]
  /\ UNCHANGED <<admission, counters, queues, resvs, workers, toNotify, history>>

\* All cancelled tasks told: a call that does not wait returns.
NotifiedReturn(c) ==
  /\ cpc[c] = "notify" /\ toNotify[c] = <<>> /\ waitGen[c] = 0
  /\ Return(c)

NotifiedWait(c) ==
  /\ cpc[c] = "notify" /\ toNotify[c] = <<>> /\ waitGen[c] # 0
  /\ cpc' = [cpc EXCEPT ![c] = "join"]
  /\ UNCHANGED <<admission, counters, queues, resvs, workers, toNotify, host,
                 waitGen, waitFor, history>>

\* _wait_for_shutdown: run_state.queue.join(), then join every thread.
QueueJoined(c) ==
  /\ cpc[c] = "join" /\ unfinished[waitGen[c]] = 0
  /\ cpc' = [cpc EXCEPT ![c] = "threads"]
  /\ UNCHANGED <<admission, counters, queues, resvs, workers, toNotify, host,
                 waitGen, waitFor, history>>

ThreadsJoined(c) ==
  /\ cpc[c] = "threads" /\ \A w \in waitFor[c] : pc[w] = "gone"
  /\ Return(c)

-----------------------------------------------------------------------------
(* A worker thread: _worker and _worker_loop.                              *)

Goto(w, label) == pc' = [pc EXCEPT ![w] = label]

SlotNotAwaited == TRUE

SlotFree == slots > 0

AcquireSlot(w) ==
  /\ pc[w] = "spawned" /\ SlotFree
  /\ slots' = slots - 1
  /\ Goto(w, "loop")
  /\ UNCHANGED <<admission, accepted, active, queues, resvs, job, calls, history>>

Take(w) ==
  /\ pc[w] = "loop" /\ queue[GenOf(w)] # <<>>
  /\ job' = [job EXCEPT ![w] = Head(queue[GenOf(w)])]
  /\ queue' = [queue EXCEPT ![GenOf(w)] = Tail(@)]
  /\ Goto(w, "taken")
  /\ UNCHANGED <<admission, counters, unfinished, resvs, calls, history>>

\* queue.get times out: Empty is raised, the mode is not yet looked at.
TimeOut(w) ==
  /\ pc[w] = "loop" /\ queue[GenOf(w)] = <<>>
  /\ Goto(w, "empty")
  /\ UNCHANGED <<admission, counters, queues, resvs, job, calls, history>>

LeavesWhenIdle(g) == FALSE

LooksOn(g) == mode[g] = "running"

CheckMode(w) ==
  /\ pc[w] = "empty"
  /\ Goto(w, IF LooksOn(GenOf(w)) THEN "loop" ELSE "leaving")
  /\ UNCHANGED <<admission, counters, queues, resvs, job, calls, history>>

ShouldRun(g) == mode[g] # "cancelled"

Decide(w) ==
  /\ pc[w] = "taken"
  /\ IF ShouldRun(GenOf(w))
     THEN /\ Goto(w, "run")
          /\ active' = active + 1
          /\ runs' = [runs EXCEPT ![job[w]] = @ + 1]
          /\ UNCHANGED accepted
     ELSE /\ Goto(w, "dropped")
          /\ accepted' = accepted - 1
          /\ UNCHANGED <<active, runs>>
  /\ UNCHANGED <<admission, slots, queues, resvs, job, calls, told>>

\* The callback returns or raises; a call it made itself has returned.
Finish(w) ==
  /\ pc[w] = "run" /\ \A c \in Callers : host[c] # w
  /\ active' = active - 1
  /\ accepted' = accepted - 1
  /\ Goto(w, "ran")
  /\ UNCHANGED <<admission, slots, queues, resvs, job, calls, history>>

TaskDoneForgotten(g) == UNCHANGED unfinished

TaskDone(g) == unfinished' = [unfinished EXCEPT ![g] = @ - 1]

RanDone(w) ==
  /\ pc[w] = "ran"
  /\ TaskDone(GenOf(w))
  /\ Goto(w, "loop")
  /\ job' = [job EXCEPT ![w] = NoJob]
  /\ UNCHANGED <<admission, counters, queue, resvs, calls, history>>

DroppedDone(w) ==
  /\ pc[w] = "dropped"
  /\ TaskDone(GenOf(w))
  /\ Goto(w, "notify")
  /\ UNCHANGED <<admission, counters, queue, resvs, job, calls, history>>

NotifyDropped(w) ==
  /\ pc[w] = "notify"
  /\ told' = [told EXCEPT ![job[w]] = @ + 1]
  /\ job' = [job EXCEPT ![w] = NoJob]
  /\ Goto(w, "leaving")
  /\ UNCHANGED <<admission, counters, queues, resvs, calls, runs>>

ReleaseSlot(w) ==
  /\ pc[w] = "leaving"
  /\ slots' = slots + 1
  /\ Goto(w, "released")
  /\ UNCHANGED <<admission, accepted, active, queues, resvs, job, calls, history>>

Leave(w) ==
  /\ pc[w] = "released"
  /\ Goto(w, "gone")
  /\ UNCHANGED <<admission, counters, queues, resvs, job, calls, history>>

-----------------------------------------------------------------------------
Client == \/ Start
          \/ \E j \in Jobs : Reserve(j) \/ Commit(j) \/ Rollback(j)
          \/ \E c \in Callers : \/ Restart(c) \/ Shutdown(c)
                                \/ ShutdownDrain(c) \/ ShutdownCancelPending(c)

Call(c) == \/ NotifyCancelled(c) \/ NotifiedReturn(c) \/ NotifiedWait(c)
           \/ QueueJoined(c) \/ ThreadsJoined(c)

Work(w) == \/ AcquireSlot(w) \/ Take(w) \/ TimeOut(w) \/ CheckMode(w)
           \/ Decide(w) \/ Finish(w) \/ RanDone(w) \/ DroppedDone(w)
           \/ NotifyDropped(w) \/ ReleaseSlot(w) \/ Leave(w)

Next == Client \/ (\E c \in Callers : Call(c)) \/ (\E w \in Worker : Work(w))

Spec == Init /\ [][Next]_vars

\* Threads that can run do run, and on_cancel handlers return. A callback
\* returns however many calls of its own it makes first, which disable
\* Finish while they last. Nobody has to submit work or shut the runner down.
FairSpec ==
  /\ Spec
  /\ \A w \in Worker : WF_vars(Work(w)) /\ SF_vars(Finish(w))
  /\ \A c \in Callers : WF_vars(Call(c))

-----------------------------------------------------------------------------
(* Properties.                                                             *)

WorkerPC == {"absent", "spawned", "loop", "empty", "taken", "run", "ran",
             "dropped", "notify", "leaving", "released", "gone"}

TypeOK ==
  /\ accepted \in Nat /\ active \in Nat /\ slots \in Nat
  /\ unfinished \in [Gen -> Nat]
  /\ gen \in Gen /\ closed \in BOOLEAN
  /\ mode \in [Gen -> {"unborn", "running", "draining", "cancelled"}]
  /\ queue \in [Gen -> Seq(Jobs)]
  /\ resv \in [Jobs -> {"none", "reserved", "committed", "rolled_back", "cancelled"}]
  /\ resvGen \in [Jobs -> Gen \cup {0}]
  /\ pc \in [Worker -> WorkerPC]
  /\ job \in [Worker -> Jobs \cup {NoJob}]
  /\ cpc \in [Callers -> {"idle", "notify", "join", "threads"}]
  /\ host \in [Callers -> Worker \cup {External}]
  /\ toNotify \in [Callers -> Seq(Jobs)]
  /\ waitGen \in [Callers -> Gen \cup {0}]
  /\ waitFor \in [Callers -> SUBSET Worker]
  /\ runs \in [Jobs -> Nat] /\ told \in [Jobs -> Nat]

AtWork(labels) == {w \in Worker : pc[w] \in labels}
Held(j, labels) == \E w \in Worker : pc[w] \in labels /\ job[w] = j
Queued(j) == \E g \in Gen : j \in Range(queue[g])

OnBooks ==
  {j \in Jobs : resv[j] = "reserved" \/ Queued(j) \/ Held(j, {"taken", "run"})}

\* _accepted counts exactly the slots that are reserved, queued in any
\* generation, taken or running, and never passes the capacity: nothing is
\* counted twice or forgotten when a reservation, a close and a worker's
\* decision about a task it already took overlap (lines 123-190, 266-343).
AdmissionExact == accepted = Cardinality(OnBooks) /\ accepted <= Capacity

\* A reservation that is still pending belongs to the open generation and
\* finds room in its queue, so commit() refuses only a slot that a close has
\* already cancelled: queue.Full and "is not self._state" cannot happen to it
\* (lines 163-180).
PendingIsCommittable == \A j \in Jobs : resv[j] = "reserved" => Committable(j)

\* At most max_workers callbacks execute, counting the ones of older
\* generations that are still busy after a restart, and _active is their
\* number (lines 304-343).
ConcurrencyBound ==
  /\ active = Cardinality(AtWork({"run"}))
  /\ active <= MaxWorkers

\* Every permit of _worker_slots is free or held by one thread in its loop, of
\* whichever generation: a thread that leaves because its queue is empty, its
\* generation was cancelled or its task was dropped gives back exactly its own
\* (lines 304-343).
PermitsExact ==
  slots + Cardinality(AtWork({"loop", "empty", "taken", "run", "ran", "dropped",
                              "notify", "leaving"})) = MaxWorkers

\* unfinished_tasks of a queue is what is in it plus what its workers hold
\* without having called task_done: queue.join() returns neither early nor
\* never for want of a task_done (lines 285-287, 330, 342).
JoinExact ==
  \A g \in Gen : unfinished[g] =
     Len(queue[g])
     + Cardinality({w \in AtWork({"taken", "run", "ran", "dropped"}) : GenOf(w) = g})

Undecided(j) ==
  \/ resv[j] # "committed"
  \/ Queued(j)
  \/ Held(j, {"taken", "dropped", "notify"})
  \/ \E c \in Callers : j \in Range(toNotify[c])

\* A committed task is run once or told once that it was cancelled, never both
\* and never neither, whichever of the closing thread and the worker gets to
\* it first; an uncommitted one gets no call at all (lines 279-288, 323-332).
ExactlyOnce ==
  \A j \in Jobs : runs[j] + told[j] = IF Undecided(j) THEN 0 ELSE 1

\* When a waiting shutdown returns, no thread of its generation or an older
\* one is alive and the generation's queue is empty: no callback can touch
\* what the owner tears down next (lines 227, 242-250).
QuietReturn ==
  [][\A c \in Callers : cpc[c] = "threads" /\ cpc'[c] = "idle" =>
       /\ \A w \in Worker : GenOf(w) <= waitGen[c] => pc[w] \in {"absent", "gone"}
       /\ queue[waitGen[c]] = <<>>]_vars

\* The runner implements the ledger of JobLedger.
LedgerStatus ==
  [j \in Jobs |->
     CASE resv[j] = "none" -> "idle"
       [] resv[j] = "reserved" -> "reserved"
       [] resv[j] \in {"rolled_back", "cancelled"} -> "released"
       [] resv[j] = "committed" ->
            IF Held(j, {"run"}) THEN "running"
            ELSE IF Held(j, {"taken"}) \/ Queued(j) THEN "pending"
            ELSE IF runs[j] = 1 THEN "finished" ELSE "cancelled"]

Ledger == INSTANCE JobLedger WITH MaxRunning <- MaxWorkers, status <- LedgerStatus

\* Every step of the threads is a step of the ledger, or invisible there.
LedgerSpec == Ledger!Spec

\* A shutdown that cancelled the pending work and waits does return, unless
\* the runner is opened again meanwhile (lines 232-250).
CancelShutdownReturns ==
  \A c \in Callers :
    (\E g \in Gen : waitGen[c] = g /\ mode[g] = "cancelled")
      ~> (cpc[c] = "idle" \/ ~closed)

\* Every worker of a draining generation has left its loop and a task is
\* still queued.
Stranded(g) ==
  /\ mode[g] = "draining" /\ queue[g] # <<>>
  /\ \A w \in Worker : GenOf(w) = g => pc[w] \in {"leaving", "released", "gone"}

\* A committed task is eventually decided, unless its generation strands it or
\* a newer generation takes over the worker slots (lines 313-343).
CommittedSettles ==
  \A j \in Jobs :
    resv[j] = "committed"
      ~> (~Undecided(j) \/ gen # resvGen[j]
          \/ \E g \in Gen : resvGen[j] = g /\ Stranded(g))

\* A draining runner executes every task it accepted before it closed: its
\* workers do not all leave while a task is queued (lines 271-273, 317-321).
DrainRunsEverything == \A g \in Gen : ~Stranded(g)

=============================================================================
