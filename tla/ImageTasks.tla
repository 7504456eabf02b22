------------------------------ MODULE ImageTasks ------------------------------
(***************************************************************************)
(* services/image_task_service.py: image generation in the background. A   *)
(* client submits a task under an id of its own choosing, polls for it,    *)
(* and may ask to go on waiting for one that timed out (resume_poll). The  *)
(* tasks live in memory and are written as a whole to image_tasks.json.    *)
(*                                                                         *)
(* The service runs its tasks on a BoundedTaskRunner, of which only the    *)
(* contract JobLedger is used here: slot is the ledger. A section that     *)
(* holds self._lock is one action. The service is a process that crashes   *)
(* and starts again from the file; other replicas of the gateway construct *)
(* the same service on the same file when they start.                      *)
(***************************************************************************)
EXTENDS Integers, FiniteSets

CONSTANTS Tasks,       \* <<owner, client task id>> pairs
          Jobs,        \* submissions and resumes, each with its reservation
          Capacity,    \* admission slots of the runner
          MaxRunning,  \* its workers
          Replicas,    \* other processes that start on the same file
          MayFail,     \* whether a write of the file or the spool can fail
          MayCrash,    \* whether the process can crash
          Hurried,     \* whether shutdown(wait=False) is used
          OldFile,     \* whether an older version may have left a file
          None

ASSUME ImageTasksAssumption ==
  /\ MayFail \in BOOLEAN /\ MayCrash \in BOOLEAN /\ Hurried \in BOOLEAN
  /\ OldFile \in BOOLEAN
  /\ None \notin Tasks \cup Jobs

VARIABLES
  (* the process and what it loses when it stops *)
  phase,      \* "down", "up", "closing" while it shuts down, "stopped"
  mem,        \* _tasks
  entered,    \* jobs that have put their task in _pending_submissions
  executing,  \* _executing_task_keys
  slot,       \* where the runner has each job, see JobLedger
  task, kind, \* what each job was made for
  pc,         \* where its callback is
  untold,     \* cancelled jobs whose on_cancel is still to be called
  dirty,      \* _batched_task_cancellations_dirty
  (* what outlives it *)
  disk,       \* image_tasks.json
  boot,       \* the tasks a starting replica has read, None when it has not
  (* history *)
  promise     \* what clients were told: "none", "accepted" or "result"

requests == <<entered, task, kind>>
work     == <<executing, pc>>
closing  == <<untold, dirty>>
vars == <<phase, mem, requests, work, slot, closing, disk, boot, promise>>

Ledger == INSTANCE JobLedger WITH status <- slot

-----------------------------------------------------------------------------
(* A task: its status, its error_code, whether the client is offered to    *)
(* resume it (can_resume_poll) and whether its conversation_id is known.   *)

Record(st, code, offer, conv) ==
  [st |-> st, code |-> code, offer |-> offer, conv |-> conv]

Absent == Record("none", "", FALSE, FALSE)
NewTask == Record("queued", "", FALSE, FALSE)

TaskRecord == [st : {"none", "queued", "running", "success", "error"},
               code : {"", "timeout", "interrupted", "other", "legacy"},
               offer : BOOLEAN, conv : BOOLEAN]

\* What a file written by an older version may hold.
OldTasks == {Absent, NewTask, Record("running", "", FALSE, FALSE),
             Record("error", "legacy", FALSE, FALSE)}

Unfinished == {"queued", "running"}
Terminal   == {"success", "error"}

\* resume_poll: the details go, the conversation stays.
Requeued(r) == Record("queued", "", FALSE, r.conv)

Succeeded(r) == Record("success", "", FALSE, r.conv)

\* _update_task with the details of an exception, which are added to what the
\* task has; g: the exception carries a conversation id.
Failed(r, code, g) ==
  Record("error", code, r.offer \/ (code = "timeout" /\ g), r.conv \/ g)

Interrupted(r) == Record("error", "interrupted", r.offer, r.conv)

Resumable(r) == r.st = "error" /\ r.code = "timeout" /\ r.conv

\* _load_locked reads every field back but the conversation id; the errors of
\* an older version of the service get a code and a message of this one.
Loaded(r) == [r EXCEPT !.conv = FALSE, !.code = IF @ = "legacy" THEN "other" ELSE @]

OldDetails == \E t \in Tasks : disk[t].code = "legacy"

Dropped(r) == IF r.st \in Unfinished THEN Absent ELSE r

Ended(r) == IF r.st \in Unfinished THEN Interrupted(r) ELSE r

\* _recover_unfinished_locked ends what a stopped process left unfinished. It
\* is the second operand of an "or": it is not called after old details.
Recovered == [t \in Tasks |-> IF OldDetails THEN Loaded(disk[t])
                                            ELSE Ended(Loaded(disk[t]))]

RecoveryChanged == OldDetails \/ \E t \in Tasks : disk[t].st \in Unfinished

\* A write of the whole file, which may fail and leave it as it was.
Outcomes == IF MayFail THEN BOOLEAN ELSE {TRUE}

Write(ok, tasks) == disk' = IF ok THEN tasks ELSE disk

Init ==
  /\ phase = "down"
  /\ mem = [t \in Tasks |-> Absent]
  /\ entered = {}
  /\ executing = {}
  /\ slot = [j \in Jobs |-> "idle"]
  /\ task = [j \in Jobs |-> None]
  /\ kind = [j \in Jobs |-> "new"]
  /\ pc = [j \in Jobs |-> "out"]
  /\ untold = {} /\ dirty = FALSE
  /\ disk \in [Tasks -> IF OldFile THEN OldTasks ELSE {Absent}]
  /\ boot = [r \in Replicas |-> None]
  /\ promise = [t \in Tasks |-> "none"]

Up == phase # "down"

-----------------------------------------------------------------------------
(* Requests: _submit and resume_poll.                                      *)

\* A request arrives: a submission, or a resume.
Ask(j, t, k) ==
  /\ Up
  /\ task[j] = None /\ slot[j] = "idle"
  /\ task' = [task EXCEPT ![j] = t]
  /\ kind' = [kind EXCEPT ![j] = k]
  /\ UNCHANGED <<phase, mem, entered, work, slot, closing, disk, boot, promise>>

\* reserve_submission, before (edits) or after the submission is entered.
Reserve(j) ==
  /\ phase = "up"
  /\ task[j] # None
  /\ Ledger!Reserve(j)
  /\ UNCHANGED <<phase, mem, requests, work, closing, disk, boot, promise>>

GaveBack(j) == slot' = [slot EXCEPT ![j] = IF @ = "reserved" THEN "released" ELSE @]

\* The request is over; a reservation it still has is rolled back.
Leave(j) ==
  /\ GaveBack(j)
  /\ task' = [task EXCEPT ![j] = None]
  /\ entered' = entered \ {j}
  /\ UNCHANGED <<phase, work, kind, closing, boot>>

AlwaysUnentered(t) == TRUE

Unentered(t) == \A j \in entered : task[j] # t

\* The id is new and nobody else is submitting it.
Enter(j) ==
  LET t == task[j]
  IN /\ t # None /\ kind[j] = "new" /\ j \notin entered
     /\ slot[j] \in {"idle", "reserved", "released"}
     /\ mem[t] = Absent /\ Unentered(t)
     /\ entered' = entered \cup {j}
     /\ UNCHANGED <<phase, mem, task, kind, work, slot, closing, disk, boot, promise>>

\* The id is known: the client is given the task it already has.
AnswerExisting(j) ==
  /\ task[j] # None /\ kind[j] = "new" /\ j \notin entered
  /\ slot[j] \in {"idle", "reserved", "released"}
  /\ mem[task[j]] # Absent
  /\ Leave(j)
  /\ UNCHANGED <<mem, disk, promise>>

\* Another thread is submitting the same id: the reservation goes back, and
\* the request waits and tries again, which is a new request here.
Wait(j) ==
  /\ task[j] # None /\ kind[j] = "new" /\ j \notin entered
  /\ slot[j] \in {"idle", "reserved", "released"}
  /\ ~Unentered(task[j])
  /\ Leave(j)
  /\ UNCHANGED <<mem, disk, promise>>

\* No reservation is to be had, or the payload cannot be spooled.
GiveUp(j) ==
  /\ j \in entered
  /\ \/ slot[j] = "idle"
        /\ (phase # "up" \/ Cardinality(Ledger!OnTheBooks) >= Capacity)
     \/ slot[j] \in {"reserved", "released"} /\ MayFail
  /\ Leave(j)
  /\ UNCHANGED <<mem, disk, promise>>

\* _commit_new_task: the task is saved, then the runner takes the job, unless
\* a shutdown has taken the reservation away: then the task as it was before
\* is saved again.
CommitNewTask(j, t, r) ==
  LET tasks == [mem EXCEPT ![t] = r]
  IN \/ /\ slot[j] = "reserved"
        /\ Ledger!Commit(j)
        /\ mem' = tasks
        /\ disk' = tasks
        /\ promise' = [promise EXCEPT ![t] = "accepted"]
        /\ entered' = entered \ {j}
        /\ UNCHANGED <<phase, task, kind, work, closing, boot>>
     \/ /\ slot[j] = "released"
        /\ Leave(j)
        /\ \E ok \in Outcomes : disk' = IF ok THEN mem ELSE tasks
        /\ UNCHANGED <<mem, promise>>
     \/ /\ slot[j] \in {"reserved", "released"} /\ MayFail
        /\ Leave(j)
        /\ UNCHANGED <<mem, disk, promise>>

Commit(j) ==
  /\ j \in entered
  /\ CommitNewTask(j, task[j], NewTask)

Resume(j) ==
  /\ task[j] # None /\ kind[j] = "resume" /\ slot[j] \in {"reserved", "released"}
  /\ Resumable(mem[task[j]])
  /\ CommitNewTask(j, task[j], Requeued(mem[task[j]]))

\* There is no task to resume, or no room for it.
RefuseResume(j) ==
  /\ task[j] # None /\ kind[j] = "resume"
  /\ \/ slot[j] \in {"idle", "reserved", "released"} /\ ~Resumable(mem[task[j]])
     \/ slot[j] = "idle"
        /\ (phase # "up" \/ Cardinality(Ledger!OnTheBooks) >= Capacity)
  /\ Leave(j)
  /\ UNCHANGED <<mem, disk, promise>>

-----------------------------------------------------------------------------
(* A job on a worker: _run_callback_safely, _run_task, _run_resume_poll.    *)

Goto(j, label) == pc' = [pc EXCEPT ![j] = label]

Run(j) ==
  /\ Ledger!Run(j)
  /\ Goto(j, "started")
  /\ UNCHANGED <<phase, mem, requests, executing, closing, disk, boot, promise>>

Claimable(t) == mem[t].st = "queued"

Begin(j) ==
  /\ pc[j] = "started"
  /\ IF Claimable(task[j])
     THEN executing' = executing \cup {task[j]} /\ Goto(j, "claimed")
     ELSE UNCHANGED executing /\ Goto(j, "unclaimed")
  /\ UNCHANGED <<phase, mem, requests, slot, closing, disk, boot, promise>>

\* The spooled payload cannot be read.
Unreadable(j) ==
  /\ pc[j] = "claimed" /\ kind[j] = "new" /\ MayFail
  /\ Goto(j, "broken")
  /\ UNCHANGED <<phase, mem, requests, executing, slot, closing, disk, boot, promise>>

\* _update_task: the task changes in memory even when its write fails.
Update(t, r, ok) ==
  /\ mem' = [mem EXCEPT ![t] = r]
  /\ Write(ok, mem')

MarkRunning(j) ==
  /\ pc[j] = "claimed"
  /\ \E ok \in Outcomes :
       /\ Update(task[j], [mem[task[j]] EXCEPT !.st = "running"], ok)
       /\ Goto(j, IF ok THEN "running" ELSE "broken")
  /\ UNCHANGED <<phase, requests, executing, slot, closing, boot, promise>>

\* image_result_callback: a first image arrives and the file is written.
Partial(j) ==
  /\ pc[j] = "running" /\ kind[j] = "new"
  /\ disk' = mem
  /\ UNCHANGED <<phase, mem, requests, work, slot, closing, boot, promise>>

\* What follows the saved result raises nothing: the gallery push, the log and
\* the close of the backend catch what goes wrong in them.
Succeed(j) ==
  LET t == task[j]
  IN /\ pc[j] = "running"
     /\ \E ok \in Outcomes :
          /\ Update(t, Succeeded(mem[t]), ok)
          /\ Goto(j, IF ok THEN "over" ELSE "failing")
          /\ promise' = [promise EXCEPT ![t] = IF ok THEN "result" ELSE @]
     /\ UNCHANGED <<phase, requests, executing, slot, closing, boot>>

\* The handler raised, or the write of its result did. A resume knows its
\* conversation, a new task only what the exception carries.
Fail(j) ==
  /\ pc[j] \in {"running", "failing"}
  /\ \E ok \in Outcomes, code \in {"timeout", "other"}, g \in BOOLEAN :
       /\ pc[j] = "failing" => code = "other"
       /\ pc[j] = "failing" => ~g
       /\ kind[j] = "resume" /\ pc[j] = "running" => g
       /\ Update(task[j], Failed(mem[task[j]], code, g), ok)
       /\ Goto(j, IF ok THEN "over" ELSE "broken")
  /\ UNCHANGED <<phase, requests, executing, slot, closing, boot, promise>>

\* An exception reached _run_callback_safely: the failure is recorded whatever
\* the task has become since, under another job of it too.
Broken(j) ==
  /\ pc[j] = "broken"
  /\ \E ok \in Outcomes : Update(task[j], Failed(mem[task[j]], "other", FALSE), ok)
  /\ Goto(j, "over")
  /\ UNCHANGED <<phase, requests, executing, slot, closing, boot, promise>>

KeyKept(j) == executing

KeyDiscarded(j) == executing \ {task[j]}

\* The finally clause, and the end of the job.
End(j) ==
  /\ pc[j] \in {"over", "unclaimed"}
  /\ Ledger!Finish(j)
  /\ executing' = IF pc[j] = "over" THEN KeyDiscarded(j) ELSE executing
  /\ task' = [task EXCEPT ![j] = None]
  /\ Goto(j, "out")
  /\ UNCHANGED <<phase, mem, entered, kind, closing, disk, boot, promise>>

Working(t) == {j \in Jobs : task[j] = t /\ slot[j] \in {"pending", "running", "cancelled"}}

\* _cleanup_locked, before a list or a submission. A task expires an hour
\* after its last change at the earliest: none of its jobs is that slow.
Expire(t) ==
  /\ Up /\ mem[t].st \in Terminal /\ Working(t) = {}
  /\ mem' = [mem EXCEPT ![t] = Absent]
  /\ \E ok \in Outcomes : Write(ok, mem')
  /\ promise' = [promise EXCEPT ![t] = "none"]
  /\ UNCHANGED <<phase, requests, work, slot, closing, boot>>

-----------------------------------------------------------------------------
(* Shutdown, crash and start.                                              *)

\* The runner closes: what is reserved is released, what is queued cancelled.
Close ==
  /\ phase = "up"
  /\ phase' = "closing"
  /\ slot' = [j \in Jobs |-> CASE slot[j] = "reserved" -> "released"
                               [] slot[j] = "pending" -> "cancelled"
                               [] OTHER -> slot[j]]
  /\ untold' = {j \in Jobs : slot[j] = "pending"}
  /\ dirty' = FALSE
  /\ UNCHANGED <<mem, requests, work, disk, boot, promise>>

NotExecuting(t) == t \notin executing

NotStarted(t) == mem[t].st = "queued" /\ t \notin executing

\* on_cancel, called by the shutdown or by the worker that holds the job;
\* the write is left to the end of the shutdown, if that is still to come.
Tell(j) ==
  LET t == task[j]
  IN /\ j \in untold
     /\ untold' = untold \ {j}
     /\ IF NotStarted(t)
        THEN /\ mem' = [mem EXCEPT ![t] = Interrupted(@)]
             /\ dirty' = (dirty \/ phase = "closing")
             /\ \/ phase = "closing" /\ UNCHANGED disk
                \/ phase # "closing" /\ \E ok \in Outcomes : Write(ok, mem')
        ELSE UNCHANGED <<mem, dirty, disk>>
     /\ task' = [task EXCEPT ![j] = None]
     /\ UNCHANGED <<phase, entered, kind, work, slot, boot, promise>>

LeftAsItIs(t) == mem[t]

MarkedAtEnd(t) == IF NotStarted(t) THEN Interrupted(mem[t]) ELSE mem[t]

NotJoined == TRUE

\* Every callback and every on_cancel has returned.
Joined == untold = {} /\ Ledger!WithStatus({"running"}) = {}

\* The end of _cancel_pending_and_persist, which shutdown(wait=False) reaches
\* without waiting for the workers.
Mark ==
  /\ phase = "closing"
  /\ Hurried \/ Joined
  /\ phase' = "stopped"
  /\ mem' = [t \in Tasks |-> MarkedAtEnd(t)]
  /\ IF dirty \/ mem' # mem THEN \E ok \in Outcomes : Write(ok, mem')
                            ELSE UNCHANGED disk
  /\ dirty' = FALSE
  /\ UNCHANGED <<requests, work, slot, untold, boot, promise>>

\* The process exits or crashes, with all its threads.
Stop ==
  /\ Up /\ (MayCrash \/ phase = "stopped")
  /\ phase' = "down"
  /\ mem' = [t \in Tasks |-> Absent]
  /\ entered' = {}
  /\ executing' = {}
  /\ slot' = [j \in Jobs |-> "idle"]
  /\ task' = [j \in Jobs |-> None]
  /\ kind' = [j \in Jobs |-> "new"]
  /\ pc' = [j \in Jobs |-> "out"]
  /\ untold' = {} /\ dirty' = FALSE
  /\ UNCHANGED <<disk, boot, promise>>

\* The constructor and start(); a failed write ends the process.
Boot ==
  /\ phase = "down"
  /\ phase' = "up"
  /\ mem' = Recovered
  /\ disk' = IF RecoveryChanged THEN Recovered ELSE disk
  /\ UNCHANGED <<requests, work, slot, closing, boot, promise>>

\* A replica that starts constructs the service as well, on the same file:
\* it recovers the tasks the running service has not finished.
ReplicaReads(r) ==
  /\ boot[r] = None
  /\ RecoveryChanged
  /\ boot' = [boot EXCEPT ![r] = Recovered]
  /\ UNCHANGED <<phase, mem, requests, work, slot, closing, disk, promise>>

ReplicaWrites(r) ==
  /\ boot[r] # None
  /\ disk' = boot[r]
  /\ boot' = [boot EXCEPT ![r] = None]
  /\ UNCHANGED <<phase, mem, requests, work, slot, closing, promise>>

-----------------------------------------------------------------------------
Request(j) == \/ \E t \in Tasks, k \in {"new", "resume"} : Ask(j, t, k)
              \/ Reserve(j) \/ Enter(j) \/ AnswerExisting(j) \/ Wait(j) \/ GiveUp(j)
              \/ Commit(j) \/ Resume(j) \/ RefuseResume(j)

Execute(j) == Begin(j) \/ Unreadable(j) \/ MarkRunning(j) \/ Succeed(j)
              \/ Fail(j) \/ Broken(j) \/ End(j)

Service == Close \/ Mark \/ Stop \/ Boot \/ \E t \in Tasks : Expire(t)

Replica(r) == ReplicaReads(r) \/ ReplicaWrites(r)

Next == \/ \E j \in Jobs : Request(j) \/ Run(j) \/ Execute(j) \/ Partial(j) \/ Tell(j)
        \/ Service

Spec == Init /\ [][Next]_vars

\* The deployment, in which the replicas share the data directory.
SharedSpec == Init /\ [][Next \/ \E r \in Replicas : Replica(r)]_vars

\* Workers are scheduled and image handlers return, because every call they
\* make has a timeout; the shutdown goes on once it has begun.
FairSpec ==
  /\ Spec
  /\ \A j \in Jobs : WF_vars(Run(j)) /\ WF_vars(Execute(j)) /\ WF_vars(Tell(j))
  /\ WF_vars(Mark)
-----------------------------------------------------------------------------
(* Properties.                                                             *)

TypeOK ==
  /\ phase \in {"down", "up", "closing", "stopped"}
  /\ mem \in [Tasks -> TaskRecord] /\ disk \in [Tasks -> TaskRecord]
  /\ entered \subseteq Jobs
  /\ \A t \in executing : \E j \in Jobs :
       task[j] = t /\ pc[j] \in {"claimed", "running", "failing", "broken", "over"}
  /\ Ledger!TypeOK
  /\ task \in [Jobs -> Tasks \cup {None}]
  /\ kind \in [Jobs -> {"new", "resume"}]
  /\ pc \in [Jobs -> {"out", "started", "unclaimed", "claimed", "running",
                      "failing", "broken", "over"}]
  /\ untold \subseteq Jobs /\ dirty \in BOOLEAN
  /\ boot \in [Replicas -> [Tasks -> TaskRecord] \cup {None}]
  /\ promise \in [Tasks -> {"none", "accepted", "result"}]

\* A task whose submission or resume was accepted is in the file until it
\* expires, through failed writes, shutdowns and crashes (lines 606-625,
\* 952-1049).
NotForgotten == \A t \in Tasks : promise[t] # "none" => disk[t].st # "none"

\* The result of the task is in the file, and in the memory if there is one.
Standing(t) == disk[t].st = "success" /\ (Up => mem[t].st = "success")

\* A result that was saved stays the task's result until it expires (lines
\* 671-697, 795-806, 1032-1049). It does in one process whose writes succeed;
\* another replica that starts on the same file breaks it, and so does one
\* step of the service when a write has failed, see SavedResultStays.
ResultIsDurable == \A t \in Tasks : promise[t] = "result" => Standing(t)

\* The late record of a job of t: a write of its failed while the task had
\* timed out in memory, the client resumed it, and what _run_callback_safely
\* records for the first job may land on the result of the second.
LateRecord(t) == \E j \in Jobs : task[j] = t /\ pc[j] = "broken" /\ pc'[j] = "over"

\* With failing writes, cancellations, shutdowns, crashes and recoveries, a
\* result that was saved is taken back by nothing but its expiry and a late
\* record of the same task (lines 636-669, 671-697, 1032-1064, 1252-1277).
SavedResultStays ==
  [][\A t \in Tasks : promise[t] = "result" /\ Standing(t)
       => Standing(t)' \/ promise'[t] = "none" \/ LateRecord(t)]_vars

\* However often an id is submitted, resumed and cancelled, at most one
\* callback at a time talks to the upstream about it (lines 478-496, 636-641).
OneExecution ==
  \A i, j \in Jobs :
    /\ pc[i] \in {"claimed", "running"} /\ pc[j] \in {"claimed", "running"}
    /\ task[i] = task[j]
    => i = j

\* A task that is shown as queued or running has a job that will end it, or
\* a shutdown that will, and none is left by a shutdown (lines 589-713,
\* 1032-1049, 1252-1277).
UnfinishedHasJob ==
  \A t \in Tasks :
    /\ mem[t].st = "queued"
         => phase = "closing" \/ \E j \in Jobs : task[j] = t /\ slot[j] \in {"pending", "running"}
    /\ mem[t].st = "running"
         => \E j \in Jobs : task[j] = t /\ pc[j] \in {"running", "broken"}
    /\ phase = "stopped" => mem[t].st \notin Unfinished

\* "image task interrupted before it started": a task ended with this message
\* is not started afterwards (lines 671-697).
InterruptedNeverStarts ==
  [][\A t \in Tasks : mem[t].st = "error" /\ mem[t].code = "interrupted"
       => mem'[t].st # "running"]_vars

\* The service uses the runner within its contract: whatever its requests,
\* callbacks and shutdown do in whatever order, a job only moves as JobLedger
\* lets it, and a process that ends leaves empty books (lines 478-532, 589-634).
LedgerKept == [][Ledger!Next \/ (Stop /\ Ledger!Init')]_slot

\* A task the client sees as queued or running ends, or its process does.
TaskSettles ==
  \A t \in Tasks : mem[t].st \in Unfinished ~> mem[t].st \notin Unfinished

=============================================================================
