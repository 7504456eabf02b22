# A verification project for chatgpt2api

TLA+ models of the concurrent and crash-prone parts of the gateway, TLC
configurations that check them on small instances, and proofs that TLAPS checks
for every value of the constants. Paths below are relative to
`src/src_extract/services/` unless they begin with `src/`.

## 1. The system

The gateway is a Python (FastAPI) service that offers OpenAI-compatible endpoints
on top of a pool of upstream accounts. A deployment is eight API replicas behind
nginx, an account importer, and a PostgreSQL database. All of them mount one data
directory. Replica 0 (`app0`) owns the administration routes and the background
image tasks. Inside a replica, requests run on threads of several bounded pools;
between replicas everything goes through database rows and files.

| Part | State it keeps | Operations | Talks to |
|---|---|---|---|
| bounded task runner (`bounded_task_runner.py`) | generations with a queue, a mode and threads; admission counters; reservations | `reserve`, `commit`, `rollback`, `submit`, `start`, `restart`, `shutdown`, `shutdown_cancel_pending_and_wait`, worker loop | every background service, through callbacks and `on_cancel` |
| credential gate (`credential_coordinator.py`) | one row per refresh token: fence, owner, generation, image leases | `acquire_image`, `release`, `begin_refresh`, `finish_refresh` | account service, account ingest, database |
| image task service (`image_task_service.py`) | tasks in memory and in `image_tasks.json`; submissions in progress; keys being executed | `submit_*`, `resume_poll`, `list_tasks`, task callback, `on_cancel`, `shutdown`, recovery at start | runner, upstream handlers, file |
| account service (`account_service.py`) | live view of the accounts, stored rows last known, journal of local changes, image slots and token aliases, refresh flights | refresh, selection, results of calls, saves | gate, account store, upstream |
| image dispatch (`protocol/conversation.py`, `account_service.py`) | per request: token, tokens tried, failures, deadline | select, lease, attempt, finalize, retry | account service, gate, upstream |
| account ingest, import job (`account_ingest_service.py`, `account_import_job.py`) | job rows with a lease, chunks, checkpoints | enqueue, claim, heartbeat, save, refresh, sync | gate, account store |
| account store (`storage/database_storage.py`) | account rows and a revision per collection | snapshot, replace, mutate, checked mutate | database |
| coordination leases (`storage/coordination_repository.py`) | lease rows with owner and expiry | acquire, heartbeat, release | maintenance, backup, cleanup |
| completion cache (`protocol/chat_completion_cache.py`) | entries, calls in flight | compute or wait, streams | request threads |
| bounded execution (`async_execution.py`) | accepted and active counts | run with deadline, abandon, dispose | event loop and pool threads |
| page prewarm pool (`page_prewarm_pool.py`, `image_input_prewarm.py`) | prepared sessions, builders at work | take, put, start, stop | account service, upstream |
| editable file tasks (`editable_file_task_service.py`) | task rows | submit, run, cancel, recover | runner, database |
| others | see section 8 | | |

What is hard, and what makes each part correct:

* **Runner.** Threads take work outside the lock and act on it inside. Every
  committed task must be run or cancelled exactly once, the counters must stay
  exact through overlapping generations, and a waiting shutdown must neither
  return early nor hang.
* **Credential gate.** A refresh token can be redeemed once. The exchange is an
  HTTP call between two transactions of a process that may die in the middle, of
  eight replicas with stale snapshots. A token whose exchange is in doubt must
  never be sent again, and the credential of a running image request must not be
  replaced.
* **Image tasks.** Requests, workers, cancellation and shutdown share a map whose
  every change is written to a file that may fail to be written. What a client was
  told must survive; a task must end; one callback at a time may work on it.
* **Account pool.** Every replica works on its own copy of all rows, ahead of the
  database by the image results it has not saved and behind it by what others
  saved. Counters must add up, a deletion must stay, a credential must follow its
  renewals, and a replica that believes to be up to date must be.
* **Account ingest.** A job outlives its workers: leases run out under them, answers
  get lost, batches are repeated. Items must be stored and counted once and
  a refresh token must not be redeemed twice.
* **Image dispatch.** Slots, aliases and the list of tried accounts are kept by
  token while tokens are replaced underneath, here and on other replicas.
* **Not modelled yet.** Database leases that expire under their holder, abandoned
  calls that keep their slot, single-flight with failing owners.

## 2. Modules

| Module | What it is |
|---|---|
| `JobLedger` | what a bounded runner promises, with no threads, queues or locks |
| `BoundedTaskRunner` | the runner; implements `JobLedger` (property `LedgerSpec`) |
| `MCBoundedTaskRunner` | model values and symmetry for TLC |
| `BoundedTaskRunnerProofs`, `BoundedTaskRunnerCounts` | its theorems |
| `BoundedTaskRunnerLedger` | the proof that it implements `JobLedger` |
| `RedemptionGate` | what the gate of a refresh token promises, with no database, tickets, snapshots or crashes |
| `CredentialGate`, `MCCredentialGate` | the gate with its two callers, its TLC instance; implements `RedemptionGate` (property `GateSpec`) |
| `CredentialGateProofs` | its theorems, the refinement among them |
| `ImageTasks`, `MCImageTasks` | the image task service on a runner known only through `JobLedger`, its TLC instances |
| `ImageTasksProofs` | its theorems |
| `AccountPool`, `MCAccountPool` | the shared account pool: views, saves, image results and refreshes of several replicas on one database |
| `AccountPoolProofs` | its theorems |
| `AccountIngest`, `MCAccountIngest` | one import job and the workers that take it over from each other |
| `AccountIngestProofs` | its theorems |
| `ImageDispatch`, `MCImageDispatch` | account selection, slots and retries of image requests on one replica |
| `ImageDispatchProofs` | its theorems |

`ImageTasks` composes with the runner by `INSTANCE JobLedger WITH status <- slot`:
each action of the service that reserves, commits, runs or finishes a job is an
action of the ledger. The two halves of the composition are theorems: the runner
implements the ledger (`LedgerTheorem`), and whatever the service does moves a job
only as the ledger allows, up to the end of its process (`LedgerKeptTheorem`).

The three models of the account service split it by what is shared: `CredentialGate`
follows one account's refresh token over all replicas, `AccountPool` the rows over
all replicas, `ImageDispatch` the tokens and slots inside one replica. What one of
them leaves open is a free choice in the other two: a lease may be refused at any
time in `ImageDispatch`, a renewal may be answered at any time in `AccountPool`,
and a row may be replaced at any time in `CredentialGate`.

### How the models correspond to the code

The unit of atomicity is the section of code that holds a lock, or one database
transaction. What a thread does between two of them is an action of its own, so
TLC interleaves everything the operating system can.

**BoundedTaskRunner.** `gen`, `closed`, `accepted`, `active` and `slots` are the
fields `_generation`, `_closed`, `_accepted`, `_active` and the permits of
`_worker_slots`; `mode`, `queue` and `unfinished` are a `_RunState` per generation;
`resv` and `resvGen` a `TaskReservation` per job; `pc` and `job` a worker thread;
`cpc` and the rest of `calls` a thread inside `restart` or a shutdown. A worker goes
through `AcquireSlot` (line 305), `Take` or `TimeOut` (316), `CheckMode` (317),
`Decide` (323), `Finish` or `NotifyDropped` (331-341), `ReleaseSlot`, `Leave`. The
time-out of `queue.get` and the look at the mode after it are two actions, because
the lock is taken only in between. A callback may itself close the runner (`host`).
`_close_locked` drains the queue under the lock; a worker can take a task in the
middle of that, which gives the same result as taking it before or after, so the
drain is one step.

**CredentialGate.** One account is followed. A credential (access token, refresh
token, time) is a number, `rtOf` maps it to its refresh token; `row` is the
account's row, `view` the snapshot of a process. `fence`, `owner`, `fenceGen` and
`leases` are the columns of the gate's row. `Begin` and `BeginImport` are
`begin_refresh`, `Send` to `Answered` the HTTP exchange with every answer the code
tells apart, `Save` and `SaveRefused` `_apply_refreshed_tokens`, `Checkpoint` the
importer's commit, `Finish` `finish_refresh`. Operators, imports and backups change
the account's row at any time. There is no clock: a lease ends at any time after it
was given (`EndLease`), by release or by expiry.

`RedemptionGate` says what all of this amounts to: a lock with readers (the image
requests) and one sender, that breaks for good when the outcome of an exchange is not
known. `CredentialGate` implements it with `readers <- leases`, `sender` the process
that has sent the token and may still learn or store the outcome (`Sender`), and
`lost` the tokens in doubt that nobody is in an exchange of any more (`Lost`): a
crash, an answer that is lost and a save or checkpoint that is refused are all the
one step `Lose` there, while a missed lock is no step at all.

**ImageTasks.** `mem` is `_tasks`, `disk` the file, `entered` `_pending_submissions`,
`executing` `_executing_task_keys`, `slot` where the runner has the job, `pc` where
the callback is. A task is reduced to its status, the class of its error code, the
offer to resume it and whether its conversation is known. Every section that holds
`self._lock` is one action, with the write of the file it makes, which fails as a
choice. `Stop` is an exit or a crash; `Boot` the constructor and `start`, with the
loader and the recovery; `ReplicaReads` and `ReplicaWrites` what the constructor of
another replica does to the same file.

**AccountPool.** `live`, `base`, `rev` are `_accounts`, `_persisted_accounts` and
`_accounts_revision` of a replica; `queue` and `due` the pending image results and
their worker; `writer` the locals of the one thread in `_save_accounts`, which goes
through `Save`, `Commit`, `GiveUp`, `Remerge` or `LoseConnection`, `Recover` and
`Publish` with the lock of the view released in between; `reader` and `journal` a
refresh of the view, from `Read` to `Refresh`. What a receipt says of some rows is
laid over what earlier ones said (`Over`). `db` and `ver` are the rows and the
revision of the collection. `Complete` is an image result, `Edit`, `Renew`, `Delete`
and `Import` are the other callers of `_save_accounts`, each with its own conflict rule
(`Overtaken`, `Merge`).

**AccountIngest.** `job` is the row of the job with its lease, checkpoints and
counters, `result` the table of exchange results, `gate` the gate of each refresh
token, `accounts` the items whose account is stored. `worker` is a thread of a phase:
it claims, reads a batch, exchanges its refresh tokens in a thread pool (`flight`),
records each result, saves the batch with the checkpoint in one transaction, or
looks up the quota of a batch; every transaction checks lease and checkpoint again
(`Owned`, `AtCheckpoint`, `MayCheckpoint`) and gives up when they are another's
(`Lose`). An exchange that was begun goes on when its batch is given up.

**ImageDispatch.** A token is an account with a version of its credential. `view`,
`alias` and `slots` are `_accounts`, `_token_aliases` and `_image_inflight`; `req` the
locals of `_generate_single_image` and `get_available_access_token`: `tried` is
`attempted_tokens` of the former, `excluded` that of the latter. `Walk` is
`_resolve_access_token_locked`, written without recursion: `Hop` is one alias,
`Ahead` what is reached by aliases from a version, and the walk stops at the version
that comes up again. A rotation by a save moves slots and aliases in
`Publish` already (`_passive_token_rotations_locked`), prunes the aliases and moves
again, which changes nothing: `Rotate` is all of it, `FollowRotation` the one that a
refresh finds, which does not prune.

## 3. Runs

| Run | Kind | Shows |
|---|---|---|
| `RunnerSafety` | pass | counters exact, exactly once, concurrency bound, quiet return, refinement of `JobLedger`; 3 jobs, 1 worker, queue of 1, 2 generations, 2 concurrent calls |
| `RunnerLive` | pass | under fairness a cancelling shutdown returns and a committed task is decided |
| `RunnerDrain` | violation | `shutdown(wait=True)` can leave a task in a queue with no worker left (finding) |
| `CredentialSafety` | pass | no replay of a refresh token, leases and refreshes exclude each other, no rotation under a lease, refinement of `RedemptionGate`; 2 processes, 2 requests, 3 credentials |
| `CredentialImport` | violation | the importer can exchange a token that an account holds by now (finding) |
| `ImageTaskLife` | pass | nothing accepted is lost, a saved result is taken back by its expiry or by a late record of a failed write only, one execution, tasks end; 1 task, 3 jobs per process life, failing writes, shutdown, crash, restart |
| `ImageTaskReplica` | violation | a replica that starts overwrites a saved result in the shared file (finding) |
| `ImageTaskUpgrade` | violation | unfinished tasks are not recovered on the first start after an upgrade (finding) |
| `PoolSafety` | pass | results are counted once and never taken back, deletions stay, credentials follow their renewals, a known revision means known rows; 2 replicas, 2 accounts, conflicts, lost connections, restarts |
| `PoolRefresh` | violation | a refresh takes another replica's result of the same size for its own and drops it (finding) |
| `IngestLife` | pass | checkpoints, results and counters exact through lost leases, faults, crashes and a retry, no second exchange, and the job ends; 2 workers, 3 items in 2 chunks, 2 of them refresh tokens |
| `DispatchLife` | pass | slots exact and within the limit, no account twice, every request ends; 2 requests, 2 accounts, limit 1, 3 versions of one credential |

Each property of a passing run has a mutant in `PROJECT.json`: a change of the model
such as a plausible bug would make, under which TLC finds the property violated.

`CHECK_DEADLOCK FALSE` stands in the runner's configurations because there every
job is reserved once: when all are used and the runner is closed the model stops,
as the program does, in `AccountPool`, whose events are bounded, and in `IngestLife`,
where the job ends. The other models never stop.

### Bounds, and why they are enough

* *Runner.* The interesting collisions need one task in the queue, one in a
  worker's hands and one reserved: three jobs. Two generations give an old thread
  beside a new one; two callers give two closes, or a close and a restart, at once.
  One worker and a queue of one put the counters at their limits at once. The
  proofs cover any number of all of these, except for the two liveness properties.
* *Gate.* Two processes for a refresh against a refresh or an import, two requests
  at a limit of one lease; three credentials let an account be added, refreshed and
  restored to the earlier credential; two refresh tokens, one of which comes from
  outside, distinguish rotated from kept tokens. The proofs remove the bounds.
* *Image tasks.* Tasks do not interact but through the file and the runner's
  capacity, so one task with three jobs (a submission, a resume, and one more of
  either) has all the races on one task; a process life ends with a crash and gives
  the jobs back, so behaviours go on over any number of restarts. A capacity of two
  makes the third job meet a full runner. `ImageTaskUpgrade` needs two tasks,
  because the defect is that one task's record decides about another's. The proofs
  remove the bounds from the safety properties.
* *Pool.* Two replicas give every pair of writer against writer, writer against
  result and refresh against either; a second account makes a receipt of some rows
  differ from a revision of all; two attempts reach the last one (`MaxAttempts`).
  Results, requested changes and faults are bounded by `MaxEvents`, everything that
  follows from them is not. One replica at a time refreshes its view (a constraint
  of the configuration): refreshes change nothing that others read. The proofs remove
  all of these bounds, the constraint included.
* *Ingest.* Two workers take over from each other in both directions; three items
  with chunks of two give a full chunk, a last short one and batches that end within
  a chunk; the two refresh tokens share a batch or not; one account exists before.
  Two failures in a row end the job, so a retry is reached within three events. The
  proofs remove the bounds from the safety properties.
* *Dispatch.* Two requests compete for one slot, and the second account makes a walk
  over accounts. Two replacements of a credential with three versions give chains,
  repointed aliases and a return to an earlier token. Versions are numbered as they
  appear. One event (a deletion, a console test, a result that fails) is allowed,
  and an account that was disturbed by it changes no more, since the properties
  leave it out. The proofs remove the bounds from the safety properties.

### Fairness

* *Runner* (`FairSpec`): weak fairness of every step of a worker thread and of a
  call that can go on. Threads are scheduled by the operating system, semaphores and
  joins wake up a waiter, and callbacks return: those of the gateway make upstream
  calls that all carry a timeout. No fairness for clients: nobody has to submit,
  commit or close.
* *Image tasks* (`FairSpec`): weak fairness of `Run`, of a job's own steps, of
  `Tell` and of `Mark`, for the same reasons. No fairness for `Stop`, `Boot`,
  requests or expiry. `TaskSettles` says that a task which is shown as unfinished
  ends, or the process does.
* *Ingest* (`FairSpec`): weak fairness of every worker's steps, since its threads run
  and an exchange has a timeout, and of the end of a lease whose worker is gone,
  since nobody renews it. None for a lease in use, faults or retries. `JobEnds` says
  that a job ends once the faults do.
* *Dispatch* (`FairSpec`): weak fairness of every request's steps, since calls to the
  gate and the upstream end, and of its deadline. A request without a deadline is
  not covered: it may wait for capacity as long as the pool is busy.
* *Pool*: safety only.
* *Gate*: safety only. A process may stop anywhere, and the code promises that a
  gate stays shut then.

## 4. What is proved

All theorems are about `Spec`, for all values of the constants that satisfy the
module's named assumption.

**`BoundedTaskRunnerProofs`.** `PlacementTheorem` is the inductive invariant: types,
what a generation's mode says about its reservations and threads, and that a job is
in one place only, in a queue, in one worker's hands or in one caller's list, in the
generation it was reserved in. Exactly-once is not inductive by itself, since
whether a task may still be run depends on where it is. `ExactlyOnceTheorem` adds
the counts of callbacks to it.

**`BoundedTaskRunnerCounts`.** Each counter is tied to the cardinality of the set it
counts, by one invariant per counter (`Threads`, `Joins`, `Books`): permits and
active against workers in their loop or in a callback, unfinished against the queue
and the hands, accepted against jobs on the books. `CountMove` says how a
cardinality changes when one member does. `ConcurrencyTheorem`, `PermitsTheorem`, `JoinTheorem`,
`AdmissionTheorem`, `CommittableTheorem`, `TypeTheorem` follow, and
`QuietReturnTheorem`: a call that waits has in its list every thread of its
generation and of the older ones that is not gone, and the runner stays closed
while it waits.

**`CredentialGateProofs`.** The invariant has the types, what a process's ticket says
of the gate it fenced (`Tickets`), that a token in doubt is fenced with a process
still to answer for it, or fenced for good (`Doubts`), that a lease is on the
credential of its request (`Leased`), and that a token which is not from
outside is known to the account alone (`Issued`). `NoReplayTheorem`,
`LeaseExcludesRefreshTheorem`, `NotRotatedUnderLeaseTheorem` and
`GateTypeTheorem` follow from it.

`GateTheorem` is the refinement of `RedemptionGate`. `Tickets` gives each exchange one
process (`OneSender`), so what a step does to the lock is decided by what it does to
the place of one process and to the doubts: `Withdraws` covers the twelve actions after which
a process is in no exchange, in three cases (it settles one, loses one, or had none:
a stutter); `SendLocks` and `AcquireUses` use `Tickets` and `Doubts` for what the
lock demands and the code's guards do not say in so many words, that a token about to
be sent is neither in doubt nor leased, and a token about to be leased not in doubt.

**`ImageTasksProofs`.** The invariant has the types, where a job can be in the
runner and in its callback (`Places`), that an executing key stands for a callback
that has not yet come to its `finally` (`Keys`), that a task has one live job at most
and is neither absent nor timed out while it has one (`Single`), and that what was
promised is in the file and in memory, and a task whose result was saved is `Final`,
a success or a failure that is not resumed, with no job at work on it (`Kept`).
`Single` carries the argument: a submission needs a task that does not exist and a
resume one that timed out, so neither can bring in a second job. `TaskTypeTheorem`,
`OneExecutionTheorem`, `NotForgottenTheorem` and `SavedResultStaysTheorem` follow. The
last says that only two steps take a saved result back: its expiry, and the late
record of an older job whose own write failed (section 5). `Final` is what remains
true after such a record. `ResultIsDurableTheorem` is the invariant without that
exception, for services where no write fails (`~MayFail`): then no job of a task is
left to record a failure once a result was saved (`Sound`).
`UnfinishedHasJobTheorem` needs `Driven` besides (each unfinished task has the job
that will move it on) and holds if no shutdown is hurried and no older version left a
file; `InterruptedNeverStartsTheorem` needs `Claims` (a job that claimed its task does
not find it interrupted) and holds if no shutdown is hurried. `LedgerKeptTheorem` goes
through the same case distinction (`Cases`), which has already sorted the ends of a
request by whether the runner takes the job: each is a commit, a release or no move,
and the close of the service is a close of the ledger.

**`BoundedTaskRunnerLedger`.** `LedgerTheorem` is the refinement: `Spec` implies the
ledger's specification under the mapping of `LedgerStatus`. The status of a job is
a function of its reservation, of the worker that holds it, of the queue and of its
history, so a step that moves none of these is a stutter (semaphore, time-out, look
at the mode, joins, the start and end of threads), and one that moves one job is one
step of the ledger. Closing moves several at once: the drain of a cancelling close
settles all that was queued or reserved. Two facts beyond placement are needed: a
worker in a callback has started its job (`Started`, which makes the job finished and
not cancelled when the callback returns), and the two bounds of the ledger, which
`AdmissionExact` and `ConcurrencyBound` give.

**`ImageDispatchProofs`.** `SlotsExact` is not inductive: a release subtracts at the
token that the request's token leads to, so the invariant has to say that the token
of every request that holds or has tried an account is its account's row or has an
alias straight to it (`Known`), until the account is disturbed. Rotation repoints
every alias and pruning keeps those in use, which is what `AliasedStands` and
`PrunedStands` prove. `Repeated` says that only a disturbed account is released
twice, `Fresh` that a selection leaves out all that was tried; `NoReselectTheorem`
follows from these, `SlotsExactTheorem` with the cardinality of the holders.
`TokensLeadToRowsTheorem` is `Known` in the terms of the code: aliases lead from what
a request holds or has tried to its account's row.

**`AccountIngestProofs`.** The invariant ties the row of the job to its workers:
batches are not empty and of their worker's phase (`Batches`); what a batch has no
result for is in flight, and only the owner stores results (`Exchanges`); status,
checkpoints and counters agree, and an exchanged item behind the checkpoint has its
result (`Progress`); a token in flight is gated by one worker and unanswered, and one
that was answered is gated for good (`Gates`). `SavedMeansStored` alone would not
survive a save: that every item of the batch has a result is known only from
`Exchanges`, and that the batch is the one behind the checkpoint from the checks of
`Owned` and `AtCheckpoint` in the same transaction. All seven safety properties follow.

**`AccountPoolProofs`.** The invariant speaks of one replica at a time against the
database. `View`: the view is the rows last known to be stored, ahead by image results
only. `Work`: what a save intends is a change, of the sort its kind may make, of the
rows it knew, and what it is about to write such a change of the rows the write
expects to find; merging after a conflict preserves that (`MergeSaves`), and the
comparison in the transaction makes the expected rows the stored ones. So
`ResultsNeverDrop`, `NoResurrection` and `CredentialsMove` follow from `Work` at the
write. `Known`: no revision is ahead of the stored one, and whatever carries the
stored revision (view, rows being read, receipts, the rows a save expects or is
about to publish) carries the stored rows; `RevisionHonest` is its first part for an
idle writer. `Frame` reduces each step to the one replica that takes it, since a
write only moves the revision ahead of what the others know.

`CountedOnceTheorem` needs a sum. `Unsaved(r, t)` is what a replica may still add to
the stored counter: the results in its view beyond the rows it knows, or, while a save
is in progress, those the save is to add and those since it began. `Counting` says
that every row anyone takes for stored (database, known rows, rows being read,
receipts, what a save expects to find or publishes) has counted at most `Ceiling(t)`,
the results so far less the unsaved ones of all replicas. A write moves results from
the writer's part to the stored row; merging again leaves what a save adds unchanged
(`MergeAdds`); a lost connection gives up the part of the save whether it was written
or not; publication and refresh keep in a view no more than was unsaved (`ShownAdds`,
`RefreshedAdds`). The sum is the cardinality of a set of units, so that the library's
facts on finite sets prove that it moves with one of its parts (`SumMove`).

### What is only model-checked

Liveness (`CancelShutdownReturns`, `CommittedSettles`, `TaskSettles`, `JobEnds`,
`RequestEnds`): ENABLED and fairness are out of the prover's reach. Every safety
property of a run that passes is a theorem. `UnfinishedHasJob` and
`InterruptedNeverStarts` are theorems under the conditions named above, which the
run's instance satisfies. `PermitsExact`, `TokensLeadToRows` and `LedgerKept` are
stated by theorems only, since those cover every instance; they hold on the instances
of `RunnerSafety`, `DispatchLife` and `ImageTaskLife` too. `ResultIsDurable` is a
theorem for one process whose writes succeed; the run that names it,
`ImageTaskReplica`, adds a replica and finds it violated.

`CancelShutdownReturns` is checked with one caller, which a worker may host: a
callback that shuts its own runner down. Two shutdowns that wait at once are in
`RunnerSafety`, for `QuietReturn` only.

The assumptions are the named ones of the modules: bounds are natural numbers,
jobs, requests and replicas are finite in number, model values are distinct. They
are evaluated in every run.

## 5. Findings

Five disagreements between the code and what its documents, comments or tests say
are runs of their own, with the quoted line in `PROJECT.json`: the drain that strands
a task, the import that exchanges a managed token, the replica that overwrites the
task file, the recovery that an `or` skips, and the refresh that drops an unsaved
image result.

Others that were met, and have no run of their own:

* `finish_refresh` that misses the advisory lock of the gate (`credential_coordinator.py:103`)
  leaves the gate shut, with no crash and no exchange in doubt; the comment at line
  101 calls the miss harmless. `NoReplay` holds all the same.
* A failure that was recorded late can replace a saved result
  (`image_task_service.py:648-659`): a job times out and the write of its error fails;
  the time-out is in memory, so the client resumes the task; the second job saves
  its images; only then does `_run_callback_safely` record the failure of the first,
  over the success in memory and in the file. It takes a failing write, and no
  document says what follows one. `ImageTasks` has the step (`Broken`), and
  `SavedResultStays` names it as its one exception (`LateRecord`).
* After a restart an image task that timed out is offered for `resume_poll`, which
  refuses it, because `conversation_id` is not read back (`image_task_service.py:975`).
* The console test of an account frees an image slot it never took
  (`account_test_service.py:226`), `finalize_image_slot` releases twice when
  `mark_image_result` fails after its release (`protocol/conversation.py:2556`), and
  deleting an account that is in use drops the slots of its requests
  (`account_service.py:940`). An exception between the selection of an account and the
  `try` of the attempt, or in its handler, is followed by no `finalize_image_slot`
  and leaves the slot taken (`protocol/conversation.py:2641-2719`). `ImageDispatch` has these steps; its properties
  leave the account out from then on.
* A flush of image results that fails resets the view to the stored rows before it is
  queued again, so there is nothing left to save (`account_service.py:5635`).

## 6. Abstractions

* *Runner.* Payloads, context variables and names are left out. A callback that
  raises is a callback that returns: the loop treats them alike.
* *Gate.* One account and its credentials. The non-strict admission mode, accounts
  without a refresh token and the cooldowns stored with a lease are left out; so are
  the local single-flight and pacing of refreshes, which only make some of the
  modelled interleavings rarer. An imported credential is saved only while no row
  exists for the account, which is what the store does with `skip_existing`.
* *Image tasks.* The runner is its ledger. A save replaces the whole file or fails;
  the `.bak` copy and the non-atomic fallback of `json_file.py` are not modelled. Of
  the spool only its failures are. The commit of the runner and the release of the
  pending submission are one step. A request that waits for another submission of
  the same id tries again as a new request. Expiry finds no job of the task at work,
  since it comes an hour after the last change at the earliest. What follows the
  write of a success in the same `try` is logging and the close of the client, taken
  to raise nothing. `Hurried` is
  `shutdown(wait=False)`, which nothing in the gateway calls: with it
  `InterruptedNeverStarts` and `UnfinishedHasJob` fail, and no run assumes it.
* *Pool.* A row is its counter of successes and its credential. Cooldowns, quota and
  the other fields merge by the same rules and are left out. A row is followed by its
  account, so the import of an access token that was replaced meanwhile, which makes
  a second row of the account, is excluded, and so is the re-import of a deleted one.
  The begin of the journal and the read are one step, and so are the detection of a
  conflict and the read that answers it. Only row-level saves; the whole-collection
  path is for other storages.
* *Ingest.* One job. The duplicate detection of `submit`, the back-off before a retry
  (`retry_at`), progress events and the clearing of payloads are left out. Strict
  admission is assumed. That `ResultsStand` holds is partly due to the primary key of
  the results' table, which would refuse a second row. Other imports add accounts
  only for items that bring an access token.
* *Dispatch.* Whether an account is ready, funded, cooling or in a refresh is a free
  choice of every pass, and so are the answers of the gate. An exception after a success
  was recorded is the failure of an attempt whose slot is free again (`Fail`). The retry through the fallback
  proxy keeps token and slot and is part of the attempt. Shards, plan types and the
  order of the candidates are left out. A crash ends the process and its slots.

## 7. Plan

1. `BoundedTaskRunner` on `JobLedger`, with proofs. Done.
2. `CredentialGate` with its two callers, with proofs. Done.
3. `ImageTasks` on `JobLedger`, with proofs. Done.
4. `AccountPool`: views, row-level compare-and-swap, journal and merge. Done, with
   proofs.
5. `AccountIngest`: claim, lease, checkpoints and chunks. Done, with proofs.
6. `ImageDispatch`: slots, aliases, retries. Done, with proofs.
7. The refinements of `JobLedger` and `RedemptionGate`. Done, with proof.
8. `ChatCompletionCache`, `BoundedExecution`, `CoordinationLease`, `EditableFileTasks`,
   `PagePrewarmPool`.

## 8. Not modelled, and why

`PROJECT.json` lists every component with its reason. In short: proxies, image
storage, logs, metrics and monitoring are input and output or observation; login,
remote import and the upstream protocol are clients of other systems, present in the
models as calls that return, fail or time out; the HTTP routes order calls of the
services; configuration and updates are data and packaging; the web console is
generated; the registration tool is a separate program.
