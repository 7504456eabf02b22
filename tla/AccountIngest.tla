---------------------------- MODULE AccountIngest ----------------------------
(***************************************************************************)
(* One job of the account importer (services/account_ingest_service.py).   *)
(* The job is a row that the worker threads of the importers claim with a  *)
(* lease. Its items are taken in batches: refresh tokens are exchanged and *)
(* each result is stored, accounts are inserted in the transaction that    *)
(* moves the checkpoint, and the quota of the new accounts is looked up.   *)
(*                                                                         *)
(* An item stands for its account. The gate of its refresh token is the    *)
(* one of CredentialGate, as far as one job meets it. A worker is a thread *)
(* of the phase it claims. A lease that is renewed in time does not        *)
(* change; it may run out at any moment: a late heartbeat is refused.      *)
(***************************************************************************)
EXTENDS Integers, FiniteSets

CONSTANTS Workers,
          None,         \* not a worker
          Total,        \* items of the job
          RTs,          \* those that bring a refresh token only
          Managed,      \* items whose account may be managed already
          ChunkSize,    \* items of a stored chunk
          SyncAfter,    \* sync_after_import
          MaxFailures,  \* failures in a row after which the job has failed
          MaxEvents     \* bound on crashes, faults, lost leases, retries, other imports

Items == 1..Total

ASSUME IngestAssumption ==
  /\ None \notin Workers
  /\ Total \in Nat \ {0} /\ RTs \subseteq Items /\ Managed \subseteq Items /\ ChunkSize \in Nat \ {0}
  /\ SyncAfter \in BOOLEAN /\ MaxFailures \in Nat \ {0} /\ MaxEvents \in Nat

VARIABLES
  (* database *)
  job,       \* AccountIngestJob
  result,    \* AccountIngestRefresh of every item
  gate,      \* CredentialGate of every refresh token
  accounts,  \* items whose account is stored
  (* workers *)
  worker,
  (* history *)
  spent,     \* refresh tokens whose exchange was answered, or may have been
  events

vars == <<job, result, gate, accounts, worker, spent, events>>

Phases     == {"save", "refresh", "sync"}
Pending(p) == CASE p = "save" -> "queued" [] p = "refresh" -> "refresh_pending" [] OTHER -> "sync_pending"
Running(p) == CASE p = "save" -> "saving" [] p = "refresh" -> "refreshing" [] OTHER -> "syncing"
Ended      == {"completed", "failed"}
Statuses   == {Pending(p) : p \in Phases} \cup {Running(p) : p \in Phases} \cup Ended

FirstPhase == IF RTs # {} THEN "refresh" ELSE "save"
AtRest     == [pc |-> "idle", phase |-> "save", start |-> 0, end |-> 0,
               flight |-> [i \in {} |-> "new"]]

TypeOK ==
  /\ job \in [status : Statuses, owner : Workers \cup {None}, leased : BOOLEAN,
              saved : 0..Total, checked : 0..Total, added : 0..Total,
              synced : 0..Total, sync_failed : 0..Total, failures : 0..MaxFailures]
  /\ job.leased => job.owner # None
  /\ result \in [Items -> {"none", "ok", "error"}]
  /\ gate \in [Items -> {"idle", "sent", "uncertain", "done"}]
  /\ accounts \subseteq Items
  /\ \A w \in Workers :
       /\ worker[w].pc \in {"idle", "ready", "exchange", "save", "sync", "failing", "lost"}
       /\ worker[w].phase \in Phases
       /\ worker[w].start \in 0..Total /\ worker[w].end \in 0..Total
       /\ DOMAIN worker[w].flight \subseteq RTs
       /\ worker[w].flight \in [DOMAIN worker[w].flight -> {"new", "known", "sent", "ok", "error", "stored", "over"}]
  /\ spent \subseteq RTs /\ events \in 0..MaxEvents

\* The row that submit() adds; some of the accounts are managed already.
Init ==
  /\ job = [status |-> Pending(FirstPhase), owner |-> None, leased |-> FALSE,
            saved |-> 0, checked |-> 0, added |-> 0, synced |-> 0, sync_failed |-> 0,
            failures |-> 0]
  /\ result = [i \in Items |-> "none"] /\ gate = [i \in Items |-> "idle"]
  /\ accounts \in SUBSET Managed
  /\ worker = [w \in Workers |-> AtRest]
  /\ spent = {} /\ events = 0

Event == events < MaxEvents /\ events' = events + 1

-----------------------------------------------------------------------------
(* Claims and leases.                                                      *)

OnlyPending(p) == job.status = Pending(p)

\* A job that runs under a lease that ran out is claimed again.
Eligible(p) == job.status = Pending(p) \/ (job.status = Running(p) /\ ~job.leased)

Claim(w) ==
  /\ worker[w].pc = "idle"
  /\ \E p \in Phases :
       /\ Eligible(p)
       /\ job' = [job EXCEPT !.owner = w, !.leased = TRUE, !.status = Running(p)]
       /\ worker' = [worker EXCEPT ![w] = [AtRest EXCEPT !.pc = "ready", !.phase = p]]
  /\ UNCHANGED <<result, gate, accounts, spent, events>>

\* A heartbeat in time keeps a lease; that of a worker that is gone runs out.
Abandoned == job.leased /\ worker[job.owner].pc = "idle"

LeaseRunsOut ==
  /\ job.leased
  /\ IF Abandoned THEN UNCHANGED events ELSE Event
  /\ job' = [job EXCEPT !.leased = FALSE]
  /\ UNCHANGED <<result, gate, accounts, worker, spent>>

Anyone(w) == job.status = Running(worker[w].phase)

\* _owned: the worker holds the lease of the job in its phase.
Owned(w) == job.owner = w /\ job.status = Running(worker[w].phase) /\ job.leased

AtCheckpoint(w) == Owned(w) /\ job.saved = worker[w].start

\* What is left of a batch that is given up: the exchanges that go on.
GivenUp(w, pc) ==
  LET flight == worker[w].flight
      on     == {i \in DOMAIN flight : flight[i] \in {"new", "sent"}}
  IN [AtRest EXCEPT !.pc = pc, !.flight = [i \in on |-> flight[i]]]

\* IngestLeaseLost: nothing is written, the worker looks for other work when
\* the exchanges it began have ended.
Lose(w) == worker' = [worker EXCEPT ![w] = GivenUp(w, "lost")]

Waiting(w) == \E i \in DOMAIN worker[w].flight : worker[w].flight[i] = "sent"

Leave(w) ==
  /\ worker[w].pc = "lost" /\ ~Waiting(w)
  /\ worker' = [worker EXCEPT ![w] = AtRest]
  /\ UNCHANGED <<job, result, gate, accounts, spent, events>>

-----------------------------------------------------------------------------
(* A batch: the items after the checkpoint, within one chunk.              *)

WholeChunk(start) == ((start \div ChunkSize) + 1) * ChunkSize

ChunkEnd(start) ==
  LET end == ((start \div ChunkSize) + 1) * ChunkSize
  IN IF end < Total THEN end ELSE Total

\* A batch takes as much of a chunk as the settings of its phase allow.
BatchEnds(start) == (start + 1)..ChunkEnd(start)

Batch(start, end) == {i \in Items : start < i /\ i <= end}

Loaded(batch) == batch \ RTs

\* The items that have an account: those of failed exchanges are left out.
Usable(batch) == {i \in batch : i \notin RTs \/ result[i] = "ok"}

Unsaved(batch) == batch \cap RTs

Unexchanged(batch) == {i \in batch \cap RTs : result[i] = "none"}

\* The first transaction of save_batch, and the look for accounts that hold
\* a token already: their credentials are taken as they are.
ReadBatch(w) ==
  /\ worker[w].pc = "ready" /\ worker[w].phase # "sync"
  /\ \/ ~Owned(w) /\ Lose(w)
     \/ /\ Owned(w)
        /\ \E end \in BatchEnds(job.saved) :
             LET new == Unexchanged(Batch(job.saved, end))
             IN worker' = [worker EXCEPT
                  ![w].pc = IF new = {} THEN "save" ELSE "exchange",
                  ![w].start = job.saved, ![w].end = end,
                  ![w].flight = [i \in new |-> IF i \in accounts THEN "known" ELSE "new"]]
  /\ UNCHANGED <<job, result, gate, accounts, spent, events>>

InFlight(w, i, state) == i \in DOMAIN worker[w].flight /\ worker[w].flight[i] = state

\* begin_refresh: a gate that is not idle refuses (CredentialBusy), and the call
\* may fail before or after its commit: then nothing is sent, and a gate that was
\* committed stays shut. A thread of the pool may begin after the batch was given up.
Begin(w, i) ==
  /\ worker[w].pc \in {"exchange", "failing", "lost"} /\ InFlight(w, i, "new")
  /\ \/ /\ gate[i] = "idle" /\ gate' = [gate EXCEPT ![i] = "sent"]
        /\ \E to \in {"sent", "error"} : worker' = [worker EXCEPT ![w].flight[i] = to]
     \/ worker' = [worker EXCEPT ![w].flight[i] = "error"] /\ UNCHANGED gate
  /\ UNCHANGED <<job, result, accounts, spent, events>>

\* finish_refresh of an exchange that failed: statuses that mean nothing was
\* issued open the gate again.
AlwaysIdle(answer) == "idle"

AfterError(answer) == IF answer = "rejected" THEN "idle" ELSE "uncertain"

\* The answer comes, or a failure that leaves it open whether there was one.
Answer(w, i) ==
  /\ worker[w].pc \in {"exchange", "failing", "lost"} /\ InFlight(w, i, "sent")
  /\ \E answer \in {"tokens", "rejected", "ambiguous"} :
       /\ worker' = [worker EXCEPT ![w].flight[i] = IF answer = "tokens" THEN "ok" ELSE "error"]
       /\ gate' = IF answer = "tokens" THEN gate ELSE [gate EXCEPT ![i] = AfterError(answer)]
       /\ spent' = IF answer = "rejected" THEN spent ELSE spent \cup {i}
  /\ UNCHANGED <<job, result, accounts, events>>

\* The results are stored one at a time, by the owner at its checkpoint.
Record(w, i) ==
  /\ worker[w].pc = "exchange" /\ \A k \in RTs : ~InFlight(w, k, "stored")
  /\ \E state \in {"ok", "error", "known"} : InFlight(w, i, state)
  /\ \/ ~AtCheckpoint(w) /\ Lose(w) /\ UNCHANGED result
     \/ /\ AtCheckpoint(w)
        /\ result' = [result EXCEPT ![i] = IF InFlight(w, i, "error") THEN "error" ELSE "ok"]
        /\ worker' = [worker EXCEPT ![w].flight[i] = IF InFlight(w, i, "ok") THEN "stored" ELSE "over"]
  /\ UNCHANGED <<job, gate, accounts, spent, events>>

\* The token is marked consumed only after its successor is durable.
Finish(w, i) ==
  /\ worker[w].pc = "exchange" /\ InFlight(w, i, "stored")
  /\ gate' = [gate EXCEPT ![i] = "done"]
  /\ worker' = [worker EXCEPT ![w].flight[i] = "over"]
  /\ UNCHANGED <<job, result, accounts, spent, events>>

Exchanged(w) ==
  /\ worker[w].pc = "exchange"
  /\ \A i \in DOMAIN worker[w].flight : worker[w].flight[i] = "over"
  /\ worker' = [worker EXCEPT ![w].pc = "save", ![w].flight = AtRest.flight]
  /\ UNCHANGED <<job, result, gate, accounts, spent, events>>

-----------------------------------------------------------------------------
(* The checkpoint moves in the transaction that inserts the accounts.      *)

\* _finish_save
Saved(j, end, new) ==
  LET row == [j EXCEPT !.saved = end, !.added = j.added + Cardinality(new), !.failures = 0]
  IN IF end < Total THEN row
     ELSE [row EXCEPT !.status = IF SyncAfter THEN "sync_pending" ELSE "completed",
                      !.owner = None, !.leased = FALSE]

\* The worker goes on until the phase is over.
Continue(w) ==
  worker' = [worker EXCEPT ![w] =
    IF worker[w].end = Total THEN AtRest
    ELSE [AtRest EXCEPT !.pc = "ready", !.phase = worker[w].phase]]

\* add_account_items under account_commit_hook; accounts that exist are left
\* alone, and a batch without new ones moves the checkpoint alone.
SaveBatch(w) ==
  /\ worker[w].pc = "save"
  /\ LET start == worker[w].start
         end   == worker[w].end
         new   == Usable(Batch(start, end)) \ accounts
     IN \/ /\ ~AtCheckpoint(w) /\ Lose(w)
           /\ UNCHANGED <<job, accounts, events>>
        \/ /\ AtCheckpoint(w)
           /\ accounts' = accounts \cup new
           /\ job' = Saved(job, end, new)
           /\ \/ UNCHANGED events /\ Continue(w)
              \/ Event /\ worker' = [worker EXCEPT ![w] = GivenUp(w, "failing")]   \* the answer is lost
  /\ UNCHANGED <<result, gate, spent>>

-----------------------------------------------------------------------------
(* The quota of the accounts is looked up, a batch at a time.              *)

SyncRead(w) ==
  /\ worker[w].pc = "ready" /\ worker[w].phase = "sync"
  /\ \E end \in BatchEnds(job.checked) :
       worker' = [worker EXCEPT ![w].pc = "sync", ![w].start = job.checked, ![w].end = end]
  /\ UNCHANGED <<job, result, gate, accounts, spent, events>>

StillMine(w) == Anyone(w)

MayCheckpoint(w) == Owned(w) /\ job.checked = worker[w].start

SyncBatch(w) ==
  /\ worker[w].pc = "sync"
  /\ LET end    == worker[w].end
         tokens == Cardinality(Usable(Batch(worker[w].start, end)))
     IN \/ ~MayCheckpoint(w) /\ Lose(w) /\ UNCHANGED job
        \/ /\ MayCheckpoint(w)
           /\ \E n \in 0..tokens :
                LET row == [job EXCEPT !.checked = end, !.synced = job.synced + n,
                                       !.sync_failed = job.sync_failed + tokens - n, !.failures = 0]
                IN job' = IF end < Total THEN row
                          ELSE [row EXCEPT !.status = "completed", !.owner = None, !.leased = FALSE]
           /\ Continue(w)
  /\ UNCHANGED <<result, gate, accounts, spent, events>>

-----------------------------------------------------------------------------
(* Failures.                                                               *)

SyncNext(j) == IF SyncAfter THEN "sync_pending" ELSE Pending(FirstPhase)

\* Where a job goes on that is tried again.
Resume(j) == IF j.saved = Total THEN "sync_pending" ELSE Pending(FirstPhase)

\* A call of the database or of a service raises.
Break(w) ==
  /\ Event
  /\ worker[w].pc \in {"ready", "exchange", "save", "sync"}
  /\ worker' = [worker EXCEPT ![w] = GivenUp(w, "failing")]
  /\ UNCHANGED <<job, result, gate, accounts, spent>>

\* fail() looks at the owner, not at the lease.
Fail(w) ==
  /\ worker[w].pc = "failing" /\ ~Waiting(w)
  /\ worker' = [worker EXCEPT ![w] = AtRest]
  /\ IF job.owner = w /\ job.status \in {Running(p) : p \in Phases}
     THEN job' = [job EXCEPT !.failures = job.failures + 1,
                             !.status = IF job.failures + 1 < MaxFailures THEN Resume(job) ELSE "failed",
                             !.owner = None, !.leased = FALSE]
     ELSE UNCHANGED job
  /\ UNCHANGED <<result, gate, accounts, spent, events>>

\* fail() raises as well.
FailFails(w) ==
  /\ Event
  /\ worker[w].pc = "failing" /\ ~Waiting(w)
  /\ worker' = [worker EXCEPT ![w] = AtRest]
  /\ UNCHANGED <<job, result, gate, accounts, spent>>

\* The process dies, or is stopped and waits for nothing; what it sent may
\* have been answered.
Crash(w) ==
  /\ Event
  /\ worker[w].pc # "idle"
  /\ spent' = spent \cup {i \in RTs : InFlight(w, i, "sent")}
  /\ worker' = [worker EXCEPT ![w] = AtRest]
  /\ UNCHANGED <<job, result, gate, accounts>>

Retry ==
  /\ Event
  /\ job.status = "failed"
  /\ job' = [job EXCEPT !.status = Resume(job), !.owner = None, !.leased = FALSE, !.failures = 0]
  /\ UNCHANGED <<result, gate, accounts, worker, spent>>

\* Another import or the console adds an account that is among the items.
OtherImport(i) ==
  /\ Event
  /\ i \notin RTs /\ i \notin accounts
  /\ accounts' = accounts \cup {i}
  /\ UNCHANGED <<job, result, gate, worker, spent>>

Step(w) ==
  \/ Claim(w) \/ ReadBatch(w) \/ Exchanged(w) \/ SaveBatch(w) \/ SyncRead(w) \/ SyncBatch(w)
  \/ Leave(w) \/ Fail(w)
  \/ \E i \in RTs : Begin(w, i) \/ Answer(w, i) \/ Record(w, i) \/ Finish(w, i)

Fault(w) == Break(w) \/ FailFails(w) \/ Crash(w)

Next ==
  \/ \E w \in Workers : Step(w) \/ Fault(w)
  \/ LeaseRunsOut \/ Retry
  \/ \E i \in Items : OtherImport(i)

Spec == Init /\ [][Next]_vars

\* The threads run on, an exchange has a timeout, and the lease of a worker
\* that is gone runs out.
Fairness ==
  /\ \A w \in Workers : WF_vars(Step(w))
  /\ WF_vars(Abandoned /\ LeaseRunsOut)

FairSpec == Spec /\ Fairness

-----------------------------------------------------------------------------
(* What the importer promises.                                             *)

\* An item behind the checkpoint has its account, or an exchange that failed:
\* whatever worker moved it, and however often the job was taken over.
SavedMeansStored ==
  \A i \in 1..job.saved : i \in accounts \/ (i \in RTs /\ result[i] = "error")

\* A job is completed only when every item was saved and, where the job asks
\* for it, looked up; a job that is tried again goes on at the right phase.
CompletedExact ==
  job.status = "completed" =>
    job.saved = Total /\ job.checked = (IF SyncAfter THEN Total ELSE 0)

\* The counters of the lookups are those of the items behind the checkpoint:
\* a worker that lost its lease during a lookup adds nothing twice.
SyncExact ==
  job.synced + job.sync_failed = Cardinality(Usable(Batch(0, job.checked)))

\* A checkpoint never moves back, whoever writes it.
CheckpointsAdvance ==
  [][job'.saved >= job.saved /\ job'.checked >= job.checked]_<<job>>

\* The stored result of an exchange is never written again: a retry asks only
\* for what has no result. (The key of its table would refuse a second one.)
ResultsStand ==
  [][\A i \in Items : result[i] # "none" => result'[i] = result[i]]_<<result>>

\* No refresh token is sent after an exchange of it was answered, or may have
\* been: not by a retry, not after a crash or a lost lease.
NoSecondExchange ==
  [][\A i \in RTs : gate[i] # "sent" /\ gate'[i] = "sent" => i \notin spent]_<<gate>>

\* When the faults end, so does the job: what a dead worker left is taken over.
JobEnds == <>[](job.status \in Ended)

=============================================================================
