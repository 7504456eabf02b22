--------------------------- MODULE ImageTasksProofs ---------------------------
(***************************************************************************)
(* The safety properties of ImageTasks, for any number of tasks, jobs,     *)
(* admission slots and workers. The key of the argument is that at most    *)
(* one job of a task is live, that is, may still work on it: a submission  *)
(* needs a task that does not exist and a resume one that timed out, and   *)
(* no task is either while one of its jobs is live.                        *)
(***************************************************************************)
EXTENDS ImageTasks, TLAPS

Labels == {"started", "unclaimed", "claimed", "running", "failing", "broken", "over"}
AtRest == {"idle", "reserved", "released"}

Types ==
  /\ phase \in {"down", "up", "closing", "stopped"}
  /\ mem \in [Tasks -> TaskRecord] /\ disk \in [Tasks -> TaskRecord]
  /\ entered \subseteq Jobs
  /\ slot \in [Jobs -> Ledger!Status]
  /\ task \in [Jobs -> Tasks \cup {None}]
  /\ kind \in [Jobs -> {"new", "resume"}]
  /\ pc \in [Jobs -> Labels \cup {"out"}]
  /\ untold \subseteq Jobs /\ dirty \in BOOLEAN
  /\ boot \in [Replicas -> [Tasks -> TaskRecord] \cup {None}]
  /\ promise \in [Tasks -> {"none", "accepted", "result"}]

\* Where the runner has a job, where its callback is and which task it is for.
Places ==
  /\ \A j \in Jobs :
       /\ pc[j] = "out" <=> slot[j] # "running"
       /\ slot[j] \in {"pending", "running"} \/ j \in untold => task[j] # None
       /\ slot[j] = "cancelled" /\ task[j] # None => j \in untold
       /\ j \in entered => task[j] # None /\ kind[j] = "new" /\ slot[j] \in AtRest
       /\ j \in untold => slot[j] = "cancelled"
       /\ slot[j] = "cancelled" => phase \in {"closing", "stopped"}
       /\ slot[j] \in {"reserved", "pending"} => phase = "up"
       /\ phase = "down" => slot[j] = "idle" /\ task[j] = None /\ j \notin entered
       /\ phase = "stopped" /\ ~Hurried => slot[j] # "running" /\ j \notin untold
  /\ phase = "down" => mem = [t \in Tasks |-> Absent]

\* A key stands for a callback that has not yet come to its finally clause.
Keys ==
  \A t \in executing : \E j \in Jobs :
    task[j] = t /\ pc[j] \in {"claimed", "running", "failing", "broken", "over"}

\* The job may still work on its task, or report that it never will.
Live(j) == \/ slot[j] = "pending" \/ j \in untold
           \/ pc[j] \in {"started", "claimed", "running", "failing"}

TimedOut(t) == mem[t].st = "error" /\ mem[t].code = "timeout"

\* A task has one live job at most; while it has one it cannot be resumed,
\* and while it has any or is being submitted by one it cannot be submitted.
Single ==
  /\ \A i, j \in Jobs : Live(i) /\ Live(j) /\ task[i] = task[j] => i = j
  /\ \A i, j \in entered : task[i] = task[j] => i = j
  /\ \A j \in Jobs : Live(j) => ~TimedOut(task[j])
  /\ \A j \in Jobs : slot[j] \in {"pending", "running"} \/ j \in untold
                       => mem[task[j]].st # "none"
  /\ \A j \in entered : mem[task[j]].st = "none"

\* A record that no request and no job takes up again.
Final(r) == r.st = "success" \/ (r.st = "error" /\ r.code # "timeout")

\* What was promised is in the file and in the memory of a service that runs;
\* a task whose result was saved is final, even if a late record took the
\* result back, and no job works on it.
Kept ==
  /\ \A t \in Tasks : promise[t] # "none"
       => disk[t].st # "none" /\ (Up => mem[t].st # "none")
  /\ \A t \in Tasks : promise[t] = "result" => Final(disk[t]) /\ (Up => Final(mem[t]))
  /\ \A j \in Jobs : pc[j] \in {"claimed", "running", "failing"}
       => promise[task[j]] # "result"

\* A queued task has a job that is still to start, to mark it running or to
\* record its failure; a running task one that works on it or has failed.
Queued(j)  == slot[j] = "pending" \/ pc[j] \in {"started", "claimed", "broken"}
Running(j) == pc[j] \in {"running", "broken"}

DrivenOf(t) ==
  /\ mem[t].st = "queued" => \/ phase = "closing"
                             \/ \E j \in Jobs : task[j] = t /\ Queued(j)
  /\ mem[t].st = "running" => \E j \in Jobs : task[j] = t /\ Running(j)
  /\ phase = "stopped" => mem[t].st \notin Unfinished
  /\ mem[t].code # "legacy" /\ disk[t].code # "legacy"

Driven == \A t \in Tasks : DrivenOf(t)

\* A job that is about to mark its task running does not find it interrupted.
Claims ==
  \A j \in Jobs : pc[j] = "claimed" =>
    ~(mem[task[j]].st = "error" /\ mem[task[j]].code = "interrupted")

-----------------------------------------------------------------------------
(* The records a task goes through.                                        *)

LEMMA Records ==
  ASSUME NEW r \in TaskRecord
  PROVE  /\ Absent \in TaskRecord /\ NewTask \in TaskRecord
         /\ Requeued(r) \in TaskRecord /\ Requeued(r).st = "queued"
         /\ Requeued(r).code = ""
         /\ Succeeded(r) \in TaskRecord /\ Succeeded(r).st = "success"
         /\ Succeeded(r).code = ""
         /\ Interrupted(r) \in TaskRecord /\ Interrupted(r).st = "error"
         /\ Interrupted(r).code = "interrupted"
         /\ \A code \in {"timeout", "other"}, g \in BOOLEAN :
              /\ Failed(r, code, g) \in TaskRecord
              /\ Failed(r, code, g).st = "error" /\ Failed(r, code, g).code = code
         /\ [r EXCEPT !.st = "running"] \in TaskRecord
         /\ Loaded(r) \in TaskRecord /\ Loaded(r).st = r.st
         /\ Loaded(r).code # "legacy" /\ (Final(r) => Final(Loaded(r)))
         /\ Ended(r) \in TaskRecord
         /\ Ended(r).st = IF r.st \in Unfinished THEN "error" ELSE r.st
         /\ r.code # "legacy" => Ended(r).code # "legacy"
         /\ Final(r) => Final(Ended(r))
  BY DEF TaskRecord, Record, Absent, NewTask, Requeued, Succeeded, Interrupted,
     Failed, Loaded, Ended, Unfinished, Final

LEMMA RecoveredType ==
  ASSUME Types
  PROVE  /\ Recovered \in [Tasks -> TaskRecord]
         /\ \A t \in Tasks :
              /\ Recovered[t].code # "legacy"
              /\ disk[t].st # "none" => Recovered[t].st # "none"
              /\ disk[t].st = "success" => Recovered[t].st = "success"
              /\ Final(disk[t]) => Final(Recovered[t])
              /\ ~OldDetails => Recovered[t].st \notin Unfinished
<1> SUFFICES ASSUME NEW t \in Tasks
             PROVE  /\ Recovered[t] \in TaskRecord
                    /\ Recovered[t].code # "legacy"
                    /\ disk[t].st # "none" => Recovered[t].st # "none"
                    /\ disk[t].st = "success" => Recovered[t].st = "success"
                    /\ Final(disk[t]) => Final(Recovered[t])
                    /\ ~OldDetails => Recovered[t].st \notin Unfinished
  BY DEF Recovered
<1>1. disk[t] \in TaskRecord
  BY DEF Types
<1>2. Loaded(disk[t]) \in TaskRecord
  BY <1>1, Records
<1>3. Recovered[t] = IF OldDetails THEN Loaded(disk[t]) ELSE Ended(Loaded(disk[t]))
  BY DEF Recovered
<1>4. /\ Loaded(disk[t]).st = disk[t].st /\ Loaded(disk[t]).code # "legacy"
      /\ Final(disk[t]) => Final(Loaded(disk[t]))
  BY <1>1, Records
<1>5. /\ Ended(Loaded(disk[t])) \in TaskRecord
      /\ Ended(Loaded(disk[t])).st =
           IF Loaded(disk[t]).st \in Unfinished THEN "error" ELSE Loaded(disk[t]).st
      /\ Ended(Loaded(disk[t])).code # "legacy"
      /\ Final(Loaded(disk[t])) => Final(Ended(Loaded(disk[t])))
  BY <1>2, <1>4, Records
<1> QED BY <1>2, <1>3, <1>4, <1>5 DEF Unfinished

-----------------------------------------------------------------------------
(* The next-state relation, one case for each action.                      *)

\* A request that ends without a job for the runner.
Ends(j) ==
  /\ phase # "down" /\ task[j] # None /\ slot[j] \in AtRest
  /\ Leave(j)
  /\ UNCHANGED <<mem, promise>>
  /\ \/ disk' = disk \/ disk' = mem
     \/ \E r \in TaskRecord :
          /\ disk' = [mem EXCEPT ![task[j]] = r] /\ r.st = "queued" /\ r.code = ""
          /\ j \in entered \/ Resumable(mem[task[j]])

\* A request whose job the runner takes.
Accepts(j) ==
  /\ task[j] # None /\ slot[j] = "reserved"
  /\ slot' = [slot EXCEPT ![j] = "pending"]
  /\ \E r \in TaskRecord :
       mem' = [mem EXCEPT ![task[j]] = r] /\ r.st = "queued" /\ r.code = ""
  /\ disk' = mem'
  /\ promise' = [promise EXCEPT ![task[j]] = "accepted"]
  /\ entered' = entered \ {j}
  /\ (j \in entered /\ mem[task[j]].st = "none") \/ Resumable(mem[task[j]])
  /\ UNCHANGED <<phase, task, kind, work, closing, boot>>

LEMMA LedgerSteps ==
  ASSUME Types, NEW j \in Jobs
  PROVE  /\ Ledger!Reserve(j) => slot[j] = "idle" /\ slot' = [slot EXCEPT ![j] = "reserved"]
         /\ Ledger!Commit(j) => slot[j] = "reserved" /\ slot' = [slot EXCEPT ![j] = "pending"]
         /\ Ledger!Run(j) => slot[j] = "pending" /\ slot' = [slot EXCEPT ![j] = "running"]
         /\ Ledger!Finish(j) => slot[j] = "running" /\ slot' = [slot EXCEPT ![j] = "finished"]
<1>1. ASSUME NEW from, NEW to, Ledger!Move({j}, from, to)
      PROVE  slot[j] = from /\ slot' = [slot EXCEPT ![j] = to]
  BY <1>1 DEF Types, Ledger!Move, Ledger!WithStatus
<1> QED BY <1>1 DEF Ledger!Reserve, Ledger!Commit, Ledger!Run, Ledger!Finish
LEMMA Cases ==
  ASSUME Types, Places, Single, Next
  PROVE  \/ \E j \in Jobs :
              \/ Ends(j) \/ Accepts(j)
              \/ (\E t \in Tasks, k \in {"new", "resume"} : Ask(j, t, k))
              \/ Reserve(j) \/ Enter(j) \/ Run(j) \/ Begin(j) \/ Unreadable(j)
              \/ MarkRunning(j) \/ Partial(j) \/ Succeed(j) \/ Fail(j)
              \/ Broken(j) \/ End(j) \/ Tell(j)
         \/ Close \/ Mark \/ Stop \/ Boot \/ \E t \in Tasks : Expire(t)
<1>1. ASSUME NEW j \in Jobs,
             AnswerExisting(j) \/ Wait(j) \/ GiveUp(j) \/ RefuseResume(j)
      PROVE  Ends(j)
  <2>1. task[j] # None /\ slot[j] \in AtRest /\ Leave(j) /\ UNCHANGED <<mem, disk, promise>>
    BY <1>1 DEF AnswerExisting, Wait, GiveUp, RefuseResume, Places, AtRest
  <2> QED BY <2>1 DEF Ends, Places
<1>2. ASSUME NEW j \in Jobs, task[j] # None, slot[j] \in AtRest,
             NEW r \in TaskRecord, r.st = "queued", r.code = "",
             (j \in entered /\ mem[task[j]].st = "none") \/ Resumable(mem[task[j]]),
             CommitNewTask(j, task[j], r)
      PROVE  Ends(j) \/ Accepts(j)
  <2> DEFINE tasks == [mem EXCEPT ![task[j]] = r]
  <2>1. CASE /\ slot[j] = "reserved" /\ Ledger!Commit(j) /\ mem' = tasks /\ disk' = tasks
             /\ promise' = [promise EXCEPT ![task[j]] = "accepted"]
             /\ entered' = entered \ {j}
             /\ UNCHANGED <<phase, task, kind, work, closing, boot>>
    BY <1>2, <2>1, LedgerSteps DEF Accepts
  <2>2. CASE /\ Leave(j) /\ UNCHANGED <<mem, promise>>
             /\ disk' = disk \/ disk' = mem \/ disk' = tasks
    BY <1>2, <2>2 DEF Ends, Places
  <2>3. CASE slot[j] = "released" /\ Leave(j) /\ UNCHANGED <<mem, promise>>
             /\ \E ok \in Outcomes : disk' = IF ok THEN mem ELSE tasks
    <3>1. disk' = mem \/ disk' = tasks
      BY <2>3
    <3> QED BY <2>2, <2>3, <3>1
  <2>4. CASE Leave(j) /\ UNCHANGED <<mem, disk, promise>>
    BY <2>2, <2>4
  <2> QED BY <1>2, <2>1, <2>3, <2>4 DEF CommitNewTask
<1>3. ASSUME NEW j \in Jobs, Commit(j)
      PROVE  Ends(j) \/ Accepts(j)
  <2>1. j \in entered /\ task[j] # None /\ slot[j] \in AtRest /\ mem[task[j]].st = "none"
    BY <1>3 DEF Commit, Places, Single
  <2>2. NewTask \in TaskRecord /\ NewTask.st = "queued" /\ NewTask.code = ""
    BY DEF NewTask, Record, TaskRecord
  <2>3. CommitNewTask(j, task[j], NewTask)
    BY <1>3 DEF Commit
  <2> QED BY <1>2, <2>1, <2>2, <2>3
<1>4. ASSUME NEW j \in Jobs, Resume(j)
      PROVE  Ends(j) \/ Accepts(j)
  <2>1. task[j] \in Tasks /\ task[j] # None /\ slot[j] \in AtRest /\ Resumable(mem[task[j]])
    BY <1>4 DEF Resume, Types, AtRest
  <2>2. mem[task[j]] \in TaskRecord
    BY <2>1 DEF Types
  <2>3. /\ Requeued(mem[task[j]]) \in TaskRecord /\ Requeued(mem[task[j]]).st = "queued"
        /\ Requeued(mem[task[j]]).code = ""
    BY <2>2, Records
  <2>4. CommitNewTask(j, task[j], Requeued(mem[task[j]]))
    BY <1>4 DEF Resume
  <2> QED BY <1>2, <2>1, <2>3, <2>4
<1> QED BY <1>1, <1>3, <1>4 DEF Next, Request, Execute, Service
-----------------------------------------------------------------------------
(* Type correctness.                                                       *)

\* Changing one task keeps the type of the map, in memory or in the file.
LEMMA MapType ==
  ASSUME NEW m \in [Tasks -> TaskRecord], NEW t \in Tasks, NEW r \in TaskRecord
  PROVE  [m EXCEPT ![t] = r] \in [Tasks -> TaskRecord]
OBVIOUS

LEMMA UpdateType ==
  ASSUME Types, NEW t \in Tasks, NEW r \in TaskRecord, NEW ok, Update(t, r, ok)
  PROVE  mem' \in [Tasks -> TaskRecord] /\ disk' \in [Tasks -> TaskRecord]
BY MapType DEF Types, Update, Write

\* An action of a worker on the task of its job.
LEMMA WorkType ==
  ASSUME Types, Places, NEW j \in Jobs, pc[j] # "out"
  PROVE  task[j] \in Tasks /\ mem[task[j]] \in TaskRecord
BY DEF Types, Places, Labels

LEMMA TypesStep ==
  ASSUME Types, Places, Single, [Next]_vars
  PROVE  Types'
<1> USE ImageTasksAssumption
<1>1. CASE UNCHANGED vars
  BY <1>1 DEF vars, requests, work, closing, Types
<1>2. ASSUME NEW j \in Jobs, Ends(j)
      PROVE  Types'
  <2>1. task[j] \in Tasks
    BY <1>2 DEF Ends, Types
  <2>2. disk' \in [Tasks -> TaskRecord]
    <3>1. ASSUME NEW r \in TaskRecord, disk' = [mem EXCEPT ![task[j]] = r]
          PROVE  disk' \in [Tasks -> TaskRecord]
      BY <2>1, <3>1, MapType DEF Types
    <3>2. disk' = disk \/ disk' = mem
            \/ \E r \in TaskRecord : disk' = [mem EXCEPT ![task[j]] = r]
      BY <1>2 DEF Ends
    <3> QED BY <3>1, <3>2 DEF Types
  <2>3. UNCHANGED <<phase, mem, kind, pc, untold, dirty, boot, promise>>
    BY <1>2 DEF Ends, Leave, work, closing
  <2>4. slot' \in [Jobs -> Ledger!Status]
    BY <1>2 DEF Ends, Leave, GaveBack, Types, Ledger!Status
  <2>5. task' \in [Jobs -> Tasks \cup {None}] /\ entered' \subseteq Jobs
    BY <1>2 DEF Ends, Leave, Types
  <2> QED BY <2>2, <2>3, <2>4, <2>5 DEF Types
<1>3. ASSUME NEW j \in Jobs, Accepts(j)
      PROVE  Types'
  <2>1. task[j] \in Tasks
    BY <1>3 DEF Accepts, Types
  <2>2. mem' \in [Tasks -> TaskRecord] /\ disk' \in [Tasks -> TaskRecord]
    <3>1. PICK r \in TaskRecord : mem' = [mem EXCEPT ![task[j]] = r]
      BY <1>3 DEF Accepts
    <3>2. mem' \in [Tasks -> TaskRecord]
      BY <2>1, <3>1, MapType DEF Types
    <3> QED BY <1>3, <3>2 DEF Accepts
  <2>3. UNCHANGED <<phase, task, kind, pc, untold, dirty, boot>>
    BY <1>3 DEF Accepts, work, closing
  <2>4. slot' \in [Jobs -> Ledger!Status] /\ entered' \subseteq Jobs
        /\ promise' \in [Tasks -> {"none", "accepted", "result"}]
    BY <1>3 DEF Accepts, Types, Ledger!Status
  <2> QED BY <2>2, <2>3, <2>4 DEF Types
<1>4. ASSUME NEW j \in Jobs, NEW t \in Tasks, NEW k \in {"new", "resume"}, Ask(j, t, k)
      PROVE  Types'
  BY <1>4 DEF Ask, Types, work, closing
<1>5. ASSUME NEW j \in Jobs, Reserve(j)
      PROVE  Types'
  BY <1>5, LedgerSteps DEF Reserve, Types, requests, work, closing, Ledger!Status
<1>6. ASSUME NEW j \in Jobs, Enter(j)
      PROVE  Types'
  BY <1>6 DEF Enter, Types, work, closing
<1>7. ASSUME NEW j \in Jobs, Run(j)
      PROVE  Types'
  BY <1>7, LedgerSteps DEF Run, Goto, Types, Labels, requests, work, closing, Ledger!Status
<1>8. ASSUME NEW j \in Jobs, Begin(j) \/ Unreadable(j)
      PROVE  Types'
  BY <1>8 DEF Begin, Unreadable, Goto, Types, Labels, requests, closing
<1>9. ASSUME NEW j \in Jobs, MarkRunning(j)
      PROVE  Types'
  <2>1. task[j] \in Tasks /\ mem[task[j]] \in TaskRecord
    BY <1>9, WorkType DEF MarkRunning
  <2>2. [mem[task[j]] EXCEPT !.st = "running"] \in TaskRecord
    BY <2>1, Records
  <2>3. mem' \in [Tasks -> TaskRecord] /\ disk' \in [Tasks -> TaskRecord]
    BY <1>9, <2>1, <2>2, UpdateType DEF MarkRunning
  <2> QED BY <1>9, <2>3 DEF MarkRunning, Goto, Types, Labels, requests, closing
<1>10. ASSUME NEW j \in Jobs, Partial(j)
       PROVE  Types'
  BY <1>10 DEF Partial, Types, requests, work, closing
<1>11. ASSUME NEW j \in Jobs, Succeed(j)
       PROVE  Types'
  <2>1. task[j] \in Tasks /\ mem[task[j]] \in TaskRecord
    BY <1>11, WorkType DEF Succeed
  <2>2. Succeeded(mem[task[j]]) \in TaskRecord
    BY <2>1, Records
  <2>3. mem' \in [Tasks -> TaskRecord] /\ disk' \in [Tasks -> TaskRecord]
    BY <1>11, <2>1, <2>2, UpdateType DEF Succeed
  <2>4. promise' \in [Tasks -> {"none", "accepted", "result"}]
    <3>1. PICK ok \in Outcomes :
            promise' = [promise EXCEPT ![task[j]] =
                          IF ok THEN "result" ELSE @]
      BY <1>11 DEF Succeed
    <3> QED BY <2>1, <3>1 DEF Types
  <2>5. pc' \in [Jobs -> Labels \cup {"out"}]
    BY <1>11 DEF Succeed, Goto, Types, Labels
  <2>6. UNCHANGED <<phase, requests, executing, slot, closing, boot>>
    BY <1>11 DEF Succeed
  <2> QED BY <2>3, <2>4, <2>5, <2>6 DEF Types, requests, closing
<1>12. ASSUME NEW j \in Jobs, Fail(j)
       PROVE  Types'
  <2>1. task[j] \in Tasks /\ mem[task[j]] \in TaskRecord
    BY <1>12, WorkType DEF Fail
  <2>2. \A code \in {"timeout", "other"}, g \in BOOLEAN : Failed(mem[task[j]], code, g) \in TaskRecord
    BY <2>1, Records
  <2>3. mem' \in [Tasks -> TaskRecord] /\ disk' \in [Tasks -> TaskRecord]
    BY <1>12, <2>1, <2>2, UpdateType DEF Fail
  <2> QED BY <1>12, <2>3 DEF Fail, Goto, Types, Labels, requests, closing
<1>13. ASSUME NEW j \in Jobs, Broken(j)
       PROVE  Types'
  <2>1. task[j] \in Tasks /\ mem[task[j]] \in TaskRecord
    BY <1>13, WorkType DEF Broken
  <2>2. Failed(mem[task[j]], "other", FALSE) \in TaskRecord
    BY <2>1, Records
  <2>3. mem' \in [Tasks -> TaskRecord] /\ disk' \in [Tasks -> TaskRecord]
    BY <1>13, <2>1, <2>2, UpdateType DEF Broken
  <2> QED BY <1>13, <2>3 DEF Broken, Goto, Types, Labels, requests, closing
<1>14. ASSUME NEW j \in Jobs, End(j)
       PROVE  Types'
  BY <1>14, LedgerSteps DEF End, Goto, Types, closing, Ledger!Status
<1>15. ASSUME NEW j \in Jobs, Tell(j)
       PROVE  Types'
  <2>1. task[j] \in Tasks /\ mem[task[j]] \in TaskRecord
    BY <1>15 DEF Tell, Types, Places
  <2>2. Interrupted(mem[task[j]]) \in TaskRecord
    BY <2>1, Records
  <2>3. mem' \in [Tasks -> TaskRecord] /\ disk' \in [Tasks -> TaskRecord]
    BY <1>15, <2>1, <2>2, MapType DEF Tell, Write, Types
  <2> QED BY <1>15, <2>3 DEF Tell, Types, work
<1>16. CASE Close
  BY <1>16 DEF Close, Types, requests, work, Ledger!Status
<1>17. CASE Mark
  <2>1. \A t \in Tasks : MarkedAtEnd(t) \in TaskRecord
    BY Records DEF MarkedAtEnd, Types
  <2>2. mem' \in [Tasks -> TaskRecord]
    BY <1>17, <2>1 DEF Mark
  <2>3. disk' \in [Tasks -> TaskRecord]
    BY <1>17, <2>2 DEF Mark, Write, Types
  <2> QED BY <1>17, <2>2, <2>3 DEF Mark, Types, requests, work
<1>18. CASE Stop
  BY <1>18, Records DEF Stop, Types, Ledger!Status, Absent, Record, TaskRecord
<1>19. CASE Boot
  BY <1>19, RecoveredType DEF Boot, Types, requests, work, closing
<1>20. ASSUME NEW t \in Tasks, Expire(t)
       PROVE  Types'
  <2>1. Absent \in TaskRecord
    BY DEF Absent, Record, TaskRecord
  <2>2. mem' \in [Tasks -> TaskRecord] /\ disk' \in [Tasks -> TaskRecord]
    BY <1>20, <2>1, MapType DEF Expire, Write, Types
  <2> QED BY <1>20, <2>2 DEF Expire, Types, requests, work, closing
<1> QED BY <1>1, <1>2, <1>3, <1>4, <1>5, <1>6, <1>7, <1>8, <1>9, <1>10, <1>11, <1>12,
           <1>13, <1>14, <1>15, <1>16, <1>17, <1>18, <1>19, <1>20, Cases
-----------------------------------------------------------------------------
(* Places.                                                                 *)

\* The steps of a callback between its start and its end move its label only.
Moves(j) ==
  /\ pc[j] # "out"
  /\ \E l \in Labels : pc' = [pc EXCEPT ![j] = l]
  /\ UNCHANGED <<phase, entered, task, kind, slot, untold>>

LEMMA MovesCases ==
  ASSUME NEW j \in Jobs,
         \/ Begin(j) \/ Unreadable(j) \/ MarkRunning(j) \/ Succeed(j)
         \/ Fail(j) \/ Broken(j)
  PROVE  Moves(j)
<1>1. CASE Begin(j) \/ Unreadable(j)
  BY <1>1 DEF Begin, Unreadable, Moves, Goto, Labels, requests, closing
<1>2. CASE MarkRunning(j)
  BY <1>2 DEF MarkRunning, Moves, Goto, Labels, requests, closing
<1>3. CASE Succeed(j)
  BY <1>3 DEF Succeed, Moves, Goto, Labels, requests, closing
<1>4. CASE Fail(j)
  BY <1>4 DEF Fail, Moves, Goto, Labels, requests, closing
<1>5. CASE Broken(j)
  BY <1>5 DEF Broken, Moves, Goto, Labels, requests, closing
<1> QED BY <1>1, <1>2, <1>3, <1>4, <1>5

LEMMA PlacesStep ==
  ASSUME Types, Places, Single, [Next]_vars
  PROVE  Places'
<1> USE ImageTasksAssumption DEF AtRest
<1>1. CASE UNCHANGED vars
  BY <1>1 DEF vars, requests, work, closing, Places
<1>2. ASSUME NEW j \in Jobs, Ends(j)
      PROVE  Places'
  <2>1. /\ UNCHANGED <<pc, kind, untold, executing, phase>>
        /\ slot' = [slot EXCEPT ![j] = IF @ = "reserved" THEN "released" ELSE @]
        /\ task' = [task EXCEPT ![j] = None]
        /\ entered' = entered \ {j} /\ slot[j] \in AtRest
    BY <1>2 DEF Ends, Leave, GaveBack, work, closing
  <2>2. /\ slot'[j] \in AtRest /\ task'[j] = None /\ j \notin entered' /\ j \notin untold
        /\ slot'[j] # "reserved"
        /\ slot[j] = "idle" => slot'[j] = "idle"
    BY <2>1 DEF Places, Types
  <2>3. \A i \in Jobs : i # j => /\ slot'[i] = slot[i] /\ task'[i] = task[i]
                                /\ (i \in entered' <=> i \in entered)
    BY <2>1 DEF Types
  <2>4. pc[j] = "out" /\ (phase = "down" => slot[j] = "idle")
    BY <2>1 DEF Places
  <2>5. UNCHANGED mem
    BY <1>2 DEF Ends
  <2> QED BY <2>1, <2>2, <2>3, <2>4, <2>5 DEF Places
<1>3. ASSUME NEW j \in Jobs, Accepts(j)
      PROVE  Places'
  <2>1. /\ task[j] # None /\ slot[j] = "reserved"
        /\ slot' = [slot EXCEPT ![j] = "pending"] /\ entered' = entered \ {j}
        /\ UNCHANGED <<phase, task, kind, pc, untold>>
    BY <1>3 DEF Accepts, work, closing
  <2> QED BY <2>1 DEF Places, Types
<1>4. ASSUME NEW j \in Jobs, NEW t \in Tasks, NEW k \in {"new", "resume"}, Ask(j, t, k)
      PROVE  Places'
  BY <1>4 DEF Ask, Up, Places, Types, work, closing
<1>5. ASSUME NEW j \in Jobs, Reserve(j)
      PROVE  Places'
  <2>1. slot[j] = "idle" /\ slot' = [slot EXCEPT ![j] = "reserved"]
    BY <1>5, LedgerSteps DEF Reserve
  <2> QED BY <1>5, <2>1 DEF Reserve, Places, Types, requests, work, closing
<1>6. ASSUME NEW j \in Jobs, Enter(j)
      PROVE  Places'
  BY <1>6 DEF Enter, Places, Types, work, closing
<1>7. ASSUME NEW j \in Jobs, Run(j)
      PROVE  Places'
  <2>1. slot[j] = "pending" /\ slot' = [slot EXCEPT ![j] = "running"]
    BY <1>7, LedgerSteps DEF Run
  <2> QED BY <1>7, <2>1 DEF Run, Goto, Places, Types, Labels, requests, closing
<1>8. ASSUME NEW j \in Jobs, Moves(j)
      PROVE  Places'
  <2>1. PICK l \in Labels : pc' = [pc EXCEPT ![j] = l]
    BY <1>8 DEF Moves
  <2>2. phase # "down" /\ l # "out" /\ slot[j] = "running"
    BY <1>8 DEF Moves, Places, Labels
  <2> QED BY <1>8, <2>1, <2>2 DEF Moves, Places, Types
<1>9. ASSUME NEW j \in Jobs, Partial(j)
      PROVE  Places'
  BY <1>9 DEF Partial, Places, requests, work, closing
<1>10. ASSUME NEW j \in Jobs, End(j)
       PROVE  Places'
  <2>1. slot[j] = "running" /\ slot' = [slot EXCEPT ![j] = "finished"]
    BY <1>10, LedgerSteps DEF End
  <2> QED BY <1>10, <2>1 DEF End, Goto, Places, Types, Labels, closing
<1>11. ASSUME NEW j \in Jobs, Tell(j)
       PROVE  Places'
  <2>1. /\ j \in untold /\ untold' = untold \ {j} /\ task' = [task EXCEPT ![j] = None]
        /\ UNCHANGED <<phase, entered, kind, pc, slot>>
    BY <1>11 DEF Tell, work
  <2> QED BY <2>1 DEF Places, Types
<1>12. CASE Close
  BY <1>12 DEF Close, Places, Types, requests, work
<1>13. CASE Mark
  <2>1. /\ phase = "closing" /\ phase' = "stopped"
        /\ UNCHANGED <<entered, task, kind, pc, slot, untold>>
    BY <1>13 DEF Mark, requests, work
  <2>2. ~Hurried => \A j \in Jobs : slot[j] # "running" /\ j \notin untold
    BY <1>13 DEF Mark, Joined, Ledger!WithStatus
  <2> QED BY <2>1, <2>2 DEF Places
<1>14. CASE Stop
  BY <1>14 DEF Stop, Places
<1>15. CASE Boot
  BY <1>15 DEF Boot, Places, requests, work, closing
<1>16. ASSUME NEW t \in Tasks, Expire(t)
       PROVE  Places'
  BY <1>16 DEF Expire, Up, Places, requests, work, closing
<1> QED BY <1>1, <1>2, <1>3, <1>4, <1>5, <1>6, <1>7, <1>8, <1>9, <1>10, <1>11, <1>12,
           <1>13, <1>14, <1>15, <1>16, Cases, MovesCases

-----------------------------------------------------------------------------
(* Keys.                                                                   *)

Holding == {"claimed", "running", "failing", "broken", "over"}

LEMMA KeysStep ==
  ASSUME Types, Places, Single, Keys, [Next]_vars
  PROVE  Keys'
<1> USE ImageTasksAssumption
<1>1. ASSUME UNCHANGED executing,
             \A j \in Jobs : pc[j] \in Holding => pc'[j] \in Holding /\ task'[j] = task[j]
      PROVE  Keys'
  BY <1>1 DEF Keys, Holding
<1>2. CASE UNCHANGED <<executing, pc, task>>
  BY <1>1, <1>2
<1>3. ASSUME NEW j \in Jobs, slot[j] # "running", UNCHANGED <<executing, pc>>,
             task' = [task EXCEPT ![j] = None]
      PROVE  Keys'
  BY <1>1, <1>3 DEF Types, Places, Holding
<1>4. ASSUME NEW j \in Jobs, Ends(j) \/ Tell(j)
      PROVE  Keys'
  <2>1. slot[j] # "running" /\ task' = [task EXCEPT ![j] = None] /\ UNCHANGED work
    BY <1>4 DEF Ends, Leave, Tell, AtRest, Places
  <2> QED BY <1>3, <2>1 DEF work
<1>5. ASSUME NEW j \in Jobs, Accepts(j) \/ Reserve(j) \/ Enter(j) \/ Partial(j)
      PROVE  Keys'
  BY <1>2, <1>5 DEF Accepts, Reserve, Enter, Partial, requests, work
<1>6. ASSUME NEW j \in Jobs, NEW t \in Tasks, NEW k \in {"new", "resume"}, Ask(j, t, k)
      PROVE  Keys'
  BY <1>1, <1>6 DEF Ask, Types, Places, Holding, work
<1>7. ASSUME NEW j \in Jobs, Run(j)
      PROVE  Keys'
  BY <1>1, <1>7, LedgerSteps DEF Run, Goto, Types, Places, Holding, requests
<1>8. ASSUME NEW j \in Jobs, Begin(j)
      PROVE  Keys'
  BY <1>8 DEF Begin, Goto, Types, Keys, requests
<1>9. ASSUME NEW j \in Jobs, NEW l \in Holding, pc' = [pc EXCEPT ![j] = l],
             UNCHANGED <<executing, task>>
      PROVE  Keys'
  BY <1>1, <1>9 DEF Types
<1>10. ASSUME NEW j \in Jobs,
              Unreadable(j) \/ MarkRunning(j) \/ Succeed(j) \/ Fail(j) \/ Broken(j)
       PROVE  Keys'
  <2>1. \E l \in Holding : pc' = [pc EXCEPT ![j] = l]
    <3>1. CASE Unreadable(j) \/ Broken(j)
      BY <3>1 DEF Unreadable, Broken, Goto, Holding
    <3>2. CASE MarkRunning(j)
      BY <3>2 DEF MarkRunning, Goto, Holding
    <3>3. CASE Succeed(j)
      BY <3>3 DEF Succeed, Goto, Holding
    <3>4. CASE Fail(j)
      BY <3>4 DEF Fail, Goto, Holding
    <3> QED BY <1>10, <3>1, <3>2, <3>3, <3>4
  <2>2. UNCHANGED <<executing, task>>
    BY <1>10 DEF Unreadable, MarkRunning, Succeed, Fail, Broken, requests
  <2> QED BY <1>9, <2>1, <2>2
<1>11. ASSUME NEW j \in Jobs, End(j)
       PROVE  Keys'
  BY <1>11 DEF End, Goto, KeyDiscarded, Types, Keys
<1>12. CASE Close \/ Mark \/ Boot \/ \E t \in Tasks : Expire(t)
  BY <1>2, <1>12 DEF Close, Mark, Boot, Expire, requests, work
<1>13. CASE Stop
  BY <1>13 DEF Stop, Keys
<1>14. CASE UNCHANGED vars
  BY <1>2, <1>14 DEF vars, requests, work
<1> QED BY <1>4, <1>5, <1>6, <1>7, <1>8, <1>10, <1>11, <1>12, <1>13, <1>14, Cases
-----------------------------------------------------------------------------
(* Single.                                                                 *)

AtWork(j) == slot[j] \in {"pending", "running"} \/ j \in untold

LEMMA LiveAtWork ==
  ASSUME Types, Places, NEW j \in Jobs
  PROVE  /\ Live(j) => AtWork(j)
         /\ AtWork(j) => task[j] \in Tasks /\ phase # "down"
         /\ pc[j] # "out" => AtWork(j)
         /\ slot[j] \in AtRest => ~AtWork(j)
BY DEF Types, Places, Live, AtWork, AtRest

\* A step after which every job is live, at work or entered only if it was,
\* for the same task, and which changes at most one task, that of a job at
\* work; it may leave the task timed out if no job of the task is live then.
LEMMA SingleKept ==
  ASSUME Types, Places, Single, NEW t,
         \A i \in Jobs : Live(i)' => Live(i) /\ task'[i] = task[i],
         \A i \in Jobs : AtWork(i)' => AtWork(i) /\ task'[i] = task[i],
         \A i \in entered' : i \in entered /\ task'[i] = task[i],
         \A u \in Tasks : u # t => mem'[u] = mem[u],
         t \in Tasks => \/ mem'[t] = mem[t]
                        \/ /\ mem'[t].st # "none"
                           /\ \E j \in Jobs : AtWork(j) /\ task[j] = t
                           /\ TimedOut(t)' => \A i \in Jobs : Live(i)' => task[i] # t
  PROVE  Single'
<1>1. \A i \in entered : task[i] \in Tasks /\ i \in Jobs
  BY DEF Types, Places
<1>2. \A i \in Jobs : AtWork(i) => task[i] \in Tasks /\ mem[task[i]].st # "none"
  BY LiveAtWork DEF Single, AtWork
<1>3. \A i, j \in Jobs : Live(i)' /\ Live(j)' /\ task'[i] = task'[j] => i = j
  BY DEF Single
<1>4. \A i, j \in entered' : task'[i] = task'[j] => i = j
  BY DEF Single
<1>5. \A i \in Jobs : Live(i)' => ~TimedOut(task[i])'
  <2> SUFFICES ASSUME NEW i \in Jobs, Live(i)'
               PROVE  ~(mem'[task'[i]].st = "error" /\ mem'[task'[i]].code = "timeout")
    BY DEF TimedOut
  <2>1. Live(i) /\ task'[i] = task[i] /\ task[i] \in Tasks /\ ~TimedOut(task[i])
    BY LiveAtWork DEF Single
  <2>2. CASE mem'[task[i]] = mem[task[i]]
    BY <2>1, <2>2 DEF TimedOut
  <2>3. CASE task[i] = t /\ ~TimedOut(t)'
    BY <2>1, <2>3 DEF TimedOut
  <2> QED BY <2>1, <2>2, <2>3
<1>6. \A i \in Jobs : AtWork(i)' => mem'[task'[i]].st # "none"
  BY <1>2
<1>7. \A i \in entered' : mem'[task'[i]].st = "none"
  <2> SUFFICES ASSUME NEW i \in entered'
               PROVE  mem'[task[i]].st = "none"
    OBVIOUS
  <2>1. mem[task[i]].st = "none" /\ task[i] \in Tasks
    BY <1>1 DEF Single
  <2> QED BY <2>1, <1>2
<1> QED BY <1>3, <1>4, <1>5, <1>6, <1>7 DEF Single, AtWork

\* Making a submission or a resume a job of the runner.
LEMMA SingleAccepts ==
  ASSUME Types, Places, Single, NEW j \in Jobs, Accepts(j)
  PROVE  Single'
<1> DEFINE t == task[j]
<1>1. /\ t \in Tasks /\ slot[j] = "reserved"
      /\ slot' = [slot EXCEPT ![j] = "pending"] /\ entered' = entered \ {j}
      /\ UNCHANGED <<phase, task, kind, pc, untold>>
      /\ (j \in entered /\ mem[t].st = "none") \/ TimedOut(t)
  BY DEF Accepts, Types, work, closing, Resumable, TimedOut
<1>2. PICK r \in TaskRecord : mem' = [mem EXCEPT ![t] = r] /\ r.st = "queued"
  BY DEF Accepts
<1>3. mem'[t].st = "queued" /\ \A u \in Tasks : u # t => mem'[u] = mem[u]
  BY <1>1, <1>2 DEF Types
<1>4. \A i \in Jobs : Live(i) => task[i] # t
  <2>1. \A i \in Jobs : Live(i) => ~TimedOut(task[i]) /\ mem[task[i]].st # "none"
    BY LiveAtWork DEF Single, AtWork
  <2> QED BY <1>1, <2>1
<1>5. \A i \in entered : i # j => task[i] # t /\ task[i] \in Tasks
  BY <1>1 DEF Single, TimedOut, Types, Places
<1>6. \A i \in Jobs : i # j => /\ Live(i)' <=> Live(i)
                               /\ AtWork(i)' <=> AtWork(i)
  BY <1>1 DEF Live, AtWork, Types
<1>7. \A i \in Jobs : AtWork(i) => task[i] \in Tasks /\ mem[task[i]].st # "none"
  BY LiveAtWork DEF Single, AtWork
<1>8. \A i, k \in Jobs : Live(i)' /\ Live(k)' /\ task'[i] = task'[k] => i = k
  BY <1>1, <1>4, <1>6 DEF Single
<1>9. \A i, k \in entered' : task'[i] = task'[k] => i = k
  BY <1>1 DEF Single
<1>10. \A i \in Jobs : Live(i)' => ~TimedOut(task[i])'
  <2> SUFFICES ASSUME NEW i \in Jobs, Live(i)'
               PROVE  ~(mem'[task[i]].st = "error" /\ mem'[task[i]].code = "timeout")
    BY <1>1 DEF TimedOut
  <2>1. CASE i = j
    BY <1>3, <2>1
  <2>2. CASE i # j
    <3>1. Live(i) /\ task[i] # t /\ task[i] \in Tasks /\ ~TimedOut(task[i])
      BY <2>2, <1>4, <1>6, LiveAtWork DEF Single
    <3> QED BY <3>1, <1>3 DEF TimedOut
  <2> QED BY <2>1, <2>2
<1>11. \A i \in Jobs : AtWork(i)' => mem'[task'[i]].st # "none"
  BY <1>1, <1>3, <1>6, <1>7
<1>12. \A i \in entered' : mem'[task'[i]].st = "none"
  BY <1>1, <1>3, <1>5 DEF Single
<1> QED BY <1>8, <1>9, <1>10, <1>11, <1>12 DEF Single, AtWork

\* Entering a submission: the task does not exist and nobody else is at it.
LEMMA SingleEnter ==
  ASSUME Types, Places, Single, NEW j \in Jobs, Enter(j)
  PROVE  Single'
<1>0. mem[task[j]] = Absent /\ Absent.st = "none"
  BY DEF Enter, Absent, Record
<1>1. /\ entered' = entered \cup {j} /\ mem[task[j]].st = "none"
      /\ \A i \in entered : task[i] # task[j]
      /\ UNCHANGED <<phase, mem, task, pc, slot, untold>>
  BY <1>0 DEF Enter, Unentered, work, closing
<1>2. \A i \in Jobs : Live(i)' <=> Live(i)
  BY <1>1 DEF Live
<1>3. \A t : TimedOut(t)' <=> TimedOut(t)
  BY <1>1 DEF TimedOut
<1>4. \A i \in Jobs : Live(i)' => ~TimedOut(task[i])'
  BY <1>1, <1>2, <1>3 DEF Single, TimedOut
<1> QED BY <1>1, <1>2, <1>4 DEF Single

\* The steps of a callback.
LEMMA SingleWork ==
  ASSUME Types, Places, Single, NEW j \in Jobs,
         Unreadable(j) \/ MarkRunning(j) \/ Succeed(j) \/ Fail(j) \/ Broken(j) \/ Begin(j)
  PROVE  Single'
<1>0. PICK t : t = task[j]
  OBVIOUS
<1> USE <1>0
<1>1. /\ Moves(j) /\ pc[j] \in Labels
  BY MovesCases DEF Unreadable, MarkRunning, Succeed, Fail, Broken, Begin, Labels
<1>2. AtWork(j) /\ t \in Tasks /\ mem[t] \in TaskRecord
  BY <1>1, LiveAtWork, WorkType DEF Moves
<1>3. UNCHANGED <<phase, entered, task, kind, slot, untold>>
  BY <1>1 DEF Moves
<1>4. \A i \in Jobs : i # j => pc'[i] = pc[i]
  BY <1>1 DEF Moves, Types
<1>5. \A i \in Jobs : AtWork(i)' <=> AtWork(i)
  BY <1>3 DEF AtWork
<1>6. \A i \in Jobs : i # j => (Live(i)' <=> Live(i))
  BY <1>3, <1>4 DEF Live
<1>7. Live(j)' => Live(j)
  <2>1. pc[j] \in {"started", "claimed", "running", "failing"} \/ pc'[j] \in {"broken", "over"}
    BY DEF Unreadable, MarkRunning, Succeed, Fail, Broken, Begin, Goto, Types
  <2>2. slot[j] = "running" /\ j \notin untold
    BY <1>1 DEF Moves, Places
  <2> QED BY <2>1, <2>2, <1>3 DEF Live
<1>8. \A u \in Tasks : u # t => mem'[u] = mem[u]
  BY DEF Unreadable, MarkRunning, Succeed, Fail, Broken, Begin, Update, Types
<1>9. \/ mem'[t] = mem[t]
      \/ mem'[t].st # "none" /\ ~TimedOut(t)'
      \/ mem'[t].st # "none" /\ Live(j) /\ ~Live(j)'
  <2>1. CASE Unreadable(j) \/ Begin(j)
    BY <2>1 DEF Unreadable, Begin
  <2>2. CASE MarkRunning(j)
    <3>1. mem'[t] = [mem[t] EXCEPT !.st = "running"]
      BY <2>2, <1>2 DEF MarkRunning, Update, Types
    <3>2. mem'[t].st = "running"
      BY <3>1, <1>2 DEF TaskRecord
    <3> QED BY <3>2, <1>3 DEF TimedOut
  <2>3. CASE Succeed(j)
    <3>1. mem'[t] = Succeeded(mem[t])
      BY <2>3, <1>2 DEF Succeed, Update, Types
    <3>2. Succeeded(mem[t]).st = "success"
      BY <1>2, Records
    <3>3. mem'[t].st = "success"
      BY <3>1, <3>2
    <3> QED BY <3>3, <1>3 DEF TimedOut
  <2>4. CASE Fail(j)
    <3>1. PICK code \in {"timeout", "other"} :
            /\ \E g \in BOOLEAN : mem'[t] = Failed(mem[t], code, g)
            /\ pc[j] = "failing" => code = "other"
      BY <2>4, <1>2 DEF Fail, Update, Types
    <3>2. \A c \in {"timeout", "other"}, g \in BOOLEAN :
            Failed(mem[t], c, g).st = "error" /\ Failed(mem[t], c, g).code = c
      BY DEF Failed, Record
    <3>5. mem'[t].st = "error" /\ mem'[t].code = code
      BY <3>1, <3>2
    <3>3. CASE code = "other"
      BY <3>5, <3>3, <1>3 DEF TimedOut
    <3>4. CASE pc[j] = "running"
      <4>1. pc'[j] \in {"over", "broken"} /\ slot[j] = "running" /\ j \notin untold
        BY <2>4, <1>1 DEF Fail, Goto, Types, Moves, Places
      <4> QED BY <3>5, <3>4, <4>1, <1>3 DEF Live
    <3> QED BY <2>4, <3>1, <3>3, <3>4 DEF Fail
  <2>5. CASE Broken(j)
    <3>1. mem'[t] = Failed(mem[t], "other", FALSE)
      BY <2>5, <1>2 DEF Broken, Update, Types
    <3>2. LET r == Failed(mem[t], "other", FALSE) IN r.st = "error" /\ r.code = "other"
      BY <1>2, Records
    <3>3. mem'[t].st = "error" /\ mem'[t].code = "other"
      BY <3>1, <3>2
    <3> QED BY <3>3, <1>3 DEF TimedOut
  <2> QED BY <2>1, <2>2, <2>3, <2>4, <2>5
<1>10. Live(j) /\ ~Live(j)' => \A i \in Jobs : Live(i)' => task[i] # t
  BY <1>6 DEF Single
<1>11. t \in Tasks => \/ mem'[t] = mem[t]
                      \/ /\ mem'[t].st # "none"
                         /\ \E k \in Jobs : AtWork(k) /\ task[k] = t
                         /\ TimedOut(t)' => \A i \in Jobs : Live(i)' => task[i] # t
  BY <1>2, <1>9, <1>10
<1>12. \A i \in Jobs : Live(i)' => Live(i) /\ task'[i] = task[i]
  BY <1>3, <1>6, <1>7
<1>13. \A i \in Jobs : AtWork(i)' => AtWork(i) /\ task'[i] = task[i]
  BY <1>3, <1>5
<1>14. \A i \in entered' : i \in entered /\ task'[i] = task[i]
  BY <1>3
<1> QED BY <1>8, <1>11, <1>12, <1>13, <1>14, SingleKept
LEMMA SingleStep ==
  ASSUME Types, Places, Single, [Next]_vars
  PROVE  Single'
<1> USE ImageTasksAssumption
<1>1. ASSUME \A i \in Jobs : Live(i)' => Live(i) /\ task'[i] = task[i],
             \A i \in Jobs : AtWork(i)' => AtWork(i) /\ task'[i] = task[i],
             \A i \in entered' : i \in entered /\ task'[i] = task[i],
             UNCHANGED mem
      PROVE  Single'
  <2>1. PICK t : t = None
    OBVIOUS
  <2> QED BY <1>1, <2>1, SingleKept
<1>2. CASE UNCHANGED <<slot, untold, pc, task, entered, mem>>
  BY <1>1, <1>2 DEF Live, AtWork
<1>3. ASSUME NEW j \in Jobs, Ends(j)
      PROVE  Single'
  <2>1. /\ slot[j] \in AtRest /\ slot'[j] \in AtRest
        /\ \A i \in Jobs : i # j => slot'[i] = slot[i] /\ task'[i] = task[i]
        /\ entered' = entered \ {j} /\ UNCHANGED <<pc, untold, mem>>
    BY <1>3 DEF Ends, Leave, GaveBack, Types, AtRest, work, closing
  <2>2. pc[j] = "out" /\ j \notin untold
    BY <2>1 DEF Places, AtRest
  <2>3. ~Live(j)' /\ ~AtWork(j)'
    BY <2>1, <2>2 DEF Live, AtWork, AtRest
  <2>4. \A i \in Jobs : i # j => (Live(i)' <=> Live(i)) /\ (AtWork(i)' <=> AtWork(i))
    BY <2>1 DEF Live, AtWork
  <2>5. \A i \in entered' : i \in entered /\ i \in Jobs /\ i # j
    BY <2>1 DEF Types
  <2> QED BY <1>1, <2>1, <2>3, <2>4, <2>5
<1>4. ASSUME NEW j \in Jobs, NEW t \in Tasks, NEW k \in {"new", "resume"}, Ask(j, t, k)
      PROVE  Single'
  <2>1. /\ task[j] = None /\ slot[j] = "idle"
        /\ \A i \in Jobs : i # j => task'[i] = task[i]
        /\ UNCHANGED <<slot, pc, untold, entered, mem>>
    BY <1>4 DEF Ask, Types, work, closing
  <2>2. ~Live(j)' /\ ~AtWork(j)' /\ j \notin entered'
    BY <2>1 DEF Live, AtWork, Places
  <2>3. \A i \in Jobs : (Live(i)' => Live(i)) /\ (AtWork(i)' => AtWork(i))
    BY <2>1 DEF Live, AtWork
  <2>4. entered' \subseteq Jobs
    BY <2>1 DEF Types
  <2> QED BY <1>1, <2>1, <2>2, <2>3, <2>4
<1>5. ASSUME NEW j \in Jobs, Reserve(j)
      PROVE  Single'
  <2>1. slot[j] = "idle" /\ slot' = [slot EXCEPT ![j] = "reserved"]
    BY <1>5, LedgerSteps DEF Reserve
  <2>2. UNCHANGED <<pc, untold, entered, task, mem>>
    BY <1>5 DEF Reserve, requests, work, closing
  <2> QED BY <1>1, <2>1, <2>2 DEF Live, AtWork, Types
<1>6. ASSUME NEW j \in Jobs, Run(j)
      PROVE  Single'
  <2>1. slot[j] = "pending" /\ slot' = [slot EXCEPT ![j] = "running"]
    BY <1>6, LedgerSteps DEF Run
  <2>2. pc' = [pc EXCEPT ![j] = "started"] /\ UNCHANGED <<untold, entered, task, mem>>
    BY <1>6 DEF Run, Goto, requests, closing
  <2> QED BY <1>1, <2>1, <2>2 DEF Live, AtWork, Types
<1>7. ASSUME NEW j \in Jobs, Partial(j)
      PROVE  Single'
  BY <1>2, <1>7 DEF Partial, requests, work, closing
<1>8. ASSUME NEW j \in Jobs, End(j)
      PROVE  Single'
  <2>1. slot[j] = "running" /\ slot' = [slot EXCEPT ![j] = "finished"]
    BY <1>8, LedgerSteps DEF End
  <2>2. /\ pc' = [pc EXCEPT ![j] = "out"] /\ task' = [task EXCEPT ![j] = None]
        /\ UNCHANGED <<untold, entered, mem>>
    BY <1>8 DEF End, Goto, closing
  <2>3. j \notin untold /\ j \notin entered /\ entered \subseteq Jobs
    BY <2>1 DEF Places, AtRest, Types
  <2>4. ~Live(j)' /\ ~AtWork(j)'
    BY <2>1, <2>2, <2>3 DEF Live, AtWork, Types
  <2>5. \A i \in Jobs : i # j => /\ (Live(i)' <=> Live(i)) /\ (AtWork(i)' <=> AtWork(i))
                                 /\ task'[i] = task[i]
    BY <2>1, <2>2 DEF Live, AtWork, Types
  <2> QED BY <1>1, <2>2, <2>3, <2>4, <2>5
<1>9. ASSUME NEW j \in Jobs, Tell(j)
      PROVE  Single'
  <2>0. PICK t : t = task[j]
    OBVIOUS
  <2>1. /\ j \in untold /\ untold' = untold \ {j} /\ task' = [task EXCEPT ![j] = None]
        /\ UNCHANGED <<entered, pc, slot>>
    BY <1>9 DEF Tell, work
  <2>2. /\ slot[j] = "cancelled" /\ pc[j] = "out" /\ j \notin entered
        /\ entered \subseteq Jobs /\ t \in Tasks /\ mem[t] \in TaskRecord /\ AtWork(j)
    BY <2>0, <2>1 DEF Places, AtRest, Types, AtWork
  <2>3. ~Live(j)' /\ ~AtWork(j)'
    BY <2>1, <2>2 DEF Live, AtWork
  <2>4. \A i \in Jobs : i # j => /\ (Live(i)' <=> Live(i)) /\ (AtWork(i)' <=> AtWork(i))
                                 /\ task'[i] = task[i]
    BY <2>1 DEF Live, AtWork, Types
  <2>5. \A u \in Tasks : u # t => mem'[u] = mem[u]
    BY <1>9, <2>0 DEF Tell, Types
  <2>6. mem'[t] = mem[t] \/ (mem'[t].st # "none" /\ ~TimedOut(t)')
    <3>1. mem'[t] = mem[t] \/ mem'[t] = Interrupted(mem[t])
      BY <1>9, <2>0, <2>2 DEF Tell, Types
    <3>2. Interrupted(mem[t]).st = "error" /\ Interrupted(mem[t]).code = "interrupted"
      BY DEF Interrupted, Record
    <3> QED BY <3>1, <3>2 DEF TimedOut
  <2>7. \A i \in Jobs : Live(i)' => Live(i) /\ task'[i] = task[i]
    BY <2>3, <2>4
  <2>8. \A i \in Jobs : AtWork(i)' => AtWork(i) /\ task'[i] = task[i]
    BY <2>3, <2>4
  <2>9. \A i \in entered' : i \in entered /\ task'[i] = task[i]
    BY <2>1, <2>2, <2>4
  <2>10. \E k \in Jobs : AtWork(k) /\ task[k] = t
    BY <2>0, <2>2
  <2> QED BY <2>5, <2>6, <2>7, <2>8, <2>9, <2>10, SingleKept
<1>10. CASE Close
  <2>1. \A i \in Jobs : /\ slot[i] = "pending" => i \in untold'
                        /\ i \in untold' => slot[i] = "pending"
                        /\ slot'[i] \in {"pending", "running"} => slot[i] = slot'[i]
    BY <1>10 DEF Close, Types
  <2>2. UNCHANGED <<pc, task, entered, mem>>
    BY <1>10 DEF Close, requests, work
  <2> QED BY <1>1, <2>1, <2>2 DEF Live, AtWork
<1>11. CASE Mark
  <2>1. UNCHANGED <<slot, untold, pc, task, entered>>
    BY <1>11 DEF Mark, requests, work
  <2>2. \A t \in Tasks : mem'[t] = mem[t] \/ (mem[t].st = "queued" /\ mem'[t] = Interrupted(mem[t]))
    BY <1>11 DEF Mark, MarkedAtEnd, NotStarted
  <2>3. \A r : Interrupted(r).st = "error" /\ Interrupted(r).code = "interrupted"
    BY DEF Interrupted, Record
  <2>4. \A t \in Tasks : /\ mem'[t].st = "none" <=> mem[t].st = "none"
                         /\ TimedOut(t)' => TimedOut(t)
    BY <2>2, <2>3 DEF TimedOut
  <2>5. \A i \in Jobs : (Live(i)' <=> Live(i)) /\ (Live(i) => task[i] \in Tasks)
    BY <2>1, LiveAtWork DEF Live
  <2>6. \A i \in Jobs : AtWork(i) => task[i] \in Tasks
    BY LiveAtWork
  <2>7. \A i \in entered : task[i] \in Tasks
    BY DEF Types, Places
  <2>8. \A i \in Jobs : Live(i)' => ~TimedOut(task[i])'
    <3> SUFFICES ASSUME NEW i \in Jobs, Live(i)
                 PROVE  ~(mem'[task[i]].st = "error" /\ mem'[task[i]].code = "timeout")
      BY <2>1, <2>5 DEF TimedOut
    <3>1. task[i] \in Tasks /\ ~(mem[task[i]].st = "error" /\ mem[task[i]].code = "timeout")
      BY <2>5 DEF Single, TimedOut
    <3> QED BY <3>1, <2>2, <2>3
  <2>9. \A i \in Jobs : AtWork(i)' => mem'[task'[i]].st # "none"
    BY <2>1, <2>4, <2>6 DEF Single, AtWork
  <2>10. \A i \in entered' : mem'[task'[i]].st = "none"
    BY <2>1, <2>4, <2>7 DEF Single
  <2> QED BY <2>1, <2>5, <2>8, <2>9, <2>10 DEF Single, AtWork
<1>12. CASE Stop
  BY <1>12 DEF Stop, Single, Live
<1>13. CASE Boot
  <2>1. \A i \in Jobs : ~Live(i) /\ ~AtWork(i) /\ i \notin entered
    BY <1>13 DEF Boot, Places, Live, AtWork
  <2>2. UNCHANGED <<slot, untold, pc, task, entered>>
    BY <1>13 DEF Boot, requests, work, closing
  <2>3. \A i \in Jobs : ~Live(i)' /\ ~AtWork(i)'
    BY <2>1, <2>2 DEF Live, AtWork
  <2>4. entered' = {}
    BY <2>1, <2>2 DEF Types
  <2> QED BY <2>3, <2>4 DEF Single, AtWork
<1>14. ASSUME NEW t \in Tasks, Expire(t)
       PROVE  Single'
  <2>1. UNCHANGED <<slot, untold, pc, task, entered>>
    BY <1>14 DEF Expire, requests, work, closing
  <2>2. mem' = [mem EXCEPT ![t] = Absent] /\ Absent.st = "none"
    BY <1>14 DEF Expire, Absent, Record
  <2>3. \A i \in Jobs : AtWork(i) => task[i] # t /\ task[i] \in Tasks
    <3>1. \A i \in Jobs : task[i] = t => slot[i] \notin {"pending", "running", "cancelled"}
      BY <1>14 DEF Expire, Working
    <3> QED BY <3>1, LiveAtWork DEF AtWork, Places
  <2>4. \A i \in Jobs : AtWork(i) => mem'[task[i]] = mem[task[i]]
    BY <2>2, <2>3 DEF Types
  <2>5. \A i \in entered : mem'[task[i]].st = "none"
    BY <2>2 DEF Types, Places, Single
  <2>6. \A i \in Jobs : (Live(i)' <=> Live(i)) /\ (AtWork(i)' <=> AtWork(i))
    BY <2>1 DEF Live, AtWork
  <2>7. \A i \in Jobs : Live(i)' => ~TimedOut(task[i])'
    <3> SUFFICES ASSUME NEW i \in Jobs, Live(i)
                 PROVE  ~(mem'[task[i]].st = "error" /\ mem'[task[i]].code = "timeout")
      BY <2>1, <2>6 DEF TimedOut
    <3>1. ~(mem[task[i]].st = "error" /\ mem[task[i]].code = "timeout")
      BY DEF Single, TimedOut
    <3> QED BY <3>1, <2>4, LiveAtWork
  <2>8. \A i \in Jobs : AtWork(i)' => mem'[task'[i]].st # "none"
    BY <2>1, <2>4, <2>6 DEF Single, AtWork
  <2> QED BY <2>1, <2>5, <2>6, <2>7, <2>8 DEF Single, AtWork
<1>15. CASE UNCHANGED vars
  BY <1>2, <1>15 DEF vars, requests, work, closing
<1>16. ASSUME NEW j \in Jobs, Accepts(j) \/ Enter(j) \/ Begin(j) \/ Unreadable(j)
              \/ MarkRunning(j) \/ Succeed(j) \/ Fail(j) \/ Broken(j)
       PROVE  Single'
  BY <1>16, SingleAccepts, SingleEnter, SingleWork
<1> QED BY <1>3, <1>4, <1>5, <1>6, <1>7, <1>8, <1>9, <1>10, <1>11, <1>12, <1>13, <1>14,
           <1>15, <1>16, Cases
-----------------------------------------------------------------------------
(* Kept.                                                                   *)

Hands == {"claimed", "running", "failing"}

\* A step that promises nothing new, lets no job begin work on a task, keeps
\* what was promised in the memory and writes what is or was in the memory.
LEMMA KeptFrame ==
  ASSUME Kept, UNCHANGED promise, Up' => Up,
         \A i \in Jobs : pc'[i] \in Hands => pc[i] \in Hands /\ task'[i] = task[i],
         \A t \in Tasks : promise[t] # "none" /\ Up => mem'[t].st # "none",
         \A t \in Tasks : promise[t] = "result" /\ Up => Final(mem'[t]),
         \A t \in Tasks : \/ disk'[t] = disk[t]
                          \/ Up /\ (disk'[t] = mem[t] \/ disk'[t] = mem'[t])
  PROVE  Kept'
<1>1. \A t \in Tasks : promise'[t] # "none"
        => disk'[t].st # "none" /\ (Up' => mem'[t].st # "none")
  BY DEF Kept
<1>2. \A t \in Tasks : promise'[t] = "result"
        => Final(disk'[t]) /\ (Up' => Final(mem'[t]))
  BY DEF Kept
<1>3. \A j \in Jobs : pc'[j] \in Hands => promise'[task'[j]] # "result"
  BY DEF Kept, Hands
<1> QED BY <1>1, <1>2, <1>3 DEF Kept, Hands

\* A job that writes its task while it has it in hand.
LEMMA KeptUpdate ==
  ASSUME Types, Places, Kept, NEW j \in Jobs, pc[j] \in Hands, NEW r, NEW ok,
         Update(task[j], r, ok), r.st # "none",
         UNCHANGED <<phase, promise, task>>,
         \A i \in Jobs : pc'[i] \in Hands => pc[i] \in Hands
  PROVE  Kept'
<1>1. task[j] \in Tasks /\ phase # "down" /\ promise[task[j]] # "result"
  BY DEF Types, Places, Kept, Hands
<1>2. /\ mem'[task[j]] = r /\ \A t \in Tasks : t # task[j] => mem'[t] = mem[t]
      /\ disk' = disk \/ disk' = mem'
  BY <1>1 DEF Update, Write, Types
<1>3. \A t \in Tasks : promise[t] # "none" /\ Up => mem'[t].st # "none"
  BY <1>1, <1>2 DEF Kept
<1>4. \A t \in Tasks : promise[t] = "result" /\ Up => Final(mem'[t])
  BY <1>1, <1>2 DEF Kept
<1> QED BY <1>1, <1>2, <1>3, <1>4, KeptFrame DEF Up

\* What is promised to the client of a request that the runner takes.
LEMMA KeptAccepts ==
  ASSUME Types, Places, Single, Kept, NEW j \in Jobs, Accepts(j)
  PROVE  Kept'
<1>1. task[j] \in Tasks /\ phase # "down"
  BY DEF Accepts, Types, Places
<1>2. PICK r \in TaskRecord : mem' = [mem EXCEPT ![task[j]] = r] /\ r.st = "queued"
  BY DEF Accepts
<1>3. /\ disk' = mem' /\ promise' = [promise EXCEPT ![task[j]] = "accepted"]
      /\ UNCHANGED <<phase, task, pc>>
  BY DEF Accepts, work
<1>4. /\ mem'[task[j]].st = "queued" /\ promise'[task[j]] = "accepted"
      /\ \A t \in Tasks : t # task[j] => mem'[t] = mem[t] /\ promise'[t] = promise[t]
  BY <1>1, <1>2, <1>3 DEF Types
<1>5. \A t \in Tasks : promise'[t] # "none" => mem'[t].st # "none"
  BY <1>1, <1>4 DEF Kept, Up
<1>6. \A t \in Tasks : promise'[t] = "result" => Final(mem'[t])
  BY <1>1, <1>4 DEF Kept, Up
<1>7. \A i \in Jobs : pc[i] \in Hands => task[i] \in Tasks
  BY DEF Types, Places, Hands
<1>8. \A i \in Jobs : pc'[i] \in Hands => promise'[task'[i]] # "result"
  BY <1>3, <1>4, <1>7 DEF Kept, Hands
<1> QED BY <1>3, <1>5, <1>6, <1>8 DEF Kept, Hands

\* A request that ends without a job may write the file, but nothing that
\* loses a promise: the task it writes was not there or had timed out.
LEMMA KeptEnds ==
  ASSUME Types, Places, Single, Kept, NEW j \in Jobs, Ends(j)
  PROVE  Kept'
<1>1. /\ phase # "down" /\ slot[j] \in AtRest /\ task[j] \in Tasks
      /\ UNCHANGED <<phase, mem, promise, pc>> /\ task' = [task EXCEPT ![j] = None]
  BY DEF Ends, Leave, Types, work
<1>2. \A i \in Jobs : pc'[i] \in Hands => pc[i] \in Hands /\ task'[i] = task[i]
  BY <1>1 DEF Types, Places, Hands, AtRest
<1>3. \A t \in Tasks : /\ promise[t] # "none" => mem[t].st # "none"
                       /\ promise[t] = "result" => Final(mem[t])
  BY <1>1 DEF Kept, Up
<1>4. CASE disk' = disk \/ disk' = mem
  BY <1>1, <1>2, <1>3, <1>4, KeptFrame DEF Up
<1>5. ASSUME NEW r \in TaskRecord, disk' = [mem EXCEPT ![task[j]] = r], r.st = "queued",
             j \in entered \/ Resumable(mem[task[j]])
      PROVE  Kept'
  <2>1. ~Final(mem[task[j]])
    BY <1>5 DEF Single, Resumable, Final
  <2>2. /\ disk'[task[j]].st = "queued"
        /\ \A t \in Tasks : t # task[j] => disk'[t] = mem[t]
    BY <1>1, <1>5 DEF Types
  <2>3. \A t \in Tasks : promise'[t] # "none" => disk'[t].st # "none" /\ mem'[t].st # "none"
    BY <1>1, <1>3, <2>2
  <2>4. \A t \in Tasks : promise'[t] = "result" => Final(disk'[t]) /\ Final(mem'[t])
    BY <1>1, <1>3, <2>1, <2>2
  <2>5. \A i \in Jobs : pc'[i] \in Hands => promise'[task'[i]] # "result"
    BY <1>1, <1>2 DEF Kept, Hands
  <2> QED BY <2>3, <2>4, <2>5 DEF Kept, Hands
<1> QED BY <1>4, <1>5 DEF Ends

\* A result is promised when it is saved, and then no other job has the task
\* in hand.
LEMMA KeptSucceed ==
  ASSUME Types, Places, Single, Kept, NEW j \in Jobs, Succeed(j)
  PROVE  Kept'
<1>0. PICK t : t = task[j]
  OBVIOUS
<1>1. /\ pc[j] = "running" /\ phase # "down" /\ t \in Tasks
      /\ UNCHANGED <<phase, task>>
  BY <1>0 DEF Succeed, Types, Places, requests
<1>2. PICK ok \in Outcomes :
        /\ Update(t, Succeeded(mem[t]), ok)
        /\ pc' = [pc EXCEPT ![j] = IF ok THEN "over" ELSE "failing"]
        /\ promise' = [promise EXCEPT ![t] = IF ok THEN "result" ELSE @]
  BY <1>0 DEF Succeed, Goto
<1>3. Succeeded(mem[t]).st = "success" /\ Final(Succeeded(mem[t]))
  BY DEF Succeeded, Record, Final
<1>4. \A i \in Jobs : pc'[i] \in Hands => pc[i] \in Hands
  BY <1>1, <1>2 DEF Types, Hands
<1>5. CASE ~ok
  <2>1. UNCHANGED promise
    BY <1>1, <1>2, <1>5 DEF Types
  <2> QED BY <1>0, <1>1, <1>2, <1>3, <1>4, <2>1, KeptUpdate DEF Hands
<1>6. CASE ok
  <2>1. /\ Final(mem'[t]) /\ \A u \in Tasks : u # t => mem'[u] = mem[u]
        /\ disk' = mem'
    BY <1>1, <1>2, <1>3, <1>6 DEF Update, Write, Types
  <2>2. \A u \in Tasks : u # t => promise'[u] = promise[u]
    BY <1>1, <1>2 DEF Types
  <2>3. \A u \in Tasks : promise'[u] # "none" => mem'[u].st # "none"
    BY <1>1, <2>1, <2>2 DEF Kept, Up, Final
  <2>4. \A u \in Tasks : promise'[u] = "result" => Final(mem'[u])
    BY <1>1, <2>1, <2>2 DEF Kept, Up
  <2>5. ASSUME NEW i \in Jobs, pc'[i] \in Hands
        PROVE  promise'[task'[i]] # "result"
    <3>1. pc'[j] = "over"
      BY <1>2, <1>6 DEF Types
    <3>2. i # j /\ pc[i] = pc'[i]
      BY <1>2, <2>5, <3>1 DEF Types, Hands
    <3>3. task[i] # t
      <4>1. Live(i) /\ Live(j)
        BY <1>1, <2>5, <3>2 DEF Live, Hands
      <4> QED BY <1>0, <3>2, <4>1 DEF Single
    <3>4. task[i] \in Tasks
      BY <2>5, <3>2 DEF Types, Places, Hands
    <3> QED BY <1>1, <2>2, <2>5, <3>2, <3>3, <3>4 DEF Kept, Hands
  <2> QED BY <2>1, <2>3, <2>4, <2>5 DEF Kept, Hands
<1> QED BY <1>5, <1>6
LEMMA KeptStep ==
  ASSUME Types, Places, Single, Kept, [Next]_vars
  PROVE  Kept'
<1> USE ImageTasksAssumption
<1>0. \A t \in Tasks : /\ promise[t] # "none" /\ Up => mem[t].st # "none"
                       /\ promise[t] = "result" /\ Up => Final(mem[t])
  BY DEF Kept
<1>1. ASSUME UNCHANGED <<promise, mem>>, Up' => Up,
             \A i \in Jobs : pc'[i] \in Hands => pc[i] \in Hands /\ task'[i] = task[i],
             disk' = disk \/ (Up /\ disk' = mem)
      PROVE  Kept'
  BY <1>0, <1>1, KeptFrame
<1>2. CASE UNCHANGED vars
  BY <1>1, <1>2 DEF vars, requests, work, closing, Up
<1>3. ASSUME NEW j \in Jobs, NEW t \in Tasks, NEW k \in {"new", "resume"}, Ask(j, t, k)
      PROVE  Kept'
  <2>1. pc[j] = "out"
    BY <1>3 DEF Ask, Places
  <2> QED BY <1>1, <1>3, <2>1 DEF Ask, Types, Hands, work, Up
<1>4. ASSUME NEW j \in Jobs, Reserve(j) \/ Enter(j)
      PROVE  Kept'
  BY <1>1, <1>4 DEF Reserve, Enter, requests, work, Up
<1>5. ASSUME NEW j \in Jobs, Run(j)
      PROVE  Kept'
  BY <1>1, <1>5 DEF Run, Goto, Types, Hands, requests, Up
<1>6. ASSUME NEW j \in Jobs, Begin(j)
      PROVE  Kept'
  <2>1. /\ task[j] \in Tasks /\ phase # "down"
        /\ UNCHANGED <<phase, mem, disk, promise, task>>
        /\ \A i \in Jobs : i # j => pc'[i] = pc[i]
    BY <1>6 DEF Begin, Goto, Types, Places, requests
  <2>2. pc'[j] \in Hands => promise[task[j]] # "result"
    <3>1. CASE mem[task[j]].st = "queued"
      BY <1>0, <2>1, <3>1 DEF Up, Final
    <3>2. CASE mem[task[j]].st # "queued"
      BY <1>6, <3>2 DEF Begin, Goto, Claimable, Types, Hands
    <3> QED BY <3>1, <3>2
  <2>3. \A i \in Jobs : pc'[i] \in Hands => promise'[task'[i]] # "result"
    BY <2>1, <2>2 DEF Kept, Hands
  <2> QED BY <2>1, <2>3 DEF Kept, Hands, Up
<1>7. ASSUME NEW j \in Jobs, Unreadable(j) \/ Partial(j)
      PROVE  Kept'
  <2>1. CASE Unreadable(j)
    BY <1>1, <2>1 DEF Unreadable, Goto, Types, Hands, requests, Up
  <2>2. CASE Partial(j)
    <3>1. phase # "down"
      BY <2>2 DEF Partial, Places
    <3> QED BY <1>1, <2>2, <3>1 DEF Partial, requests, work, Up
  <2> QED BY <1>7, <2>1, <2>2
<1>8. ASSUME NEW j \in Jobs, MarkRunning(j)
      PROVE  Kept'
  <2>1. mem[task[j]] \in TaskRecord
    BY <1>8, WorkType DEF MarkRunning
  <2>2. [mem[task[j]] EXCEPT !.st = "running"].st # "none"
    BY <2>1 DEF TaskRecord
  <2>3. PICK ok \in Outcomes :
          /\ Update(task[j], [mem[task[j]] EXCEPT !.st = "running"], ok)
          /\ pc' = [pc EXCEPT ![j] = IF ok THEN "running" ELSE "broken"]
    BY <1>8 DEF MarkRunning, Goto
  <2>4. pc[j] \in Hands /\ UNCHANGED <<phase, promise, task>>
    BY <1>8 DEF MarkRunning, Hands, requests
  <2>5. \A i \in Jobs : pc'[i] \in Hands => pc[i] \in Hands
    BY <2>3, <2>4 DEF Types
  <2> QED BY <2>2, <2>3, <2>4, <2>5, KeptUpdate
<1>9. ASSUME NEW j \in Jobs, Fail(j)
      PROVE  Kept'
  <2>1. PICK ok \in Outcomes, code \in {"timeout", "other"} :
          /\ \E g \in BOOLEAN : Update(task[j], Failed(mem[task[j]], code, g), ok)
          /\ pc' = [pc EXCEPT ![j] = IF ok THEN "over" ELSE "broken"]
    BY <1>9 DEF Fail, Goto
  <2>2. PICK r : Update(task[j], r, ok) /\ r.st # "none"
    <3>1. \A g \in BOOLEAN : Failed(mem[task[j]], code, g).st # "none"
      BY DEF Failed, Record
    <3> QED BY <2>1, <3>1
  <2>3. pc[j] \in Hands /\ UNCHANGED <<phase, promise, task>>
    BY <1>9 DEF Fail, Hands, requests
  <2>4. \A i \in Jobs : pc'[i] \in Hands => pc[i] \in Hands
    BY <2>1, <2>3 DEF Types, Hands
  <2> QED BY <2>2, <2>3, <2>4, KeptUpdate
<1>10. ASSUME NEW j \in Jobs, Broken(j)
       PROVE  Kept'
  <2>1. PICK ok \in Outcomes : Update(task[j], Failed(mem[task[j]], "other", FALSE), ok)
    BY <1>10 DEF Broken
  <2>2. /\ Failed(mem[task[j]], "other", FALSE).st # "none"
        /\ Final(Failed(mem[task[j]], "other", FALSE))
    BY DEF Failed, Record, Final
  <2>3. /\ phase # "down" /\ UNCHANGED <<phase, promise, task>>
        /\ pc' = [pc EXCEPT ![j] = "over"]
    BY <1>10 DEF Broken, Goto, Places, requests
  <2>4. \A i \in Jobs : pc'[i] \in Hands => pc[i] \in Hands
    BY <2>3 DEF Types, Hands
  <2>5. \A t \in Tasks : \/ mem'[t] = mem[t]
                         \/ mem'[t] = Failed(mem[task[j]], "other", FALSE)
    BY <2>1 DEF Update, Types
  <2>6. disk' = disk \/ disk' = mem'
    BY <2>1 DEF Update, Write
  <2> QED BY <1>0, <2>2, <2>3, <2>4, <2>5, <2>6, KeptFrame DEF Up
<1>11. ASSUME NEW j \in Jobs, End(j)
       PROVE  Kept'
  BY <1>1, <1>11 DEF End, Goto, Types, Hands, Up
<1>12. ASSUME NEW j \in Jobs, Tell(j)
       PROVE  Kept'
  <2>1. /\ slot[j] = "cancelled" /\ pc[j] = "out" /\ phase # "down"
        /\ UNCHANGED <<phase, pc, promise>> /\ task' = [task EXCEPT ![j] = None]
    BY <1>12 DEF Tell, Places, work
  <2>2. \A t \in Tasks : mem'[t] = mem[t] \/ (mem[t].st = "queued" /\ mem'[t] = Interrupted(mem[t]))
    BY <1>12 DEF Tell, NotStarted, Types
  <2>3. disk' = disk \/ disk' = mem'
    BY <1>12 DEF Tell, Write
  <2>4. \A r : Interrupted(r).st = "error" /\ Final(Interrupted(r))
    BY DEF Interrupted, Record, Final
  <2>5. \A i \in Jobs : pc'[i] \in Hands => pc[i] \in Hands /\ task'[i] = task[i]
    BY <2>1 DEF Types, Hands
  <2> QED BY <1>0, <2>1, <2>2, <2>3, <2>4, <2>5, KeptFrame DEF Up
<1>13. CASE Close
  BY <1>1, <1>13 DEF Close, requests, work, Up
<1>14. CASE Mark
  <2>1. phase # "down" /\ UNCHANGED <<task, pc, promise>>
    BY <1>14 DEF Mark, requests, work
  <2>2. \A t \in Tasks : mem'[t] = mem[t] \/ (mem[t].st = "queued" /\ mem'[t] = Interrupted(mem[t]))
    BY <1>14 DEF Mark, MarkedAtEnd, NotStarted
  <2>3. disk' = disk \/ disk' = mem'
    BY <1>14 DEF Mark, Write
  <2>4. \A r : Interrupted(r).st = "error" /\ Final(Interrupted(r))
    BY DEF Interrupted, Record, Final
  <2> QED BY <1>0, <2>1, <2>2, <2>3, <2>4, KeptFrame DEF Up
<1>15. CASE Stop
  BY <1>15 DEF Stop, Kept, Up
<1>16. CASE Boot
  <2>1. /\ mem' = Recovered /\ (disk' = Recovered \/ disk' = disk)
        /\ UNCHANGED <<promise, task, pc>>
    BY <1>16 DEF Boot, requests, work
  <2>2. \A t \in Tasks : /\ promise[t] # "none" => disk[t].st # "none" /\ Recovered[t].st # "none"
                         /\ promise[t] = "result"
                              => Final(disk[t]) /\ Final(Recovered[t])
    BY RecoveredType DEF Kept
  <2>3. \A t \in Tasks : promise'[t] # "none" => disk'[t].st # "none" /\ mem'[t].st # "none"
    BY <2>1, <2>2
  <2>4. \A t \in Tasks : promise'[t] = "result" => Final(disk'[t]) /\ Final(mem'[t])
    BY <2>1, <2>2
  <2> QED BY <2>1, <2>3, <2>4 DEF Kept
<1>17. ASSUME NEW t \in Tasks, Expire(t)
       PROVE  Kept'
  <2>1. /\ Up /\ Up' /\ UNCHANGED <<task, pc>> /\ (disk' = disk \/ disk' = mem')
        /\ mem' = [mem EXCEPT ![t] = Absent] /\ promise' = [promise EXCEPT ![t] = "none"]
    BY <1>17 DEF Expire, Write, requests, work, Up
  <2>2. /\ promise'[t] = "none"
        /\ \A u \in Tasks : u # t => promise'[u] = promise[u] /\ mem'[u] = mem[u]
    BY <2>1 DEF Types
  <2>3. \A u \in Tasks : promise'[u] # "none" => disk'[u].st # "none" /\ mem'[u].st # "none"
    <3> SUFFICES ASSUME NEW u \in Tasks, promise'[u] # "none"
                 PROVE  disk'[u].st # "none" /\ mem'[u].st # "none"
      OBVIOUS
    <3>1. promise[u] # "none" /\ mem'[u] = mem[u]
      BY <2>2
    <3>2. disk[u].st # "none" /\ mem[u].st # "none"
      BY <2>1, <3>1 DEF Kept
    <3> QED BY <2>1, <3>1, <3>2
  <2>4. \A u \in Tasks : promise'[u] = "result" => Final(disk'[u]) /\ Final(mem'[u])
    <3> SUFFICES ASSUME NEW u \in Tasks, promise'[u] = "result"
                 PROVE  Final(disk'[u]) /\ Final(mem'[u])
      OBVIOUS
    <3>1. promise[u] = "result" /\ mem'[u] = mem[u]
      BY <2>2
    <3>2. Final(disk[u]) /\ Final(mem[u])
      BY <2>1, <3>1 DEF Kept
    <3> QED BY <2>1, <3>1, <3>2
  <2>5. \A i \in Jobs : pc'[i] \in Hands => promise'[task'[i]] # "result"
    <3>1. \A i \in Jobs : pc[i] \in Hands => task[i] \in Tasks
      BY DEF Types, Places, Hands
    <3> QED BY <2>1, <2>2, <3>1 DEF Kept, Hands
  <2> QED BY <2>3, <2>4, <2>5 DEF Kept, Hands
<1> QED BY <1>2, <1>3, <1>4, <1>5, <1>6, <1>7, <1>8, <1>9, <1>10, <1>11, <1>12, <1>13,
           <1>14, <1>15, <1>16, <1>17, Cases, KeptAccepts, KeptEnds, KeptSucceed
-----------------------------------------------------------------------------
(* Driven, when the service is not shut down in a hurry.                   *)

\* What a callback that updates its task does to it.
LEMMA WorkEffect ==
  ASSUME Types, Places, NEW j \in Jobs, NEW t, t = task[j],
         MarkRunning(j) \/ Succeed(j) \/ Fail(j) \/ Broken(j)
  PROVE  /\ t \in Tasks /\ slot[j] = "running" /\ phase # "down"
         /\ UNCHANGED <<phase, task, slot>>
         /\ \A i \in Jobs : i # j => pc'[i] = pc[i]
         /\ mem' = [mem EXCEPT ![t] = mem'[t]]
         /\ disk' = disk \/ disk' = mem'
         /\ \/ /\ pc[j] = "claimed" /\ pc'[j] \in {"running", "broken"}
               /\ mem'[t].st = "running" /\ mem'[t].code = mem[t].code
            \/ /\ pc'[j] \notin {"started", "claimed", "running"}
               /\ mem'[t].st \in {"success", "error"}
               /\ mem'[t].code \in {"", "timeout", "other"}
<1> USE ImageTasksAssumption
<1>1. Moves(j)
  BY MovesCases
<1>2. /\ t \in Tasks /\ slot[j] = "running" /\ phase # "down" /\ mem[t] \in TaskRecord
      /\ UNCHANGED <<phase, task, slot>>
      /\ \A i \in Jobs : i # j => pc'[i] = pc[i]
  BY <1>1, WorkType DEF Moves, Types, Places
<1>3. mem' = [mem EXCEPT ![t] = mem'[t]] /\ (disk' = disk \/ disk' = mem')
  BY <1>2 DEF MarkRunning, Succeed, Fail, Broken, Update, Write, Types
<1>4. CASE MarkRunning(j)
  <2>1. /\ mem'[t] = [mem[t] EXCEPT !.st = "running"]
        /\ pc[j] = "claimed" /\ pc'[j] \in {"running", "broken"}
    BY <1>2, <1>4 DEF MarkRunning, Update, Goto, Types
  <2>2. mem'[t].st = "running" /\ mem'[t].code = mem[t].code
    BY <1>2, <2>1 DEF TaskRecord
  <2> QED BY <1>2, <1>3, <2>1, <2>2
<1>5. CASE Succeed(j)
  <2>1. mem'[t] = Succeeded(mem[t]) /\ pc'[j] \in {"over", "failing"}
    BY <1>2, <1>5 DEF Succeed, Update, Goto, Types
  <2>2. Succeeded(mem[t]).st = "success" /\ Succeeded(mem[t]).code = ""
    BY DEF Succeeded, Record
  <2> QED BY <1>2, <1>3, <2>1, <2>2
<1>6. CASE Fail(j) \/ Broken(j)
  <2>1. \A code, g : Failed(mem[t], code, g).st = "error" /\ Failed(mem[t], code, g).code = code
    BY DEF Failed, Record
  <2>2. pc'[j] \in {"over", "broken"}
    BY <1>2, <1>6 DEF Fail, Broken, Goto, Types
  <2>3. \E code \in {"timeout", "other"}, g \in BOOLEAN : mem'[t] = Failed(mem[t], code, g)
    <3>1. CASE Fail(j)
      BY <1>2, <3>1 DEF Fail, Update, Types
    <3>2. CASE Broken(j)
      BY <1>2, <3>2 DEF Broken, Update, Types
    <3> QED BY <1>6, <3>1, <3>2
  <2>4. mem'[t].st = "error" /\ mem'[t].code \in {"timeout", "other"}
    BY <2>1, <2>3
  <2> QED BY <1>2, <1>3, <2>2, <2>4
<1> QED BY <1>4, <1>5, <1>6

\* A step that does not change a task nor the jobs that drive it.
LEMMA DrivenKept ==
  ASSUME Driven, NEW u \in Tasks, mem'[u] = mem[u], disk'[u].code # "legacy",
         phase' = phase \/ phase' = "closing",
         \A i \in Jobs : task[i] = u /\ Queued(i)
           => (task'[i] = u /\ Queued(i)') \/ phase' = "closing",
         \A i \in Jobs : task[i] = u /\ Running(i) => task'[i] = u /\ Running(i)'
  PROVE  DrivenOf(u)'
BY DEF Driven, DrivenOf

LEMMA DrivenStep ==
  ASSUME ~Hurried, Types, Places, Keys, Single, Driven, [Next]_vars
  PROVE  Driven'
<1> USE ImageTasksAssumption
<1>0. \A u \in Tasks : mem[u].code # "legacy" /\ disk[u].code # "legacy"
  BY DEF Driven, DrivenOf
<1>1. ASSUME mem' = mem, \A u \in Tasks : disk'[u].code # "legacy",
             phase' = phase \/ phase' = "closing",
             \A i \in Jobs : Queued(i)
               => (task'[i] = task[i] /\ Queued(i)') \/ phase' = "closing",
             \A i \in Jobs : Running(i) => task'[i] = task[i] /\ Running(i)'
      PROVE  Driven'
  BY <1>1, DrivenKept DEF Driven
<1>2. CASE UNCHANGED vars
  BY <1>0, <1>1, <1>2 DEF vars, requests, work, closing, Queued, Running
<1>3. ASSUME NEW j \in Jobs, Ends(j)
      PROVE  Driven'
  <2>1. /\ slot[j] \in AtRest /\ pc[j] = "out" /\ task[j] \in Tasks
        /\ UNCHANGED <<phase, mem, pc>>
        /\ \A i \in Jobs : i # j => slot'[i] = slot[i] /\ task'[i] = task[i]
    <3>1. /\ slot[j] \in AtRest /\ task[j] # None /\ UNCHANGED <<phase, mem, pc>>
          /\ slot' = [slot EXCEPT ![j] = IF @ = "reserved" THEN "released" ELSE @]
          /\ task' = [task EXCEPT ![j] = None]
      BY <1>3 DEF Ends, Leave, GaveBack, work
    <3>2. pc[j] = "out" /\ task[j] \in Tasks
      BY <3>1 DEF Types, Places, AtRest
    <3> QED BY <3>1, <3>2 DEF Types
  <2>2. \A u \in Tasks : disk'[u].code # "legacy"
    <3>1. CASE disk' = disk \/ disk' = mem
      BY <1>0, <3>1
    <3>2. ASSUME NEW r \in TaskRecord, disk' = [mem EXCEPT ![task[j]] = r], r.code = ""
          PROVE  \A u \in Tasks : disk'[u].code # "legacy"
      BY <1>0, <2>1, <3>2 DEF Types
    <3> QED BY <1>3, <3>1, <3>2 DEF Ends
  <2>3. ~Queued(j) /\ ~Running(j)
    BY <2>1 DEF Queued, Running, AtRest
  <2>4. \A i \in Jobs : i # j => (Queued(i)' <=> Queued(i)) /\ (Running(i)' <=> Running(i))
    BY <2>1 DEF Queued, Running
  <2> QED BY <1>1, <2>1, <2>2, <2>3, <2>4
<1>4. ASSUME NEW j \in Jobs, Accepts(j)
      PROVE  Driven'
  <2>0. PICK t : t = task[j]
    OBVIOUS
  <2>1. PICK r \in TaskRecord : mem' = [mem EXCEPT ![t] = r] /\ r.st = "queued" /\ r.code = ""
    BY <1>4, <2>0 DEF Accepts
  <2>2. /\ t \in Tasks /\ slot[j] = "reserved" /\ slot' = [slot EXCEPT ![j] = "pending"]
        /\ disk' = mem' /\ UNCHANGED <<phase, task, pc>> /\ phase = "up"
    BY <1>4, <2>0 DEF Accepts, Types, Places, work
  <2>3. /\ mem'[t].st = "queued" /\ mem'[t].code = ""
        /\ \A u \in Tasks : u # t => mem'[u] = mem[u]
    BY <2>1, <2>2 DEF Types
  <2>4. \A u \in Tasks : disk'[u].code # "legacy" /\ mem'[u].code # "legacy"
    BY <1>0, <2>2, <2>3
  <2>5. \A i \in Jobs : (Queued(i) => Queued(i)') /\ (Running(i) => Running(i)')
    BY <2>2 DEF Queued, Running, Types
  <2>6. \A u \in Tasks : u # t => DrivenOf(u)'
    BY <2>2, <2>3, <2>4, <2>5, DrivenKept
  <2>7. task'[j] = t /\ Queued(j)'
    BY <2>0, <2>2 DEF Queued, Types
  <2>8. DrivenOf(t)'
    BY <2>2, <2>3, <2>4, <2>7 DEF DrivenOf
  <2> QED BY <2>6, <2>8 DEF Driven
<1>5. ASSUME NEW j \in Jobs, NEW t \in Tasks, NEW k \in {"new", "resume"}, Ask(j, t, k)
      PROVE  Driven'
  <2>1. /\ ~Queued(j) /\ ~Running(j) /\ UNCHANGED <<phase, mem, disk, slot, pc>>
        /\ \A i \in Jobs : i # j => task'[i] = task[i]
    BY <1>5 DEF Ask, Queued, Running, Types, Places, work
  <2> QED BY <1>0, <1>1, <2>1 DEF Queued, Running
<1>6. ASSUME NEW j \in Jobs, Reserve(j)
      PROVE  Driven'
  <2>1. slot[j] = "idle" /\ slot' = [slot EXCEPT ![j] = "reserved"]
    BY <1>6, LedgerSteps DEF Reserve
  <2>2. UNCHANGED <<phase, mem, disk, task, pc>>
    BY <1>6 DEF Reserve, requests, work
  <2> QED BY <1>0, <1>1, <2>1, <2>2 DEF Queued, Running, Types
<1>7. ASSUME NEW j \in Jobs, Enter(j) \/ Partial(j)
      PROVE  Driven'
  <2>1. UNCHANGED <<phase, mem, slot, task, pc>> /\ (disk' = disk \/ disk' = mem)
    BY <1>7 DEF Enter, Partial, requests, work
  <2> QED BY <1>0, <1>1, <2>1 DEF Queued, Running
<1>8. ASSUME NEW j \in Jobs, Run(j)
      PROVE  Driven'
  <2>1. slot[j] = "pending" /\ slot' = [slot EXCEPT ![j] = "running"]
    BY <1>8, LedgerSteps DEF Run
  <2>2. /\ pc' = [pc EXCEPT ![j] = "started"] /\ pc[j] = "out"
        /\ UNCHANGED <<phase, mem, disk, task>>
    BY <1>8, <2>1 DEF Run, Goto, Places, requests
  <2> QED BY <1>0, <1>1, <2>1, <2>2 DEF Queued, Running, Types
<1>9. ASSUME NEW j \in Jobs, Begin(j)
      PROVE  Driven'
  <2>1. /\ pc[j] = "started" /\ slot[j] = "running"
        /\ UNCHANGED <<phase, mem, disk, task, slot>>
        /\ pc' = [pc EXCEPT ![j] = IF mem[task[j]].st = "queued" THEN "claimed" ELSE "unclaimed"]
    BY <1>9 DEF Begin, Goto, Claimable, Places, requests
  <2>2. \A i \in Jobs : i # j => (Queued(i)' <=> Queued(i)) /\ (Running(i)' <=> Running(i))
    BY <2>1 DEF Queued, Running, Types
  <2>3. ~Running(j) /\ (mem[task[j]].st = "queued" => Queued(j)')
    BY <2>1 DEF Queued, Running, Types
  <2> SUFFICES ASSUME NEW u \in Tasks
               PROVE  DrivenOf(u)'
    BY DEF Driven
  <2>4. DrivenOf(u)
    BY DEF Driven
  <2> QED BY <2>1, <2>2, <2>3, <2>4 DEF DrivenOf
<1>10. ASSUME NEW j \in Jobs, Unreadable(j)
       PROVE  Driven'
  <2>1. /\ pc[j] = "claimed" /\ pc' = [pc EXCEPT ![j] = "broken"]
        /\ UNCHANGED <<phase, mem, disk, task, slot>>
    BY <1>10 DEF Unreadable, Goto, requests
  <2> QED BY <1>0, <1>1, <2>1 DEF Queued, Running, Types
<1>11. ASSUME NEW j \in Jobs, MarkRunning(j) \/ Succeed(j) \/ Fail(j) \/ Broken(j)
       PROVE  Driven'
  <2>0. PICK t : t = task[j]
    OBVIOUS
  <2>1. /\ t \in Tasks /\ slot[j] = "running"
        /\ phase' = phase /\ task' = task /\ slot' = slot
        /\ \A i \in Jobs : i # j => pc'[i] = pc[i]
        /\ \A u \in Tasks : u # t => mem'[u] = mem[u]
        /\ disk' = disk \/ disk' = mem'
    <3>1. t \in Tasks
      BY <1>11, <2>0, WorkEffect
    <3>2. slot[j] = "running" /\ phase' = phase /\ task' = task /\ slot' = slot
      BY <1>11, <2>0, WorkEffect
    <3>3. \A i \in Jobs : i # j => pc'[i] = pc[i]
      BY <1>11, <2>0, WorkEffect
    <3>4. mem' = [mem EXCEPT ![t] = mem'[t]]
      BY <1>11, <2>0, WorkEffect
    <3>5. disk' = disk \/ disk' = mem'
      BY <1>11, <2>0, WorkEffect
    <3> QED BY <3>1, <3>2, <3>3, <3>4, <3>5 DEF Types
  <2>8. \/ /\ pc'[j] \in {"running", "broken"}
           /\ mem'[t].st = "running" /\ mem'[t].code = mem[t].code
        \/ /\ mem'[t].st \in {"success", "error"}
           /\ mem'[t].code \in {"", "timeout", "other"}
    BY <1>11, <2>0, WorkEffect
  <2>2. phase # "stopped"
    BY <2>1 DEF Places
  <2>3. mem'[t].code # "legacy"
    BY <1>0, <2>1, <2>8
  <2>4. \A u \in Tasks : disk'[u].code # "legacy" /\ mem'[u].code # "legacy"
    BY <1>0, <2>1, <2>3
  <2>5. \A i \in Jobs : i # j => (Queued(i)' <=> Queued(i)) /\ (Running(i)' <=> Running(i))
    BY <2>1 DEF Queued, Running
  <2>6. ASSUME NEW u \in Tasks, u # t
        PROVE  DrivenOf(u)'
    BY <2>0, <2>1, <2>4, <2>5, <2>6, DrivenKept
  <2>7. DrivenOf(t)'
    <3>1. CASE pc'[j] \in {"running", "broken"} /\ mem'[t].st = "running"
      BY <2>0, <2>1, <2>2, <2>4, <3>1 DEF DrivenOf, Running
    <3>2. CASE mem'[t].st \in {"success", "error"}
      BY <2>1, <2>4, <3>2 DEF DrivenOf, Unfinished
    <3> QED BY <2>8, <3>1, <3>2
  <2> QED BY <2>6, <2>7 DEF Driven
<1>12. ASSUME NEW j \in Jobs, End(j)
       PROVE  Driven'
  <2>1. slot[j] = "running" /\ slot' = [slot EXCEPT ![j] = "finished"]
    BY <1>12, LedgerSteps DEF End
  <2>2. /\ pc[j] \in {"over", "unclaimed"} /\ UNCHANGED <<phase, mem, disk>>
        /\ \A i \in Jobs : i # j => pc'[i] = pc[i] /\ task'[i] = task[i]
    BY <1>12 DEF End, Goto, Types
  <2>3. ~Queued(j) /\ ~Running(j)
    BY <2>1, <2>2 DEF Queued, Running
  <2>4. \A i \in Jobs : i # j => (Queued(i)' <=> Queued(i)) /\ (Running(i)' <=> Running(i))
    BY <2>1, <2>2 DEF Queued, Running, Types
  <2> QED BY <1>0, <1>1, <2>2, <2>3, <2>4
<1>13. ASSUME NEW j \in Jobs, Tell(j)
       PROVE  Driven'
  <2>0. PICK t : t = task[j]
    OBVIOUS
  <2>1. /\ slot[j] = "cancelled" /\ pc[j] = "out" /\ t \in Tasks
        /\ UNCHANGED <<phase, pc, slot>> /\ (disk' = disk \/ disk' = mem')
        /\ \A i \in Jobs : i # j => task'[i] = task[i]
        /\ \A u \in Tasks : u # t => mem'[u] = mem[u]
        /\ mem'[t] = mem[t] \/ mem'[t] = Interrupted(mem[t])
    BY <1>13, <2>0 DEF Tell, Write, Types, Places, work
  <2>2. Interrupted(mem[t]).st = "error" /\ Interrupted(mem[t]).code = "interrupted"
    BY DEF Interrupted, Record
  <2>3. ~Queued(j) /\ ~Running(j)
    BY <2>1 DEF Queued, Running
  <2>4. \A i \in Jobs : (Queued(i)' <=> Queued(i)) /\ (Running(i)' <=> Running(i))
    BY <2>1 DEF Queued, Running
  <2>5. mem'[t].code # "legacy"
    BY <1>0, <2>1, <2>2
  <2>6. \A u \in Tasks : disk'[u].code # "legacy" /\ mem'[u].code # "legacy"
    BY <1>0, <2>1, <2>5
  <2>7. \A u \in Tasks : mem'[u] = mem[u] => DrivenOf(u)'
    BY <2>1, <2>3, <2>4, <2>6, DrivenKept
  <2>8. mem'[t] = Interrupted(mem[t]) => DrivenOf(t)'
    BY <2>1, <2>2, <2>6 DEF DrivenOf, Unfinished
  <2> QED BY <2>1, <2>7, <2>8 DEF Driven
<1>14. CASE Close
  <2>1. phase' = "closing" /\ UNCHANGED <<mem, disk, task, pc>>
    BY <1>14 DEF Close, requests, work
  <2> QED BY <1>0, <1>1, <2>1 DEF Running
<1>15. CASE Mark
  <2>1. \A i \in Jobs : slot[i] # "running" /\ pc[i] = "out"
    BY <1>15 DEF Mark, Joined, Ledger!WithStatus, Places
  <2>2. executing = {}
    BY <2>1 DEF Keys
  <2>3. ASSUME NEW t \in Tasks
        PROVE  mem'[t].st \notin Unfinished /\ mem'[t].code # "legacy"
    <3>1. mem[t].st # "running"
      BY <2>1 DEF Driven, DrivenOf, Running
    <3>2. mem'[t] = IF mem[t].st = "queued" THEN Interrupted(mem[t]) ELSE mem[t]
      BY <1>15, <2>2 DEF Mark, MarkedAtEnd, NotStarted
    <3>3. Interrupted(mem[t]).st = "error" /\ Interrupted(mem[t]).code = "interrupted"
      BY DEF Interrupted, Record
    <3> QED BY <1>0, <3>1, <3>2, <3>3 DEF Unfinished
  <2>4. disk' = disk \/ disk' = mem'
    BY <1>15 DEF Mark, Write
  <2> QED BY <1>0, <2>3, <2>4 DEF Driven, DrivenOf, Unfinished
<1>16. CASE Stop
  <2>1. Absent.st = "none" /\ Absent.code = ""
    BY DEF Absent, Record
  <2>2. \A t \in Tasks : mem'[t] = Absent /\ disk'[t] = disk[t]
    BY <1>16 DEF Stop
  <2> QED BY <1>0, <1>16, <2>1, <2>2 DEF Stop, Driven, DrivenOf, Unfinished
<1>17. CASE Boot
  <2>1. ~OldDetails
    BY <1>0 DEF OldDetails
  <2>2. /\ mem' = Recovered /\ (disk' = Recovered \/ disk' = disk)
        /\ \A t \in Tasks : Recovered[t].st \notin Unfinished /\ Recovered[t].code # "legacy"
    BY <1>17, <2>1, RecoveredType DEF Boot
  <2> QED BY <1>0, <2>2 DEF Driven, DrivenOf, Unfinished
<1>18. ASSUME NEW t \in Tasks, Expire(t)
       PROVE  Driven'
  <2>1. /\ UNCHANGED <<phase, task, pc, slot>> /\ (disk' = disk \/ disk' = mem')
        /\ mem' = [mem EXCEPT ![t] = Absent]
    BY <1>18 DEF Expire, Write, requests, work
  <2>2. Absent.st = "none" /\ Absent.code = ""
    BY DEF Absent, Record
  <2>3. mem'[t] = Absent /\ \A u \in Tasks : u # t => mem'[u] = mem[u]
    BY <2>1 DEF Types
  <2>4. \A u \in Tasks : disk'[u].code # "legacy" /\ mem'[u].code # "legacy"
    BY <1>0, <2>1, <2>2, <2>3
  <2>5. \A i \in Jobs : (Queued(i)' <=> Queued(i)) /\ (Running(i)' <=> Running(i))
    BY <2>1 DEF Queued, Running
  <2>6. \A u \in Tasks : u # t => DrivenOf(u)'
    BY <2>1, <2>3, <2>4, <2>5, DrivenKept
  <2>7. DrivenOf(t)'
    BY <2>2, <2>3, <2>4 DEF DrivenOf, Unfinished
  <2> QED BY <2>6, <2>7 DEF Driven
<1> QED BY <1>2, <1>3, <1>4, <1>5, <1>6, <1>7, <1>8, <1>9, <1>10, <1>11, <1>12, <1>13,
           <1>14, <1>15, <1>16, <1>17, <1>18, Cases
-----------------------------------------------------------------------------
(* Claims, when the service is not shut down in a hurry.                   *)

\* A step that changes one task at most, and does not interrupt it while a
\* job is about to mark it running.
LEMMA ClaimsFrame ==
  ASSUME Types, Places, Claims, NEW t,
         \A u \in Tasks : u # t => mem'[u] = mem[u],
         \A i \in Jobs : pc'[i] = "claimed" => pc[i] = "claimed" /\ task'[i] = task[i],
         t \in Tasks => \/ mem'[t] = mem[t]
                        \/ mem'[t].st # "error" \/ mem'[t].code # "interrupted"
                        \/ \A i \in Jobs : pc[i] = "claimed" => task[i] # t
  PROVE  Claims'
<1> SUFFICES ASSUME NEW i \in Jobs, pc'[i] = "claimed"
             PROVE  ~(mem'[task'[i]].st = "error" /\ mem'[task'[i]].code = "interrupted")
  BY DEF Claims
<1>1. pc[i] = "claimed" /\ task'[i] = task[i] /\ task[i] \in Tasks
  BY DEF Types, Places
<1>2. ~(mem[task[i]].st = "error" /\ mem[task[i]].code = "interrupted")
  BY <1>1 DEF Claims
<1>3. CASE task[i] # t
  BY <1>1, <1>2, <1>3
<1>4. CASE task[i] = t
  BY <1>1, <1>2, <1>4
<1> QED BY <1>3, <1>4

LEMMA ClaimsStep ==
  ASSUME ~Hurried, Types, Places, Single, Claims, [Next]_vars
  PROVE  Claims'
<1> USE ImageTasksAssumption
<1>1. ASSUME mem' = mem,
             \A i \in Jobs : pc'[i] = "claimed" => pc[i] = "claimed" /\ task'[i] = task[i]
      PROVE  Claims'
  <2>1. PICK t : t = None
    OBVIOUS
  <2> QED BY <1>1, <2>1, ClaimsFrame
<1>2. CASE UNCHANGED vars
  BY <1>1, <1>2 DEF vars, requests, work
<1>3. ASSUME NEW j \in Jobs, Ends(j)
      PROVE  Claims'
  <2>1. pc[j] = "out"
    BY <1>3 DEF Ends, Places, AtRest
  <2> QED BY <1>1, <1>3, <2>1 DEF Ends, Leave, Types, work
<1>4. ASSUME NEW j \in Jobs, Accepts(j)
      PROVE  Claims'
  <2>1. PICK t : t = task[j]
    OBVIOUS
  <2>2. PICK r \in TaskRecord : mem' = [mem EXCEPT ![t] = r] /\ r.st = "queued"
    BY <1>4, <2>1 DEF Accepts
  <2>3. UNCHANGED <<task, pc>>
    BY <1>4 DEF Accepts, work
  <2>4. \A u \in Tasks : u # t => mem'[u] = mem[u]
    BY <2>2 DEF Types
  <2>5. t \in Tasks => mem'[t].st # "error"
    BY <2>2 DEF Types
  <2> QED BY <2>3, <2>4, <2>5, ClaimsFrame
<1>5. ASSUME NEW j \in Jobs, NEW t \in Tasks, NEW k \in {"new", "resume"}, Ask(j, t, k)
      PROVE  Claims'
  <2>1. pc[j] = "out"
    BY <1>5 DEF Ask, Places
  <2> QED BY <1>1, <1>5, <2>1 DEF Ask, Types, work
<1>6. ASSUME NEW j \in Jobs, Reserve(j) \/ Enter(j) \/ Partial(j)
      PROVE  Claims'
  BY <1>1, <1>6 DEF Reserve, Enter, Partial, requests, work
<1>7. ASSUME NEW j \in Jobs, Run(j) \/ Unreadable(j)
      PROVE  Claims'
  BY <1>1, <1>7 DEF Run, Unreadable, Goto, Types, requests
<1>8. ASSUME NEW j \in Jobs, Begin(j)
      PROVE  Claims'
  <2>1. /\ UNCHANGED <<mem, task>> /\ \A i \in Jobs : i # j => pc'[i] = pc[i]
        /\ pc'[j] = "claimed" => mem[task[j]].st = "queued"
    BY <1>8 DEF Begin, Goto, Claimable, Types, requests
  <2> QED BY <2>1 DEF Claims
<1>9. ASSUME NEW j \in Jobs, MarkRunning(j) \/ Succeed(j) \/ Fail(j) \/ Broken(j)
      PROVE  Claims'
  <2>0. PICK t : t = task[j]
    OBVIOUS
  <2>1. mem' = [mem EXCEPT ![t] = mem'[t]] /\ task' = task
    BY <1>9, <2>0, WorkEffect
  <2>2. \A i \in Jobs : i # j => pc'[i] = pc[i]
    BY <1>9, <2>0, WorkEffect
  <2>3. \/ pc'[j] \in {"running", "broken"} /\ mem'[t].st = "running"
        \/ pc'[j] # "claimed" /\ mem'[t].code \in {"", "timeout", "other"}
    BY <1>9, <2>0, WorkEffect
  <2>4. \A u \in Tasks : u # t => mem'[u] = mem[u]
    BY <2>1 DEF Types
  <2>5. \A i \in Jobs : pc'[i] = "claimed" => pc[i] = "claimed" /\ task'[i] = task[i]
    BY <2>1, <2>2, <2>3
  <2>6. mem'[t].st # "error" \/ mem'[t].code # "interrupted"
    BY <2>3
  <2> QED BY <2>4, <2>5, <2>6, ClaimsFrame
<1>10. ASSUME NEW j \in Jobs, End(j)
       PROVE  Claims'
  BY <1>1, <1>10 DEF End, Goto, Types
<1>11. ASSUME NEW j \in Jobs, Tell(j)
       PROVE  Claims'
  <2>0. PICK t : t = task[j]
    OBVIOUS
  <2>1. /\ Live(j) /\ pc[j] = "out" /\ UNCHANGED pc
        /\ task' = [task EXCEPT ![j] = None]
        /\ \A u \in Tasks : u # t => mem'[u] = mem[u]
    BY <1>11, <2>0 DEF Tell, Live, Places, Types, work
  <2>2. \A i \in Jobs : pc[i] = "claimed" => task[i] # t
    BY <2>0, <2>1 DEF Single, Live
  <2>3. \A i \in Jobs : pc'[i] = "claimed" => pc[i] = "claimed" /\ task'[i] = task[i]
    BY <2>1 DEF Types
  <2> QED BY <2>1, <2>2, <2>3, ClaimsFrame
<1>12. CASE Close
  BY <1>1, <1>12 DEF Close, requests, work
<1>13. CASE Mark
  <2>1. \A i \in Jobs : pc'[i] = "out"
    BY <1>13 DEF Mark, Joined, Ledger!WithStatus, Places, work
  <2> QED BY <2>1 DEF Claims
<1>14. CASE Stop
  BY <1>14 DEF Stop, Claims
<1>15. CASE Boot
  <2>1. \A i \in Jobs : pc'[i] = "out"
    BY <1>15 DEF Boot, Places, work
  <2> QED BY <2>1 DEF Claims
<1>16. ASSUME NEW t \in Tasks, Expire(t)
       PROVE  Claims'
  <2>1. UNCHANGED <<task, pc>> /\ mem' = [mem EXCEPT ![t] = Absent] /\ Absent.st = "none"
    BY <1>16 DEF Expire, Absent, Record, requests, work
  <2>2. mem'[t] = Absent /\ \A u \in Tasks : u # t => mem'[u] = mem[u]
    BY <2>1 DEF Types
  <2> QED BY <2>1, <2>2, ClaimsFrame
<1> QED BY <1>2, <1>3, <1>4, <1>5, <1>6, <1>7, <1>8, <1>9, <1>10, <1>11, <1>12, <1>13,
           <1>14, <1>15, <1>16, Cases

-----------------------------------------------------------------------------
(* The saved result.                                                       *)

\* What a step of a service that runs does to a result that stands.
LEMMA StandingStep ==
  ASSUME Types, Places, Single, Kept, Next, phase # "down",
         NEW t \in Tasks, promise[t] = "result", Standing(t)
  PROVE  Standing(t)' \/ promise'[t] = "none" \/ LateRecord(t)
<1>1. mem[t].st = "success" /\ disk[t].st = "success"
  BY DEF Standing, Up
<1>2. ASSUME mem'[t].st = "success" \/ ~Up',
             disk'[t] = disk[t] \/ disk'[t] = mem[t] \/ (disk'[t] = mem'[t] /\ Up')
      PROVE  Standing(t)'
  BY <1>1, <1>2 DEF Standing
<1>3. ASSUME NEW j \in Jobs, Ends(j)
      PROVE  Standing(t)'
  <2>1. mem' = mem
    BY <1>3 DEF Ends
  <2>2. CASE disk' = disk \/ disk' = mem
    BY <1>1, <1>2, <2>1, <2>2
  <2>3. ASSUME NEW r, disk' = [mem EXCEPT ![task[j]] = r],
               j \in entered \/ Resumable(mem[task[j]])
        PROVE  Standing(t)'
    <3>1. task[j] # t
      BY <1>1, <2>3 DEF Single, Resumable
    <3>2. disk'[t] = mem[t]
      BY <2>3, <3>1 DEF Types
    <3> QED BY <1>1, <1>2, <2>1, <3>2
  <2> QED BY <1>3, <2>2, <2>3 DEF Ends
<1>4. ASSUME NEW j \in Jobs, Accepts(j)
      PROVE  Standing(t)'
  <2>1. task[j] # t
    BY <1>1, <1>4 DEF Accepts, Resumable
  <2>2. mem'[t] = mem[t] /\ disk' = mem' /\ phase' = phase
    BY <1>4, <2>1 DEF Accepts, Types
  <2> QED BY <1>1, <1>2, <2>2
<1>5. ASSUME NEW j \in Jobs, MarkRunning(j) \/ Succeed(j) \/ Fail(j) \/ Broken(j)
      PROVE  Standing(t)' \/ LateRecord(t)
  <2>1. CASE task[j] = t
    <3>1. pc[j] \notin {"claimed", "running", "failing"}
      BY <2>1 DEF Kept
    <3>2. Broken(j)
      BY <1>5, <3>1 DEF MarkRunning, Succeed, Fail
    <3>3. pc[j] = "broken" /\ pc'[j] = "over"
      BY <3>2 DEF Broken, Goto, Types
    <3> QED BY <2>1, <3>3 DEF LateRecord
  <2>2. CASE task[j] # t
    <3>1. \E r, ok : Update(task[j], r, ok)
      BY <1>5 DEF MarkRunning, Succeed, Fail, Broken
    <3>2. mem'[t] = mem[t] /\ (disk' = disk \/ disk' = mem')
      BY <2>2, <3>1 DEF Update, Write, Types
    <3>3. phase' = phase
      BY <1>5 DEF MarkRunning, Succeed, Fail, Broken
    <3> QED BY <1>1, <1>2, <3>2, <3>3 DEF Up
  <2> QED BY <2>1, <2>2
<1>6. ASSUME NEW j \in Jobs,
             \/ (\E u \in Tasks, k \in {"new", "resume"} : Ask(j, u, k))
             \/ Reserve(j) \/ Enter(j) \/ Run(j) \/ Begin(j) \/ Unreadable(j)
             \/ Partial(j) \/ End(j)
      PROVE  Standing(t)'
  <2>1. mem' = mem /\ (disk' = disk \/ disk' = mem)
    BY <1>6 DEF Ask, Reserve, Enter, Run, Begin, Unreadable, Partial, End
  <2> QED BY <1>1, <1>2, <2>1
<1>7. ASSUME NEW j \in Jobs, Tell(j)
      PROVE  Standing(t)'
  <2>1. mem'[t] = mem[t] /\ (disk' = disk \/ disk' = mem') /\ phase' = phase
    BY <1>1, <1>7 DEF Tell, NotStarted, Write, Types
  <2> QED BY <1>1, <1>2, <2>1 DEF Up
<1>8. CASE Mark
  <2>1. mem'[t] = mem[t] /\ (disk' = disk \/ disk' = mem') /\ phase' = "stopped"
    BY <1>1, <1>8 DEF Mark, MarkedAtEnd, NotStarted, Write
  <2> QED BY <1>1, <1>2, <2>1 DEF Up
<1>9. CASE Close \/ Stop
  <2>1. disk' = disk /\ (mem' = mem \/ ~Up')
    BY <1>9 DEF Close, Stop, Up
  <2> QED BY <1>1, <1>2, <2>1
<1>10. ASSUME NEW u \in Tasks, Expire(u)
       PROVE  Standing(t)' \/ promise'[t] = "none"
  <2>1. CASE u = t
    BY <1>10, <2>1 DEF Expire, Types
  <2>2. CASE u # t
    <3>1. mem'[t] = mem[t] /\ (disk' = disk \/ disk' = mem') /\ phase' = phase
      BY <1>10, <2>2 DEF Expire, Write, Types
    <3> QED BY <1>1, <1>2, <3>1 DEF Up
  <2> QED BY <2>1, <2>2
<1>11. ~Boot
  BY DEF Boot
<1> QED BY <1>3, <1>4, <1>5, <1>6, <1>7, <1>8, <1>9, <1>10, <1>11, Cases

\* The service that starts finds the result in the file.
LEMMA StandingBoot ==
  ASSUME Types, Places, Single, Next, phase = "down", NEW t \in Tasks, Standing(t)
  PROVE  Standing(t)'
<1>1. \A j \in Jobs : pc[j] = "out" /\ slot[j] = "idle" /\ task[j] = None /\ j \notin untold
  BY DEF Places
<1>2. ASSUME NEW j \in Jobs
      PROVE  /\ ~Ends(j) /\ ~Accepts(j) /\ ~Reserve(j) /\ ~Enter(j) /\ ~Tell(j)
             /\ \A u \in Tasks, k \in {"new", "resume"} : ~Ask(j, u, k)
  BY <1>1 DEF Ends, Accepts, Reserve, Enter, Tell, Ask, Up
<1>3. ASSUME NEW j \in Jobs
      PROVE  /\ ~Run(j) /\ ~Begin(j) /\ ~Unreadable(j) /\ ~MarkRunning(j) /\ ~Partial(j)
             /\ ~Succeed(j) /\ ~Fail(j) /\ ~Broken(j) /\ ~End(j)
  BY <1>1, LedgerSteps DEF Run, Begin, Unreadable, MarkRunning, Partial, Succeed, Fail,
     Broken, End
<1>4. ~Close /\ ~Mark /\ ~Stop /\ \A u \in Tasks : ~Expire(u)
  BY DEF Close, Mark, Stop, Expire, Up
<1>5. Boot
  BY <1>2, <1>3, <1>4, Cases
<1>6. mem' = Recovered /\ (disk' = disk \/ disk' = Recovered)
  BY <1>5 DEF Boot
<1>7. disk[t].st = "success" /\ Recovered[t].st = "success"
  BY RecoveredType DEF Standing
<1> QED BY <1>6, <1>7 DEF Standing

\* A result is promised when it is saved, and at no other step.
LEMMA StandingPromised ==
  ASSUME Types, Places, Single, Next,
         NEW t \in Tasks, promise[t] # "result", promise'[t] = "result"
  PROVE  Standing(t)'
<1>1. ASSUME NEW j \in Jobs, Succeed(j)
      PROVE  Standing(t)'
  <2>1. PICK ok \in Outcomes :
          /\ Update(task[j], Succeeded(mem[task[j]]), ok)
          /\ promise' = [promise EXCEPT ![task[j]] = IF ok THEN "result" ELSE @]
    BY <1>1 DEF Succeed
  <2>2. task[j] = t /\ ok
    BY <2>1 DEF Types
  <2>3. disk' = mem' /\ mem'[t] = Succeeded(mem[t])
    BY <2>1, <2>2 DEF Update, Write, Types
  <2>4. Succeeded(mem[t]).st = "success"
    BY DEF Succeeded, Record
  <2> QED BY <2>3, <2>4 DEF Standing
<1>2. ASSUME NEW j \in Jobs,
             \/ Ends(j) \/ (\E u \in Tasks, k \in {"new", "resume"} : Ask(j, u, k))
             \/ Reserve(j) \/ Enter(j) \/ Run(j) \/ Begin(j) \/ Unreadable(j)
             \/ MarkRunning(j) \/ Partial(j) \/ Fail(j) \/ Broken(j) \/ End(j) \/ Tell(j)
      PROVE  promise' = promise
  BY <1>2 DEF Ends, Ask, Reserve, Enter, Run, Begin, Unreadable, MarkRunning, Partial,
     Fail, Broken, End, Tell
<1>3. ASSUME Close \/ Mark \/ Stop \/ Boot
      PROVE  promise' = promise
  BY <1>3 DEF Close, Mark, Stop, Boot
<1>4. ASSUME NEW j \in Jobs, Accepts(j)
      PROVE  promise'[t] # "result"
  BY <1>4 DEF Accepts, Types
<1>5. ASSUME NEW u \in Tasks, Expire(u)
      PROVE  promise'[t] # "result"
  BY <1>5 DEF Expire, Types
<1> QED BY <1>1, <1>2, <1>3, <1>4, <1>5, Cases

\* No write fails: then no job has a failure of its own to record.
Sound == ~MayFail => \A j \in Jobs : pc[j] \notin {"failing", "broken"}

LEMMA SoundStep ==
  ASSUME Types, Places, Single, Sound, [Next]_vars
  PROVE  Sound'
<1> SUFFICES ASSUME ~MayFail, NEW i \in Jobs
             PROVE  pc'[i] \notin {"failing", "broken"}
  BY DEF Sound
<1>1. pc[i] \notin {"failing", "broken"} /\ \A ok \in Outcomes : ok
  BY DEF Sound, Outcomes
<1>2. CASE UNCHANGED vars
  BY <1>1, <1>2 DEF vars, work
<1>3. ASSUME NEW j \in Jobs,
             \/ Ends(j) \/ Accepts(j)
             \/ (\E u \in Tasks, k \in {"new", "resume"} : Ask(j, u, k))
             \/ Reserve(j) \/ Enter(j) \/ Partial(j) \/ Tell(j)
      PROVE  pc' = pc
  BY <1>3 DEF Ends, Leave, Accepts, Ask, Reserve, Enter, Partial, Tell, work
<1>4. ASSUME NEW j \in Jobs, Run(j) \/ Begin(j) \/ Unreadable(j) \/ End(j)
      PROVE  pc'[i] \notin {"failing", "broken"}
  BY <1>1, <1>4 DEF Run, Begin, Unreadable, End, Goto, Types
<1>5. ASSUME NEW j \in Jobs, MarkRunning(j) \/ Succeed(j) \/ Fail(j) \/ Broken(j)
      PROVE  pc'[i] \notin {"failing", "broken"}
  BY <1>1, <1>5 DEF MarkRunning, Succeed, Fail, Broken, Goto, Types
<1>6. ASSUME Close \/ Mark \/ Stop \/ Boot \/ \E u \in Tasks : Expire(u)
      PROVE  pc'[i] = pc[i] \/ pc'[i] = "out"
  BY <1>6 DEF Close, Mark, Stop, Boot, Expire, work
<1> QED BY <1>1, <1>2, <1>3, <1>4, <1>5, <1>6, Cases

-----------------------------------------------------------------------------
(* The theorems.                                                           *)

IInv == Types /\ Places /\ Keys /\ Single /\ Kept

LEMMA IInvInit ==
  ASSUME Init
  PROVE  IInv
<1> USE ImageTasksAssumption
<1>1. Absent \in TaskRecord /\ OldTasks \subseteq TaskRecord
  BY DEF Absent, OldTasks, NewTask, Record, TaskRecord
<1>2. Types
  BY <1>1 DEF Init, Types, Ledger!Status
<1>3. Places /\ Keys /\ Single /\ Kept
  BY DEF Init, Places, Keys, Single, Live, Kept, AtRest
<1> QED BY <1>2, <1>3 DEF IInv

LEMMA IInvStep ==
  ASSUME IInv, [Next]_vars
  PROVE  IInv'
BY TypesStep, PlacesStep, KeysStep, SingleStep, KeptStep DEF IInv

LEMMA Invariance == Spec => []IInv
BY IInvInit, IInvStep, PTL DEF Spec

\* The state keeps its types, and every key in _executing_task_keys belongs
\* to a callback that has still to discard it.
THEOREM TaskTypeTheorem == Spec => []TypeOK
<1>1. IInv => TypeOK
  BY DEF IInv, Types, Keys, TypeOK, Labels, Ledger!TypeOK
<1> QED BY <1>1, Invariance, PTL

\* At most one callback at a time works on a task, however many submissions,
\* resumes, failures and restarts there are.
THEOREM OneExecutionTheorem == Spec => []OneExecution
<1>1. IInv => OneExecution
  BY DEF IInv, Single, Live, OneExecution
<1> QED BY <1>1, Invariance, PTL

\* A task that was accepted is in the file until it expires, whatever writes
\* fail and whenever the service stops.
THEOREM NotForgottenTheorem == Spec => []NotForgotten
<1>1. IInv => NotForgotten
  BY DEF IInv, Kept, NotForgotten
<1> QED BY <1>1, Invariance, PTL

\* A result that was saved is taken back by its expiry or by the late record
\* of a job of the same task, and by no other step of the service.
THEOREM SavedResultStaysTheorem == Spec => SavedResultStays
<1>1. ASSUME IInv, Next, NEW t \in Tasks, promise[t] = "result", Standing(t)
      PROVE  Standing(t)' \/ promise'[t] = "none" \/ LateRecord(t)
  BY <1>1, StandingStep, StandingBoot DEF IInv
<1>2. IInv /\ [Next]_vars =>
        [\A t \in Tasks : promise[t] = "result" /\ Standing(t)
           => Standing(t)' \/ promise'[t] = "none" \/ LateRecord(t)]_vars
  BY <1>1
<1> QED BY <1>2, Invariance, PTL DEF Spec, SavedResultStays

\* Where no write fails, a result that was saved remains the result of its
\* task until it expires, through shutdowns, crashes and recoveries.
THEOREM ResultIsDurableTheorem ==
  ASSUME ~MayFail
  PROVE  Spec => []ResultIsDurable
<1> DEFINE Inv == IInv /\ Sound /\ ResultIsDurable
<1>1. Init => Inv
  BY IInvInit DEF Init, Sound, ResultIsDurable
<1>2. ASSUME Inv, [Next]_vars
      PROVE  Inv'
  <2>1. Types /\ Places /\ Single /\ IInv'
    BY <1>2, IInvStep DEF IInv
  <2>2. Sound'
    BY <1>2, <2>1, SoundStep
  <2>3. ASSUME NEW t \in Tasks, promise'[t] = "result"
        PROVE  Standing(t)'
    <3>1. CASE UNCHANGED vars
      BY <1>2, <2>3, <3>1 DEF vars, ResultIsDurable, Standing, Up
    <3>2. CASE Next /\ promise[t] # "result"
      BY <2>1, <2>3, <3>2, StandingPromised
    <3>3. CASE Next /\ promise[t] = "result"
      <4>1. Standing(t)
        BY <1>2, <3>3 DEF ResultIsDurable
      <4>2. ~LateRecord(t)
        BY <1>2 DEF LateRecord, Sound
      <4> QED BY <1>2, <2>3, <3>3, <4>1, <4>2, StandingStep, StandingBoot DEF IInv
    <3> QED BY <1>2, <3>1, <3>2, <3>3
  <2> QED BY <2>1, <2>2, <2>3 DEF ResultIsDurable
<1>3. Inv => ResultIsDurable
  OBVIOUS
<1> QED BY <1>1, <1>2, <1>3, PTL DEF Spec

\* No task is left queued or running without a job or a shutdown that ends it,
\* if no older version left a file and every shutdown waits for the workers.
THEOREM UnfinishedHasJobTheorem ==
  ASSUME ~Hurried, ~OldFile
  PROVE  Spec => []UnfinishedHasJob
<1>1. ASSUME Init PROVE Driven
  <2>1. Absent.st = "none" /\ Absent.code = ""
    BY DEF Absent, Record
  <2>2. ~OldFile
    OBVIOUS
  <2>3. phase = "down" /\ \A t \in Tasks : mem[t] = Absent /\ disk[t] = Absent
    BY <1>1, <2>2 DEF Init
  <2> QED BY <2>1, <2>3 DEF Driven, DrivenOf, Unfinished
<1>2. IInv /\ Driven /\ [Next]_vars => Driven'
  BY DrivenStep DEF IInv
<1>3. IInv /\ Driven => UnfinishedHasJob
  <2>1. ASSUME IInv, Driven, NEW t \in Tasks
        PROVE  /\ mem[t].st = "queued"
                    => phase = "closing" \/ \E j \in Jobs : task[j] = t /\ slot[j] \in {"pending", "running"}
               /\ mem[t].st = "running"
                    => \E j \in Jobs : task[j] = t /\ pc[j] \in {"running", "broken"}
               /\ phase = "stopped" => mem[t].st \notin Unfinished
    <3>1. \A j \in Jobs : Queued(j) => slot[j] \in {"pending", "running"}
      BY <2>1 DEF IInv, Places, Queued
    <3> QED BY <2>1, <3>1 DEF Driven, DrivenOf, Running
  <2> QED BY <2>1 DEF UnfinishedHasJob
<1> QED BY <1>1, <1>2, <1>3, Invariance, PTL DEF Spec

\* A task that was ended because it had not started is never started, if every
\* shutdown waits for the workers.
THEOREM InterruptedNeverStartsTheorem ==
  ASSUME ~Hurried
  PROVE  Spec => InterruptedNeverStarts
<1> USE ImageTasksAssumption
<1>1. Init => Claims
  BY DEF Init, Claims
<1>2. IInv /\ Claims /\ [Next]_vars => Claims'
  BY ClaimsStep DEF IInv
<1>3. ASSUME IInv, Claims, Next, NEW t \in Tasks, mem[t].st = "error", mem[t].code = "interrupted"
      PROVE  mem'[t].st # "running"
  <2>0. Types /\ Places /\ Single
    BY <1>3 DEF IInv
  <2>1. CASE mem'[t] = mem[t]
    BY <1>3, <2>1
  <2>2. ASSUME NEW j \in Jobs, Accepts(j)
        PROVE  mem'[t].st # "running"
    <3>1. PICK r \in TaskRecord : mem' = [mem EXCEPT ![task[j]] = r] /\ r.st = "queued"
      BY <2>2 DEF Accepts
    <3> QED BY <1>3, <2>0, <3>1 DEF Types
  <2>3. ASSUME NEW j \in Jobs, MarkRunning(j) \/ Succeed(j) \/ Fail(j) \/ Broken(j)
        PROVE  mem'[t].st # "running"
    <3>0. PICK s : s = task[j]
      OBVIOUS
    <3>1. mem' = [mem EXCEPT ![s] = mem'[s]]
      BY <2>0, <2>3, <3>0, WorkEffect
    <3>2. pc[j] = "claimed" \/ mem'[s].st \in {"success", "error"}
      BY <2>0, <2>3, <3>0, WorkEffect
    <3>3. CASE s # t
      BY <1>3, <2>0, <3>1, <3>3 DEF Types
    <3>4. CASE s = t
      BY <1>3, <3>0, <3>2, <3>4 DEF Claims
    <3> QED BY <3>3, <3>4
  <2>4. ASSUME NEW j \in Jobs, Tell(j)
        PROVE  mem'[t].st # "running"
    <3>1. mem'[t] = mem[t] \/ mem'[t] = Interrupted(mem[t])
      BY <2>0, <2>4 DEF Tell, Types
    <3>2. Interrupted(mem[t]).st = "error"
      BY DEF Interrupted, Record
    <3> QED BY <1>3, <3>1, <3>2
  <2>5. CASE Mark
    <3>1. mem'[t] = mem[t] \/ mem'[t] = Interrupted(mem[t])
      BY <2>5 DEF Mark, MarkedAtEnd
    <3>2. Interrupted(mem[t]).st = "error"
      BY DEF Interrupted, Record
    <3> QED BY <1>3, <3>1, <3>2
  <2>6. CASE Stop
    BY <2>6 DEF Stop, Absent, Record
  <2>7. CASE Boot
    <3>1. mem[t] = Absent
      BY <2>0, <2>7 DEF Boot, Places
    <3>2. Absent.st = "none"
      BY DEF Absent, Record
    <3> QED BY <1>3, <3>1, <3>2
  <2>8. ASSUME NEW u \in Tasks, Expire(u)
        PROVE  mem'[t].st # "running"
    <3>1. mem'[t] = mem[t] \/ mem'[t] = Absent
      BY <2>0, <2>8 DEF Expire, Types
    <3>2. Absent.st = "none"
      BY DEF Absent, Record
    <3> QED BY <1>3, <3>1, <3>2
  <2>9. ASSUME NEW j \in Jobs,
               \/ Ends(j) \/ (\E s \in Tasks, k \in {"new", "resume"} : Ask(j, s, k))
               \/ Reserve(j) \/ Enter(j) \/ Run(j) \/ Begin(j) \/ Unreadable(j)
               \/ Partial(j) \/ End(j)
        PROVE  mem' = mem
    BY <2>9 DEF Ends, Ask, Reserve, Enter, Run, Begin, Unreadable, Partial, End
  <2>10. CASE Close
    BY <2>1, <2>10 DEF Close
  <2> QED BY <1>3, <2>0, <2>1, <2>2, <2>3, <2>4, <2>5, <2>6, <2>7, <2>8, <2>9, <2>10, Cases
<1>4. IInv /\ Claims /\ [Next]_vars =>
        [\A t \in Tasks : mem[t].st = "error" /\ mem[t].code = "interrupted"
           => mem'[t].st # "running"]_vars
  BY <1>3
<1> QED BY <1>1, <1>2, <1>4, Invariance, PTL DEF Spec, InterruptedNeverStarts

\* The service moves a job only as the contract of the runner lets it, up to
\* the end of its process: the runner that keeps JobLedger is all it needs.
THEOREM LedgerKeptTheorem == Spec => LedgerKept
<1>1. ASSUME IInv, NEW j \in Jobs, Ends(j)
      PROVE  Ledger!Release(j) \/ UNCHANGED slot
  <2>1. slot \in [Jobs -> Ledger!Status]
    BY <1>1 DEF IInv, Types
  <2>2. slot' = [slot EXCEPT ![j] = IF @ = "reserved" THEN "released" ELSE @]
    BY <1>1 DEF Ends, Leave, GaveBack
  <2>3. CASE slot[j] = "reserved"
    <3>1. slot' = [i \in Jobs |-> IF i \in {j} THEN "released" ELSE slot[i]]
      BY <2>1, <2>2, <2>3
    <3> QED BY <2>3, <3>1 DEF Ledger!Release, Ledger!Move, Ledger!WithStatus
  <2>4. CASE slot[j] # "reserved"
    BY <2>1, <2>2, <2>4
  <2> QED BY <2>3, <2>4
<1>2. ASSUME IInv, NEW j \in Jobs, Accepts(j)
      PROVE  Ledger!Commit(j)
  <2>1. slot \in [Jobs -> Ledger!Status]
    BY <1>2 DEF IInv, Types
  <2>2. slot[j] = "reserved" /\ slot' = [slot EXCEPT ![j] = "pending"]
    BY <1>2 DEF Accepts
  <2>3. slot' = [i \in Jobs |-> IF i \in {j} THEN "pending" ELSE slot[i]]
    BY <2>1, <2>2
  <2> QED BY <2>2, <2>3 DEF Ledger!Commit, Ledger!Move, Ledger!WithStatus
<1>3. ASSUME IInv, Close
      PROVE  Ledger!Close
  <2>1. slot \in [Jobs -> Ledger!Status]
    BY <1>3 DEF IInv, Types
  <2>2. slot' = [j \in Jobs |-> CASE slot[j] = "reserved" -> "released"
                                  [] slot[j] = "pending" -> "cancelled"
                                  [] OTHER -> slot[j]]
    BY <1>3 DEF Close
  <2>3. \A j \in Jobs : \/ slot'[j] = slot[j]
                        \/ slot[j] = "reserved" /\ slot'[j] = "released"
                        \/ slot[j] = "pending" /\ slot'[j] = "cancelled"
    BY <2>2
  <2>4. \A j \in Jobs : slot'[j] \in Ledger!Status
    BY <2>1, <2>3 DEF Ledger!Status
  <2>5. slot' \in [Jobs -> Ledger!Status]
    BY <2>2, <2>4
  <2> QED BY <2>3, <2>5 DEF Ledger!Close
<1>4. ASSUME Stop
      PROVE  Ledger!Init'
  BY <1>4 DEF Stop, Ledger!Init
<1>5. ASSUME NEW j \in Jobs, Reserve(j) \/ Run(j) \/ End(j)
      PROVE  Ledger!Reserve(j) \/ Ledger!Run(j) \/ Ledger!Finish(j)
  BY <1>5 DEF Reserve, Run, End
<1>6. ASSUME NEW j \in Jobs,
             \/ (\E t \in Tasks, k \in {"new", "resume"} : Ask(j, t, k))
             \/ Enter(j) \/ Partial(j) \/ Moves(j) \/ Tell(j)
      PROVE  UNCHANGED slot
  BY <1>6 DEF Ask, Enter, Partial, Moves, Tell
<1>7. ASSUME Mark \/ Boot \/ \E t \in Tasks : Expire(t)
      PROVE  UNCHANGED slot
  BY <1>7 DEF Mark, Boot, Expire
<1>8. ASSUME IInv, Next
      PROVE  [Ledger!Next \/ (Stop /\ Ledger!Init')]_slot
  <2>1. Types /\ Places /\ Single
    BY <1>8 DEF IInv
  <2>2. ASSUME NEW j \in Jobs, Ends(j) \/ Accepts(j)
        PROVE  Ledger!Next \/ UNCHANGED slot
    BY <1>1, <1>2, <1>8, <2>2 DEF Ledger!Next
  <2>3. ASSUME NEW j \in Jobs, Reserve(j) \/ Run(j) \/ End(j)
        PROVE  Ledger!Next
    BY <1>5, <2>3 DEF Ledger!Next
  <2>4. Close => Ledger!Next
    BY <1>3, <1>8 DEF Ledger!Next
  <2> QED BY <1>4, <1>6, <1>7, <1>8, <2>1, <2>2, <2>3, <2>4, Cases, MovesCases
<1>9. IInv /\ [Next]_vars => [Ledger!Next \/ (Stop /\ Ledger!Init')]_slot
  BY <1>8 DEF vars
<1> QED BY <1>9, Invariance, PTL DEF Spec, LedgerKept

=============================================================================
