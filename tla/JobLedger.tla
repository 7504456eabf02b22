------------------------------ MODULE JobLedger ------------------------------
(***************************************************************************)
(* What a bounded background runner promises to the code that uses it,     *)
(* with no threads, queues or locks: a bounded number of jobs is on the    *)
(* books at any time, a bounded number of them executes, and every job     *)
(* that was committed leaves the books exactly once, either because it ran *)
(* or because it was cancelled without having started.                     *)
(*                                                                         *)
(* BoundedTaskRunner implements this specification (LedgerSpec there).     *)
(***************************************************************************)
EXTENDS Integers, FiniteSets

CONSTANTS Jobs,          \* admission slots that clients may ask for
          Capacity,      \* how many of them may be on the books at once
          MaxRunning     \* how many of them may execute at once

VARIABLE status          \* where each job stands

Status == {"idle", "reserved", "pending", "running",
           "released", "finished", "cancelled"}

TypeOK == status \in [Jobs -> Status]

WithStatus(S) == {j \in Jobs : status[j] \in S}

OnTheBooks == WithStatus({"reserved", "pending", "running"})

Move(S, from, to) ==
  /\ S \subseteq WithStatus({from})
  /\ status' = [j \in Jobs |-> IF j \in S THEN to ELSE status[j]]

Init == status = [j \in Jobs |-> "idle"]

Reserve(j) ==
  /\ Cardinality(OnTheBooks) < Capacity
  /\ Move({j}, "idle", "reserved")

Commit(j)  == Move({j}, "reserved", "pending")

Release(j) == Move({j}, "reserved", "released")

Run(j) ==
  /\ Cardinality(WithStatus({"running"})) < MaxRunning
  /\ Move({j}, "pending", "running")

Finish(j) == Move({j}, "running", "finished")

Cancel(j) == Move({j}, "pending", "cancelled")

\* Closing the runner takes any number of jobs off the books in one step,
\* none of which has started.
Close ==
  /\ status' \in [Jobs -> Status]
  /\ \A j \in Jobs : \/ status'[j] = status[j]
                     \/ status[j] = "reserved" /\ status'[j] = "released"
                     \/ status[j] = "pending" /\ status'[j] = "cancelled"

Next ==
  \/ Close
  \/ \E j \in Jobs : \/ Reserve(j) \/ Commit(j) \/ Release(j)
                     \/ Run(j) \/ Finish(j) \/ Cancel(j)

Spec == Init /\ [][Next]_status

=============================================================================
