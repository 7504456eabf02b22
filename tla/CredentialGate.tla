---------------------------- MODULE CredentialGate ----------------------------
(***************************************************************************)
(* services/credential_coordinator.py and its two callers: the refresh of  *)
(* an account (account_service.py, _refresh_access_token_owner) and the    *)
(* exchange of a refresh token by an import (account_ingest_service.py,    *)
(* _prepare_refresh_batch).                                                *)
(*                                                                         *)
(* One account is followed through its credentials. A credential is an     *)
(* access token, the refresh token that renews it and the time it was      *)
(* obtained (generation()); it is a number here, and rtOf maps it to its   *)
(* refresh token. The gate of a refresh token is a database row, edited    *)
(* in one transaction by any replica; the HTTP exchange happens between    *)
(* two such transactions. Replicas read the account from a local snapshot  *)
(* that may be stale.                                                      *)
(***************************************************************************)
EXTENDS Integers, Sequences, FiniteSets

CONSTANTS Processes,   \* refreshes and import workers, in any replica
          Requests,    \* image requests: each asks for one lease
          RTs,         \* refresh tokens
          FileRTs,     \* those an operator or an import file can bring in
          Limit,       \* image_account_concurrency
          MaxCreds,    \* bound on the credentials that come to exist
          MayCrash,    \* whether processes crash
          None         \* no process, no refresh token

ASSUME GateAssumption ==
  /\ FileRTs \subseteq RTs
  /\ IsFiniteSet(Requests)
  /\ Limit \in Nat \ {0}
  /\ MaxCreds \in Nat /\ MayCrash \in BOOLEAN
  /\ None \notin Processes \cup RTs

VARIABLES
  (* storage *)
  row,       \* credential in the account's row, 0 when there is no account
  past,      \* credentials the row has held, which a backup may hold
  ckpt,      \* credentials in import checkpoints, not yet in the pool
  (* credential_runtime_gates, by refresh token *)
  fence,     \* refresh_state, "none" before the first refresh
  owner,     \* owner of the last refresh that began
  fenceGen,  \* generation it began from, 0 for an import entry
  leases,    \* requests with a lease that has not expired
  (* processes *)
  view,      \* credential of the account in the local snapshot
  pc,        \* where the refresh is
  key,       \* the gate of its ticket
  from,      \* the credential it renews, 0 for an import entry
  to,        \* the credential it was issued
  verdict,   \* the state it is to leave the gate in
  (* image requests *)
  held,      \* the credential leased to it, 0 when it has no lease
  (* the world *)
  rtOf,      \* refresh token of every credential so far
  doubt      \* refresh tokens with an exchange that was sent and neither
             \* rejected nor followed by a durable save of what it issued

storage == <<row, past, ckpt>>
gates   == <<fence, owner, fenceGen>>
tickets == <<key, from, to>>
lessees == <<leases, held>>
world   == <<rtOf, doubt>>
vars == <<storage, gates, view, pc, tickets, verdict, lessees, world>>

Creds == 1..Len(rtOf)

Init ==
  /\ row = 0 /\ past = {} /\ ckpt = {}
  /\ fence = [r \in RTs |-> "none"]
  /\ owner = [r \in RTs |-> None]
  /\ fenceGen = [r \in RTs |-> 0]
  /\ leases = [r \in RTs |-> {}]
  /\ view = [p \in Processes |-> 0]
  /\ pc = [p \in Processes |-> "idle"]
  /\ key = [p \in Processes |-> None]
  /\ from = [p \in Processes |-> 0]
  /\ to = [p \in Processes |-> 0]
  /\ verdict = [p \in Processes |-> "uncertain"]
  /\ held = [q \in Requests |-> 0]
  /\ rtOf = <<>>
  /\ doubt = {}

-----------------------------------------------------------------------------
(* The account's row: operators, imports and the replicas' snapshots.      *)

\* The account is added, or given an access token from outside.
Put(r) ==
  /\ Len(rtOf) < MaxCreds
  /\ rtOf' = Append(rtOf, r)
  /\ row' = Len(rtOf) + 1
  /\ past' = past \cup {row'}
  /\ UNCHANGED <<ckpt, gates, view, pc, tickets, verdict, lessees, doubt>>

\* A backup brings an earlier credential of the account back, or no account.
Restore(g) ==
  /\ row' = g
  /\ UNCHANGED <<past, ckpt, gates, view, pc, tickets, verdict, lessees, world>>

\* save_batch: a credential of the checkpoint enters the pool.
SaveImported(g) ==
  /\ row = 0
  /\ row' = g
  /\ past' = past \cup {g}
  /\ ckpt' = ckpt \ {g}
  /\ UNCHANGED <<gates, view, pc, tickets, verdict, lessees, world>>

Sync(p) ==
  /\ view' = [view EXCEPT ![p] = row]
  /\ UNCHANGED <<storage, gates, pc, tickets, verdict, lessees, world>>

-----------------------------------------------------------------------------
(* Image leases: acquire_image, release and the expiry that edit() finds.  *)

NotUncertain(r) == fence[r] # "uncertain"

NotFenced(r) == fence[r] \notin {"sent", "uncertain"}

Exchanged(r, g) == fence[r] = "done" /\ fenceGen[r] = g

\* current(): the snapshot still shows what the row holds.
Current(g) == g # 0 /\ row = g

HasOneSlotMore(r) == Cardinality(leases[r]) <= Limit

HasSlot(r) == Cardinality(leases[r]) < Limit

Acquire(q, p) ==
  LET g == view[p]
      r == rtOf[g]
  IN /\ held[q] = 0
     /\ Current(g)
     /\ NotFenced(r)
     /\ ~Exchanged(r, g)
     /\ HasSlot(r)
     /\ leases' = [leases EXCEPT ![r] = @ \cup {q}]
     /\ held' = [held EXCEPT ![q] = g]
     /\ UNCHANGED <<storage, gates, view, pc, tickets, verdict, world>>

\* The request releases its lease, or the lease expires because the request
\* outlives it, dies with its process or cannot release it; a release that
\* comes late or twice finds no lease of that owner and changes nothing.
EndLease(q) ==
  /\ held[q] # 0
  /\ leases' = [r \in RTs |-> leases[r] \ {q}]
  /\ held' = [held EXCEPT ![q] = 0]
  /\ UNCHANGED <<storage, gates, view, pc, tickets, verdict, world>>

-----------------------------------------------------------------------------
(* A refresh: begin_refresh, the exchange, the save and finish_refresh.    *)

LeasesIgnored(r) == TRUE

NoLease(r) == leases[r] = {}

\* The refresh is over, in whatever state it leaves the gate.
Forget(p) ==
  /\ pc' = [pc EXCEPT ![p] = "idle"]
  /\ key' = [key EXCEPT ![p] = None]
  /\ from' = [from EXCEPT ![p] = 0]
  /\ to' = [to EXCEPT ![p] = 0]
  /\ verdict' = [verdict EXCEPT ![p] = "uncertain"]

\* What begin_refresh writes.
Fence(p, r, g) ==
  /\ fence' = [fence EXCEPT ![r] = "sent"]
  /\ owner' = [owner EXCEPT ![r] = p]
  /\ fenceGen' = [fenceGen EXCEPT ![r] = g]
  /\ pc' = [pc EXCEPT ![p] = "begun"]
  /\ key' = [key EXCEPT ![p] = r]
  /\ from' = [from EXCEPT ![p] = g]
  /\ UNCHANGED <<storage, view, to, verdict, lessees, world>>

Begin(p) ==
  LET g == view[p]
      r == rtOf[g]
  IN /\ pc[p] = "idle"
     /\ Current(g)
     /\ NoLease(r) /\ NotFenced(r) /\ ~Exchanged(r, g)
     /\ Fence(p, r, g)

\* An entry whose refresh token the snapshot knows is not exchanged.
BeginImport(p, r) ==
  /\ pc[p] = "idle"
  /\ view[p] # 0 => rtOf[view[p]] # r
  /\ NoLease(r) /\ NotFenced(r) /\ fence[r] # "done"
  /\ Fence(p, r, 0)

\* The deadline has passed, or no session could be built: nothing is sent.
GiveUp(p) ==
  /\ pc[p] = "begun"
  /\ pc' = [pc EXCEPT ![p] = "finish"]
  /\ verdict' = [verdict EXCEPT ![p] = "uncertain"]
  /\ UNCHANGED <<storage, gates, view, tickets, lessees, world>>

Send(p) ==
  /\ pc[p] = "begun"
  /\ pc' = [pc EXCEPT ![p] = "asked"]
  /\ doubt' = doubt \cup {key[p]}
  /\ UNCHANGED <<storage, gates, view, tickets, verdict, lessees, rtOf>>

\* 400, 401, 403 or 429: nothing was issued. The gate opens again, unless the
\* account changed meanwhile or the error could not be recorded in its row.
Rejected(p) ==
  /\ pc[p] = "asked"
  /\ pc' = [pc EXCEPT ![p] = "finish"]
  /\ verdict' \in {[verdict EXCEPT ![p] = v] : v \in {"idle", "uncertain"}}
  /\ verdict'[p] = "idle" => from[p] \in {0, row, view[p]}
  /\ doubt' = doubt \ {key[p]}
  /\ UNCHANGED <<storage, gates, view, tickets, lessees, rtOf>>

RetriedLater == "idle"

AfterAmbiguity == "uncertain"

\* A timeout, a broken connection or any other status.
Ambiguous(p) ==
  /\ pc[p] = "asked"
  /\ pc' = [pc EXCEPT ![p] = "finish"]
  /\ verdict' = [verdict EXCEPT ![p] = AfterAmbiguity]
  /\ UNCHANGED <<storage, gates, view, tickets, lessees, world>>

\* The tokens issued: the refresh token is the same one or one never seen.
FreshRTs == RTs \ (FileRTs \cup {rtOf[g] : g \in Creds})

Answered(p) ==
  /\ pc[p] = "asked"
  /\ Len(rtOf) < MaxCreds
  /\ \E r \in FreshRTs \cup {key[p]} : rtOf' = Append(rtOf, r)
  /\ to' = [to EXCEPT ![p] = Len(rtOf) + 1]
  /\ pc' = [pc EXCEPT ![p] = "answered"]
  /\ UNCHANGED <<storage, gates, view, key, from, verdict, lessees, doubt>>

\* _apply_refreshed_tokens, a compare-and-swap on the credential; the answer
\* to its commit may be lost.
Save(p) ==
  /\ pc[p] = "answered" /\ from[p] # 0
  /\ view[p] = from[p] /\ row = from[p]
  /\ row' = to[p]
  /\ past' = past \cup {to[p]}
  /\ view' = [view EXCEPT ![p] = to[p]]
  /\ doubt' = doubt \ {key[p]}
  /\ verdict' \in {[verdict EXCEPT ![p] = v] : v \in {"done", "uncertain"}}
  /\ pc' = [pc EXCEPT ![p] = "finish"]
  /\ UNCHANGED <<ckpt, gates, tickets, lessees, rtOf>>

\* The account was changed or deleted, or the database failed.
SaveRefused(p) ==
  /\ pc[p] = "answered" /\ from[p] # 0
  /\ verdict' = [verdict EXCEPT ![p] = AfterAmbiguity]
  /\ pc' = [pc EXCEPT ![p] = "finish"]
  /\ UNCHANGED <<storage, gates, view, tickets, lessees, world>>

\* The import commits the credential to its checkpoint before it finishes.
Checkpoint(p) ==
  /\ pc[p] = "answered" /\ from[p] = 0
  /\ ckpt' = ckpt \cup {to[p]}
  /\ doubt' = doubt \ {key[p]}
  /\ verdict' = [verdict EXCEPT ![p] = "done"]
  /\ pc' = [pc EXCEPT ![p] = "finish"]
  /\ UNCHANGED <<row, past, gates, view, tickets, lessees, rtOf>>

\* The import lost its job lease: the result is dropped, the gate stays.
CheckpointRefused(p) ==
  /\ pc[p] = "answered" /\ from[p] = 0
  /\ Forget(p)
  /\ UNCHANGED <<storage, gates, view, lessees, world>>

Finish(p) ==
  /\ pc[p] = "finish" /\ owner[key[p]] = p
  /\ fence' = [fence EXCEPT ![key[p]] = verdict[p]]
  /\ Forget(p)
  /\ UNCHANGED <<storage, owner, fenceGen, view, lessees, world>>

\* Another transaction holds the gate's lock, or the database failed.
FinishMissed(p) ==
  /\ pc[p] = "finish"
  /\ Forget(p)
  /\ UNCHANGED <<storage, gates, view, lessees, world>>

Crash(p) ==
  /\ MayCrash
  /\ Forget(p)
  /\ view' = [view EXCEPT ![p] = row]
  /\ UNCHANGED <<storage, gates, lessees, world>>

-----------------------------------------------------------------------------
Account == \/ \E r \in FileRTs : Put(r)
           \/ \E g \in past \cup {0} : Restore(g)
           \/ \E g \in ckpt : SaveImported(g)

Lease(q) == (\E p \in Processes : Acquire(q, p)) \/ EndLease(q)

Refresh(p) == \/ Sync(p) \/ Begin(p) \/ (\E r \in FileRTs : BeginImport(p, r))
              \/ GiveUp(p) \/ Send(p)
              \/ Rejected(p) \/ Ambiguous(p) \/ Answered(p)
              \/ Save(p) \/ SaveRefused(p) \/ Checkpoint(p) \/ CheckpointRefused(p)
              \/ Finish(p) \/ FinishMissed(p) \/ Crash(p)

Next == Account \/ (\E q \in Requests : Lease(q)) \/ (\E p \in Processes : Refresh(p))

Spec == Init /\ [][Next]_vars

-----------------------------------------------------------------------------
(* Properties.                                                             *)

TypeOK ==
  /\ rtOf \in Seq(RTs)
  /\ row \in Creds \cup {0} /\ past \subseteq Creds /\ ckpt \subseteq Creds
  /\ fence \in [RTs -> {"none", "sent", "uncertain", "idle", "done"}]
  /\ owner \in [RTs -> Processes \cup {None}]
  /\ fenceGen \in [RTs -> Creds \cup {0}]
  /\ leases \in [RTs -> SUBSET Requests]
  /\ \A r \in RTs : Cardinality(leases[r]) <= Limit
  /\ view \in [Processes -> Creds \cup {0}]
  /\ pc \in [Processes -> {"idle", "begun", "asked", "answered", "finish"}]
  /\ key \in [Processes -> RTs \cup {None}]
  /\ from \in [Processes -> Creds \cup {0}]
  /\ to \in [Processes -> Creds \cup {0}]
  /\ verdict \in [Processes -> {"idle", "uncertain", "done"}]
  /\ held \in [Requests -> Creds \cup {0}]
  /\ doubt \subseteq RTs

Busy(p) == pc[p] # "idle"

\* "A crash/ambiguous response is NOT a license to redeem the same RT again":
\* no refresh token is sent to the upstream while an earlier exchange of it,
\* by any process, is unanswered, was answered ambiguously, or issued a
\* credential that is not durable (credential_coordinator.py:3-4, 173-204).
NoReplay ==
  [][\A p \in Processes :
       pc[p] = "begun" /\ pc'[p] = "asked" => key[p] \notin doubt]_vars

\* Refreshes and image leases of one refresh token exclude each other, over all
\* replicas, whichever snapshot each of them started from (lines 141-155,
\* 175-185).
LeaseExcludesRefresh ==
  \A p \in Processes : Busy(p) => leases[key[p]] = {}

\* The gateway does not replace the credential an image request is using: the
\* save of a refresh finds no lease alive on the account's credential
\* (account_service.py:1908, 1961, 2008).
NotRotatedUnderLease ==
  [][\A p \in Processes, q \in Requests :
       pc[p] = "answered" /\ row' = to[p] /\ row' # row
         => held[q] # row]_vars

\* The refresh or import that has sent the token and has its answer to handle.
Exchanging(r) ==
  {p \in Processes : r \in doubt /\ pc[p] \in {"asked", "answered"} /\ key[p] = r}

Sole(S) == IF S = {} THEN None ELSE CHOOSE p \in S : TRUE

Sender == [r \in RTs |-> Sole(Exchanging(r))]

Lost == {r \in doubt : Exchanging(r) = {}}

Gate == INSTANCE RedemptionGate WITH sender <- Sender, lost <- Lost, readers <- leases

\* Tickets, fences, saves and crashes amount to one lock on each refresh token:
\* requests share it up to the limit, one process at a time sends the token and
\* alone gives it back, and a token whose exchange nobody settles is neither
\* sent nor leased again (credential_coordinator.py:127-204).
GateSpec == Gate!Spec

\* "Existing RT imports must not rotate an already managed account behind its
\* back": no exchange begins for an import entry whose refresh token the
\* account holds (account_ingest_service.py:367-384).
ImportLeavesManagedAlone ==
  [][\A p \in Processes :
       pc[p] = "idle" /\ pc'[p] = "begun" /\ from'[p] = 0 /\ row # 0
         => rtOf[row] # key'[p]]_vars

=============================================================================
