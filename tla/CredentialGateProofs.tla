------------------------- MODULE CredentialGateProofs -------------------------
(***************************************************************************)
(* The safety properties of CredentialGate, for any number of processes,   *)
(* requests, refresh tokens and credentials. A ticket is the key of the    *)
(* argument: whoever holds one finds its gate shut in his name until he    *)
(* finishes (Tickets), so nobody else gets a lease or a ticket there.      *)
(***************************************************************************)
EXTENDS CredentialGate, FiniteSetTheorems, TLAPS

\* The gate of a refresh under way is shut in its name and has no lease, and
\* it is the gate of the credential that is renewed.
Tickets ==
  \A p \in Processes : Busy(p) =>
    /\ key[p] \in RTs
    /\ fence[key[p]] = "sent" /\ owner[key[p]] = p
    /\ leases[key[p]] = {}
    /\ from[p] # 0 => key[p] = rtOf[from[p]]

\* A refresh token in doubt has a gate that is shut, and no refresh that is
\* about to send it or to open its gate.
Doubts ==
  /\ \A r \in doubt : fence[r] \in {"sent", "uncertain"}
  /\ \A p \in Processes :
       pc[p] = "begun" \/ (pc[p] = "finish" /\ verdict[p] # "uncertain")
         => key[p] \notin doubt

\* A lease stands in the gate of the refresh token its credential has.
Leased == \A q \in Requests : held[q] # 0 => q \in leases[rtOf[held[q]]]

\* A credential just issued is stored nowhere and belongs to one refresh.
Issued ==
  \A p \in Processes : pc[p] = "answered" =>
    /\ to[p] # 0 /\ to[p] \notin past /\ to[p] \notin ckpt
    /\ \A o \in Processes : pc[o] = "answered" /\ to[o] = to[p] => o = p

-----------------------------------------------------------------------------
(* Type correctness.                                                       *)

\* Issuing a credential keeps the earlier ones and their refresh tokens.
LEMMA AppendKeeps ==
  ASSUME NEW s \in Seq(RTs), NEW r \in RTs
  PROVE  /\ Append(s, r) \in Seq(RTs)
         /\ Len(Append(s, r)) = Len(s) + 1
         /\ \A i \in 1..Len(s) : Append(s, r)[i] = s[i]
         /\ Append(s, r)[Len(s) + 1] = r
  OBVIOUS

\* What the next-state relation leaves of the case analysis: one case for each
\* action.
LEMMA Cases ==
  ASSUME Next
  PROVE  \/ \E r \in FileRTs : Put(r)
         \/ \E g \in past \cup {0} : Restore(g)
         \/ \E g \in ckpt : SaveImported(g)
         \/ \E q \in Requests, p \in Processes : Acquire(q, p)
         \/ \E q \in Requests : EndLease(q)
         \/ \E p \in Processes :
              \/ Sync(p) \/ Begin(p) \/ (\E r \in FileRTs : BeginImport(p, r))
              \/ GiveUp(p) \/ Send(p) \/ Rejected(p) \/ Ambiguous(p)
              \/ Answered(p) \/ Save(p) \/ SaveRefused(p) \/ Checkpoint(p)
              \/ CheckpointRefused(p) \/ Finish(p) \/ FinishMissed(p) \/ Crash(p)
  BY DEF Next, Account, Lease, Refresh

\* At most Limit leases stand in a gate: Acquire adds one where there is room,
\* and no other step adds any.
LEMMA LimitKept ==
  ASSUME TypeOK, [Next]_vars
  PROVE  \A r \in RTs : Cardinality(leases'[r]) <= Limit
<1> USE GateAssumption
<1>1. \A r \in RTs : IsFiniteSet(leases[r])
  BY FS_Subset DEF TypeOK
<1>2. CASE UNCHANGED leases
  BY <1>2 DEF TypeOK
<1>3. CASE \E q \in Requests, p \in Processes : Acquire(q, p)
  <2>1. PICK q \in Requests, p \in Processes : Acquire(q, p)
    BY <1>3
  <2> SUFFICES ASSUME NEW r \in RTs
               PROVE  Cardinality(leases'[r]) <= Limit
    OBVIOUS
  <2>2. CASE r = rtOf[view[p]]
    <3>1. leases'[r] = leases[r] \cup {q} /\ Cardinality(leases[r]) < Limit
      BY <2>1, <2>2 DEF Acquire, HasSlot, TypeOK
    <3>2. Cardinality(leases[r]) \in Nat
      BY <1>1, FS_CardinalityType
    <3>3. CASE q \in leases[r]
      <4>1. leases'[r] = leases[r]
        BY <3>1, <3>3
      <4> QED BY <4>1, <3>1, <3>2
    <3>4. CASE q \notin leases[r]
      <4>1. Cardinality(leases'[r]) = Cardinality(leases[r]) + 1
        BY <3>1, <3>4, <1>1, FS_AddElement
      <4> QED BY <4>1, <3>1, <3>2
    <3> QED BY <3>3, <3>4
  <2>3. CASE r # rtOf[view[p]]
    <3>1. leases'[r] = leases[r]
      BY <2>1, <2>3 DEF Acquire, TypeOK
    <3> QED BY <3>1 DEF TypeOK
  <2> QED BY <2>2, <2>3
<1>4. CASE \E q \in Requests : EndLease(q)
  <2>1. PICK q \in Requests : EndLease(q)
    BY <1>4
  <2> SUFFICES ASSUME NEW r \in RTs
               PROVE  Cardinality(leases'[r]) <= Limit
    OBVIOUS
  <2>2. leases'[r] \subseteq leases[r]
    BY <2>1 DEF EndLease, TypeOK
  <2>3. Cardinality(leases'[r]) <= Cardinality(leases[r])
    BY <2>2, <1>1, FS_Subset
  <2>4. /\ Cardinality(leases[r]) <= Limit
        /\ Cardinality(leases[r]) \in Nat
        /\ Cardinality(leases'[r]) \in Nat
    BY <2>2, <1>1, FS_Subset, FS_CardinalityType DEF TypeOK
  <2> QED BY <2>3, <2>4
<1>5. ASSUME Next,
             ~ \E q \in Requests, p \in Processes : Acquire(q, p),
             ~ \E q \in Requests : EndLease(q)
      PROVE  UNCHANGED leases
  BY <1>5, Cases DEF Put, Restore, SaveImported, Sync, Begin, BeginImport, Fence,
     GiveUp, Send, Rejected, Ambiguous, Answered, Save, SaveRefused, Checkpoint,
     CheckpointRefused, Finish, FinishMissed, Crash, Forget, lessees
<1> QED BY <1>2, <1>3, <1>4, <1>5 DEF vars, lessees

LEMMA TypeStep ==
  ASSUME TypeOK, Tickets, Issued, [Next]_vars
  PROVE  TypeOK'
<1> USE GateAssumption
<1>1. \A r \in RTs : Cardinality(leases'[r]) <= Limit
  BY LimitKept
<1>2. CASE UNCHANGED vars
  BY <1>2, <1>1 DEF TypeOK, vars, storage, gates, tickets, lessees, world, Creds
<1>3. ASSUME NEW r \in FileRTs, Put(r)
      PROVE  TypeOK'
  <2>1. /\ rtOf' \in Seq(RTs)
        /\ Creds' = Creds \cup {Len(rtOf) + 1}
    BY <1>3, AppendKeeps DEF Put, Creds, TypeOK
  <2> QED BY <1>3, <1>1, <2>1 DEF Put, TypeOK, gates, tickets, lessees
<1>4. ASSUME NEW p \in Processes, Answered(p)
      PROVE  TypeOK'
  <2>1. /\ rtOf' \in Seq(RTs)
        /\ Creds' = Creds \cup {Len(rtOf) + 1}
    <3>1. PICK r \in FreshRTs \cup {key[p]} : rtOf' = Append(rtOf, r)
      BY <1>4 DEF Answered
    <3>2. r \in RTs
      BY <1>4 DEF Answered, FreshRTs, Tickets, Busy
    <3> QED BY <3>1, <3>2, AppendKeeps DEF Creds, TypeOK
  <2> QED BY <1>4, <1>1, <2>1 DEF Answered, TypeOK, storage, gates, lessees
<1>5. ASSUME NEW g \in past \cup {0}, Restore(g)
      PROVE  TypeOK'
  BY <1>5, <1>1 DEF Restore, TypeOK, Creds, gates, tickets, lessees, world
<1>6. ASSUME NEW g \in ckpt, SaveImported(g)
      PROVE  TypeOK'
  BY <1>6, <1>1 DEF SaveImported, TypeOK, Creds, gates, tickets, lessees, world
<1>7. ASSUME NEW q \in Requests, NEW p \in Processes, Acquire(q, p)
      PROVE  TypeOK'
  <2>1. /\ leases' \in [RTs -> SUBSET Requests]
        /\ held' \in [Requests -> Creds \cup {0}]
    BY <1>7 DEF Acquire, TypeOK
  <2>2. UNCHANGED <<storage, gates, view, pc, tickets, verdict, world>>
    BY <1>7 DEF Acquire
  <2> QED BY <1>1, <2>1, <2>2 DEF TypeOK, Creds, storage, gates, tickets, world
<1>8. ASSUME NEW q \in Requests, EndLease(q)
      PROVE  TypeOK'
  BY <1>8, <1>1 DEF EndLease, TypeOK, Creds, storage, gates, tickets, world
<1>9. ASSUME NEW p \in Processes,
             \/ Sync(p) \/ GiveUp(p) \/ Send(p) \/ Rejected(p) \/ Ambiguous(p)
             \/ SaveRefused(p) \/ CheckpointRefused(p) \/ FinishMissed(p) \/ Crash(p)
      PROVE  TypeOK'
  <2>1. UNCHANGED <<storage, gates, leases, held, rtOf>>
    BY <1>9 DEF Sync, GiveUp, Send, Rejected, Ambiguous, SaveRefused,
       CheckpointRefused, FinishMissed, Crash, lessees, world, storage, gates
  <2>2. /\ view' \in [Processes -> Creds \cup {0}]
        /\ pc' \in [Processes -> {"idle", "begun", "asked", "answered", "finish"}]
    <3>1. view' = view \/ view' = [view EXCEPT ![p] = row]
      BY <1>9 DEF Sync, GiveUp, Send, Rejected, Ambiguous, SaveRefused,
         CheckpointRefused, FinishMissed, Crash
    <3>2. \E label \in {"idle", "asked", "finish"} :
            pc' = pc \/ pc' = [pc EXCEPT ![p] = label]
      BY <1>9 DEF Sync, GiveUp, Send, Rejected, Ambiguous, SaveRefused,
         CheckpointRefused, FinishMissed, Crash, Forget
    <3> QED BY <3>1, <3>2 DEF TypeOK
  <2>3. /\ key' \in [Processes -> RTs \cup {None}]
        /\ from' \in [Processes -> Creds \cup {0}]
        /\ to' \in [Processes -> Creds \cup {0}]
    BY <1>9 DEF Sync, GiveUp, Send, Rejected, Ambiguous, SaveRefused,
       CheckpointRefused, FinishMissed, Crash, Forget, TypeOK, tickets
  <2>4. verdict' \in [Processes -> {"idle", "uncertain", "done"}]
    BY <1>9 DEF Sync, GiveUp, Send, Rejected, Ambiguous, SaveRefused,
       CheckpointRefused, FinishMissed, Crash, Forget, AfterAmbiguity, TypeOK
  <2>5. doubt' \subseteq RTs
    BY <1>9 DEF Sync, GiveUp, Send, Rejected, Ambiguous, SaveRefused,
       CheckpointRefused, FinishMissed, Crash, Tickets, Busy, TypeOK, world
  <2> QED BY <2>1, <2>2, <2>3, <2>4, <2>5, <1>1 DEF TypeOK, Creds, storage, gates
<1>10. ASSUME NEW p \in Processes, Begin(p) \/ \E r \in FileRTs : BeginImport(p, r)
       PROVE  TypeOK'
  <2>1. PICK r \in RTs, g \in Creds \cup {0} : Fence(p, r, g)
    BY <1>10 DEF Begin, BeginImport, Current, TypeOK, Creds
  <2> QED BY <2>1, <1>1 DEF Fence, TypeOK, Creds, storage, lessees, world
<1>11. ASSUME NEW p \in Processes, Save(p) \/ Checkpoint(p)
       PROVE  TypeOK'
  <2>1. to[p] \in Creds
    BY <1>11 DEF Save, Checkpoint, Issued, TypeOK
  <2>2. /\ row' \in Creds \cup {0} /\ past' \subseteq Creds /\ ckpt' \subseteq Creds
        /\ view' \in [Processes -> Creds \cup {0}]
        /\ doubt' \subseteq RTs
    BY <1>11, <2>1 DEF Save, Checkpoint, TypeOK
  <2>3. /\ pc' \in [Processes -> {"idle", "begun", "asked", "answered", "finish"}]
        /\ verdict' \in [Processes -> {"idle", "uncertain", "done"}]
    BY <1>11 DEF Save, Checkpoint, TypeOK
  <2>4. UNCHANGED <<gates, tickets, lessees, rtOf>>
    BY <1>11 DEF Save, Checkpoint
  <2> QED BY <2>2, <2>3, <2>4, <1>1 DEF TypeOK, Creds, gates, tickets, lessees
<1>12. ASSUME NEW p \in Processes, Finish(p)
       PROVE  TypeOK'
  BY <1>12, <1>1 DEF Finish, Forget, TypeOK, Creds, storage, lessees, world
<1> QED
  BY <1>2, <1>3, <1>4, <1>5, <1>6, <1>7, <1>8, <1>9, <1>10, <1>11, <1>12, Cases

-----------------------------------------------------------------------------
(* The invariant is kept by every step.                                    *)

\* A gate that is shut is opened by nobody but the owner of its ticket, and
\* nobody gets a lease or a ticket there.
LEMMA TicketsStep ==
  ASSUME TypeOK, Tickets, [Next]_vars
  PROVE  Tickets'
<1> USE GateAssumption
<1>1. CASE UNCHANGED vars
  BY <1>1 DEF Tickets, Busy, vars, gates, tickets, lessees, world
<1>2. ASSUME NEW r \in FileRTs, Put(r)
      PROVE  Tickets'
  <2>1. \A p \in Processes : from[p] # 0 => rtOf'[from[p]] = rtOf[from[p]]
    BY <1>2, AppendKeeps DEF Put, TypeOK, Creds
  <2> QED BY <1>2, <2>1 DEF Put, Tickets, Busy, gates, tickets, lessees
<1>3. ASSUME NEW g \in past \cup {0}, Restore(g)
      PROVE  Tickets'
  BY <1>3 DEF Restore, Tickets, Busy, gates, tickets, lessees, world
<1>4. ASSUME NEW g \in ckpt, SaveImported(g)
      PROVE  Tickets'
  BY <1>4 DEF SaveImported, Tickets, Busy, gates, tickets, lessees, world
<1>5. ASSUME NEW q \in Requests, NEW o \in Processes, Acquire(q, o)
      PROVE  Tickets'
  BY <1>5 DEF Acquire, NotFenced, Tickets, Busy, TypeOK, gates, tickets, world
<1>6. ASSUME NEW q \in Requests, EndLease(q)
      PROVE  Tickets'
  BY <1>6 DEF EndLease, Tickets, Busy, gates, tickets, world
<1>7. ASSUME NEW o \in Processes, Sync(o)
      PROVE  Tickets'
  BY <1>7 DEF Sync, Tickets, Busy, gates, tickets, lessees, world
<1>8. ASSUME NEW o \in Processes, NEW r \in RTs, NEW g,
             Fence(o, r, g), NoLease(r), NotFenced(r), g # 0 => r = rtOf[g]
      PROVE  Tickets'
  BY <1>8 DEF Fence, NoLease, NotFenced, Tickets, Busy, TypeOK, lessees, world
<1>9. ASSUME NEW o \in Processes, Begin(o) \/ \E r \in FileRTs : BeginImport(o, r)
      PROVE  Tickets'
  <2>1. CASE Begin(o)
    <3>1. view[o] \in Creds /\ rtOf[view[o]] \in RTs
      BY <2>1 DEF Begin, Current, TypeOK, Creds
    <3>2. \E r \in RTs, g \in Creds :
            Fence(o, r, g) /\ NoLease(r) /\ NotFenced(r) /\ r = rtOf[g]
      BY <2>1, <3>1 DEF Begin
    <3> QED BY <3>2, <1>8
  <2>2. CASE \E r \in FileRTs : BeginImport(o, r)
    BY <2>2, <1>8 DEF BeginImport
  <2> QED BY <1>9, <2>1, <2>2
<1>10. ASSUME NEW o \in Processes,
              \/ GiveUp(o) \/ Send(o) \/ Rejected(o) \/ Ambiguous(o)
              \/ Save(o) \/ SaveRefused(o) \/ Checkpoint(o)
       PROVE  Tickets'
  <2>1. /\ UNCHANGED <<gates, tickets, lessees, rtOf>>
        /\ pc[o] # "idle"
        /\ \E l \in {"asked", "finish"} : pc' = [pc EXCEPT ![o] = l]
    BY <1>10 DEF GiveUp, Send, Rejected, Ambiguous, Save, SaveRefused, Checkpoint, world
  <2> QED BY <2>1 DEF Tickets, Busy, TypeOK, gates, tickets, lessees
<1>11. ASSUME NEW o \in Processes, Answered(o)
       PROVE  Tickets'
  <2>1. FreshRTs \cup {key[o]} \subseteq RTs
    BY <1>11 DEF Answered, FreshRTs, Tickets, Busy
  <2>2. PICK r \in RTs : rtOf' = Append(rtOf, r)
    BY <2>1, <1>11 DEF Answered
  <2>3. \A p \in Processes : from[p] # 0 => rtOf'[from[p]] = rtOf[from[p]]
    <3>1. rtOf \in Seq(RTs) /\ \A p \in Processes : from[p] # 0 => from[p] \in Creds
      BY DEF TypeOK
    <3>2. \A i \in Creds : Append(rtOf, r)[i] = rtOf[i]
      BY <3>1, AppendKeeps DEF Creds
    <3> QED BY <2>2, <3>1, <3>2
  <2>4. /\ UNCHANGED <<gates, key, from, lessees>>
        /\ pc[o] # "idle"
        /\ \A p \in Processes : p # o => pc'[p] = pc[p]
    BY <1>11 DEF Answered, TypeOK
  <2> QED BY <2>3, <2>4 DEF Tickets, Busy, gates, lessees
<1>12. ASSUME NEW o \in Processes,
              CheckpointRefused(o) \/ FinishMissed(o) \/ Crash(o)
       PROVE  Tickets'
  BY <1>12 DEF CheckpointRefused, FinishMissed, Crash, Forget, Tickets, Busy,
     TypeOK, gates, lessees, world
<1>13. ASSUME NEW o \in Processes, Finish(o)
       PROVE  Tickets'
  <2>1. ASSUME NEW p \in Processes, pc'[p] # "idle"
        PROVE  p # o /\ pc[p] # "idle" /\ key[p] # key[o]
    BY <1>13, <2>1 DEF Finish, Forget, Tickets, Busy, TypeOK
  <2> QED BY <1>13, <2>1 DEF Finish, Forget, Tickets, Busy, TypeOK, lessees, world
<1> QED
  BY <1>1, <1>2, <1>3, <1>4, <1>5, <1>6, <1>7, <1>9, <1>10, <1>11, <1>12, <1>13, Cases

\* A doubt arises when a ticket's token is sent, which leaves its gate shut;
\* the ticket's owner alone can open the gate, after the doubt is gone.
LEMMA DoubtsStep ==
  ASSUME TypeOK, Tickets, Doubts, [Next]_vars
  PROVE  Doubts'
<1> USE GateAssumption
<1>1. CASE UNCHANGED vars
  BY <1>1 DEF Doubts, vars, gates, tickets, world
<1>2. ASSUME UNCHANGED <<fence, pc, key, verdict, doubt>>
      PROVE  Doubts'
  BY <1>2 DEF Doubts
<1>3. ASSUME \/ \E r \in FileRTs : Put(r)
             \/ \E g \in past \cup {0} : Restore(g)
             \/ \E g \in ckpt : SaveImported(g)
             \/ \E q \in Requests, p \in Processes : Acquire(q, p)
             \/ \E q \in Requests : EndLease(q)
             \/ \E p \in Processes : Sync(p)
      PROVE  Doubts'
  BY <1>2, <1>3 DEF Put, Restore, SaveImported, Acquire, EndLease, Sync, gates,
     tickets, world
<1>4. ASSUME NEW o \in Processes, Begin(o) \/ \E r \in FileRTs : BeginImport(o, r)
      PROVE  Doubts'
  <2>1. PICK r \in RTs, g \in Creds \cup {0} : Fence(o, r, g) /\ NotFenced(r)
    BY <1>4 DEF Begin, BeginImport, Current, TypeOK, Creds
  <2>2. r \notin doubt
    BY <2>1 DEF NotFenced, Doubts
  <2> QED BY <2>1, <2>2 DEF Fence, Doubts, TypeOK, world
<1>5. ASSUME NEW o \in Processes, GiveUp(o) \/ Ambiguous(o) \/ SaveRefused(o)
      PROVE  Doubts'
  BY <1>5 DEF GiveUp, Ambiguous, SaveRefused, AfterAmbiguity, Doubts, TypeOK,
     gates, tickets, world
<1>6. ASSUME NEW o \in Processes, Send(o)
      PROVE  Doubts'
  <2>1. \A p \in Processes : pc'[p] \in {"begun", "finish"} => key[p] # key[o]
    BY <1>6 DEF Send, Tickets, Busy, TypeOK
  <2> QED BY <1>6, <2>1 DEF Send, Doubts, Tickets, Busy, TypeOK, gates, tickets
<1>7. ASSUME NEW o \in Processes, Rejected(o) \/ Save(o) \/ Checkpoint(o)
      PROVE  Doubts'
  <2>1. /\ UNCHANGED <<fence, key>>
        /\ doubt' = doubt \ {key[o]}
        /\ pc' = [pc EXCEPT ![o] = "finish"]
        /\ \A p \in Processes : p # o => verdict'[p] = verdict[p]
    BY <1>7 DEF Rejected, Save, Checkpoint, gates, tickets, TypeOK
  <2> QED BY <2>1 DEF Doubts, TypeOK
<1>8. ASSUME NEW o \in Processes, Answered(o)
      PROVE  Doubts'
  BY <1>8 DEF Answered, Doubts, TypeOK, gates
<1>9. ASSUME NEW o \in Processes,
             CheckpointRefused(o) \/ FinishMissed(o) \/ Crash(o)
      PROVE  Doubts'
  BY <1>9 DEF CheckpointRefused, FinishMissed, Crash, Forget, Doubts, TypeOK,
     gates, world
<1>10. ASSUME NEW o \in Processes, Finish(o)
       PROVE  Doubts'
  BY <1>10 DEF Finish, Forget, Doubts, Tickets, Busy, TypeOK, world
<1> QED
  BY <1>1, <1>3, <1>4, <1>5, <1>6, <1>7, <1>8, <1>9, <1>10, Cases

\* A lease is put where its credential says, by Acquire alone, and no step
\* changes the refresh token of a credential.
LEMMA LeasedStep ==
  ASSUME TypeOK, Tickets, Leased, [Next]_vars
  PROVE  Leased'
<1> USE GateAssumption
<1>1. ASSUME NEW r \in RTs, rtOf' = Append(rtOf, r), UNCHANGED lessees
      PROVE  Leased'
  <2>1. \A q \in Requests : held[q] # 0 => rtOf'[held[q]] = rtOf[held[q]]
    BY <1>1, AppendKeeps DEF TypeOK, Creds
  <2> QED BY <1>1, <2>1 DEF Leased, lessees
<1>2. ASSUME UNCHANGED <<lessees, rtOf>>
      PROVE  Leased'
  BY <1>2 DEF Leased, lessees
<1>3. ASSUME \E r \in FileRTs : Put(r)
      PROVE  Leased'
  BY <1>1, <1>3 DEF Put
<1>4. ASSUME NEW p \in Processes, Answered(p)
      PROVE  Leased'
  <2>1. FreshRTs \cup {key[p]} \subseteq RTs
    BY <1>4 DEF Answered, FreshRTs, Tickets, Busy
  <2> QED BY <1>1, <1>4, <2>1 DEF Answered
<1>5. ASSUME NEW q \in Requests, NEW p \in Processes, Acquire(q, p)
      PROVE  Leased'
  <2>1. view[p] \in Creds /\ rtOf[view[p]] \in RTs
    BY <1>5 DEF Acquire, Current, TypeOK, Creds
  <2> QED BY <1>5, <2>1 DEF Acquire, Leased, TypeOK, Creds, world
<1>6. ASSUME NEW q \in Requests, EndLease(q)
      PROVE  Leased'
  <2>1. \A o \in Requests : held[o] # 0 => rtOf[held[o]] \in RTs
    BY DEF TypeOK, Creds
  <2> QED BY <1>6, <2>1 DEF EndLease, Leased, TypeOK, world
<1>7. ASSUME \/ UNCHANGED vars
             \/ \E g \in past \cup {0} : Restore(g)
             \/ \E g \in ckpt : SaveImported(g)
             \/ \E p \in Processes :
                  \/ Sync(p) \/ Begin(p) \/ (\E r \in FileRTs : BeginImport(p, r))
                  \/ GiveUp(p) \/ Send(p) \/ Rejected(p) \/ Ambiguous(p)
                  \/ Save(p) \/ SaveRefused(p) \/ Checkpoint(p)
                  \/ CheckpointRefused(p) \/ Finish(p) \/ FinishMissed(p) \/ Crash(p)
      PROVE  Leased'
  BY <1>2, <1>7 DEF vars, Restore, SaveImported, Sync, Begin, BeginImport, Fence,
     GiveUp, Send, Rejected, Ambiguous, Save, SaveRefused, Checkpoint,
     CheckpointRefused, Finish, FinishMissed, Crash, Forget, lessees, world
<1> QED
  BY <1>3, <1>4, <1>5, <1>6, <1>7, Cases

\* What Answered issues is new; storing it ends the refresh that holds it.
LEMMA IssuedStep ==
  ASSUME TypeOK, Issued, [Next]_vars
  PROVE  Issued'
<1> USE GateAssumption
<1>1. ASSUME UNCHANGED <<past, ckpt, pc, to>>
      PROVE  Issued'
  BY <1>1 DEF Issued
<1>2. ASSUME \/ UNCHANGED vars
             \/ \E g \in past \cup {0} : Restore(g)
             \/ \E q \in Requests, p \in Processes : Acquire(q, p)
             \/ \E q \in Requests : EndLease(q)
             \/ \E p \in Processes : Sync(p)
      PROVE  Issued'
  BY <1>1, <1>2 DEF vars, storage, Restore, Acquire, EndLease, Sync, tickets
<1>3. ASSUME NEW r \in FileRTs, Put(r)
      PROVE  Issued'
  <2>1. /\ past' = past \cup {Len(rtOf) + 1}
        /\ UNCHANGED <<ckpt, pc, to>>
    BY <1>3 DEF Put, tickets
  <2>2. \A p \in Processes : to[p] # Len(rtOf) + 1
    BY DEF TypeOK, Creds
  <2> QED BY <2>1, <2>2 DEF Issued
<1>4. ASSUME NEW g \in ckpt, SaveImported(g)
      PROVE  Issued'
  BY <1>4 DEF SaveImported, Issued, tickets
<1>5. ASSUME NEW o \in Processes,
             \/ Begin(o) \/ (\E r \in FileRTs : BeginImport(o, r))
             \/ GiveUp(o) \/ Send(o) \/ Rejected(o) \/ Ambiguous(o) \/ SaveRefused(o)
      PROVE  Issued'
  <2>1. /\ UNCHANGED <<storage, to>>
        /\ \E l \in {"begun", "asked", "finish"} : pc' = [pc EXCEPT ![o] = l]
    BY <1>5 DEF Begin, BeginImport, Fence, GiveUp, Send, Rejected, Ambiguous,
       SaveRefused, tickets
  <2> QED BY <2>1 DEF Issued, TypeOK, storage
<1>6. ASSUME NEW o \in Processes, Save(o) \/ Checkpoint(o)
      PROVE  Issued'
  <2>1. /\ past' \subseteq past \cup {to[o]} /\ ckpt' \subseteq ckpt \cup {to[o]}
        /\ to' = to
        /\ pc' = [pc EXCEPT ![o] = "finish"]
        /\ pc[o] = "answered"
    BY <1>6 DEF Save, Checkpoint, tickets
  <2> QED BY <2>1 DEF Issued, TypeOK
<1>7. ASSUME NEW o \in Processes, Answered(o)
      PROVE  Issued'
  <2>1. /\ UNCHANGED storage
        /\ to' = [to EXCEPT ![o] = Len(rtOf) + 1]
        /\ pc' = [pc EXCEPT ![o] = "answered"]
    BY <1>7 DEF Answered
  <2>2. /\ Len(rtOf) + 1 # 0
        /\ Len(rtOf) + 1 \notin past /\ Len(rtOf) + 1 \notin ckpt
        /\ \A p \in Processes : to[p] # Len(rtOf) + 1
    BY DEF TypeOK, Creds
  <2> QED BY <2>1, <2>2 DEF Issued, TypeOK, storage
<1>8. ASSUME NEW o \in Processes,
             \/ CheckpointRefused(o) \/ Finish(o) \/ FinishMissed(o) \/ Crash(o)
      PROVE  Issued'
  BY <1>8 DEF CheckpointRefused, Finish, FinishMissed, Crash, Forget, Issued,
     TypeOK, storage
<1> QED
  BY <1>2, <1>3, <1>4, <1>5, <1>6, <1>7, <1>8, Cases

-----------------------------------------------------------------------------
(* The theorems.                                                           *)

IInv == TypeOK /\ Tickets /\ Doubts /\ Leased /\ Issued

LEMMA IInvInit ==
  ASSUME Init
  PROVE  IInv
<1> USE GateAssumption
<1>1. TypeOK
  BY FS_EmptySet DEF Init, TypeOK, Creds
<1> QED BY <1>1 DEF Init, IInv, Tickets, Busy, Doubts, Leased, Issued

LEMMA IInvStep ==
  ASSUME IInv, [Next]_vars
  PROVE  IInv'
BY TypeStep, TicketsStep, DoubtsStep, LeasedStep, IssuedStep DEF IInv

LEMMA Invariance == Spec => []IInv
BY IInvInit, IInvStep, PTL DEF Spec

\* The stored values keep their types, credentials come from the catalogue and
\* no gate ever holds more leases than the limit, over all replicas.
THEOREM GateTypeTheorem == Spec => []TypeOK
<1>1. IInv => TypeOK
  BY DEF IInv
<1> QED BY <1>1, Invariance, PTL

\* A refresh and an image lease of one refresh token never coexist.
THEOREM LeaseExcludesRefreshTheorem == Spec => []LeaseExcludesRefresh
<1>1. IInv => LeaseExcludesRefresh
  BY DEF IInv, Tickets, LeaseExcludesRefresh
<1> QED BY <1>1, Invariance, PTL

\* No refresh token with an unsettled exchange is ever sent again.
THEOREM NoReplayTheorem == Spec => NoReplay
<1>1. IInv /\ [Next]_vars =>
        [\A p \in Processes :
           pc[p] = "begun" /\ pc'[p] = "asked" => key[p] \notin doubt]_vars
  BY DEF IInv, Doubts
<1> QED BY <1>1, Invariance, PTL DEF Spec, NoReplay

\* The row changes to what a refresh was issued only in the save of that
\* refresh, and no request then has a lease on the credential it replaces.
THEOREM NotRotatedUnderLeaseTheorem == Spec => NotRotatedUnderLease
<1>1. ASSUME IInv, Next, NEW p \in Processes, NEW q \in Requests,
             pc[p] = "answered", row' = to[p], row' # row
      PROVE  held[q] # row
  <2>1. Save(p)
    <3>1. to[p] # 0 /\ to[p] \notin past /\ to[p] \notin ckpt /\ to[p] # Len(rtOf) + 1
      BY <1>1 DEF IInv, Issued, TypeOK, Creds
    <3>2. \E o \in Processes : Save(o)
      BY <1>1, <3>1, Cases DEF Put, Restore, SaveImported, Acquire, EndLease, Sync,
         Begin, BeginImport, Fence, GiveUp, Send, Rejected, Ambiguous, Answered,
         SaveRefused, Checkpoint, CheckpointRefused, Finish, FinishMissed, Crash,
         storage
    <3>3. PICK o \in Processes : Save(o)
      BY <3>2
    <3>4. to[o] = to[p] /\ pc[o] = "answered"
      BY <1>1, <3>3 DEF Save
    <3> QED BY <1>1, <3>3, <3>4 DEF IInv, Issued
  <2>2. row = from[p] /\ from[p] # 0
    BY <2>1 DEF Save
  <2>3. leases[rtOf[from[p]]] = {}
    BY <1>1, <2>2 DEF IInv, Tickets, Busy
  <2> QED BY <1>1, <2>2, <2>3 DEF IInv, Leased
<1>2. IInv /\ [Next]_vars =>
        [\A p \in Processes, q \in Requests :
           pc[p] = "answered" /\ row' = to[p] /\ row' # row
             => held[q] # row]_vars
  BY <1>1
<1> QED BY <1>2, Invariance, PTL DEF Spec, NotRotatedUnderLease

-----------------------------------------------------------------------------
(* The gate implements RedemptionGate. An exchange has one sender, the     *)
(* holder of the ticket, so what a step does to the lock depends only on   *)
(* what it does to the place of one process and to the doubts.             *)

GateStep == Gate!Next \/ UNCHANGED <<Sender, Lost, leases>>

LEMMA SoleOf == Sole({}) = None /\ \A p : Sole({p}) = p
BY DEF Sole

LEMMA ExchangingIs ==
  ASSUME NEW r, NEW p \in Processes
  PROVE  /\ p \in Exchanging(r)
              <=> r \in doubt /\ pc[p] \in {"asked", "answered"} /\ key[p] = r
         /\ p \in Exchanging(r)'
              <=> r \in doubt' /\ pc'[p] \in {"asked", "answered"} /\ key'[p] = r
         /\ Exchanging(r) \subseteq Processes /\ Exchanging(r)' \subseteq Processes
BY DEF Exchanging

LEMMA OneSender ==
  ASSUME Tickets, NEW r, NEW p \in Exchanging(r)
  PROVE  Exchanging(r) = {p} /\ r = key[p] /\ r \in RTs /\ r \in doubt
<1>1. \A o \in Exchanging(r) : o \in Processes /\ owner[r] = o /\ key[o] = r /\ r \in RTs
  BY DEF Exchanging, Tickets, Busy
<1> QED BY <1>1 DEF Exchanging

\* Steps that move no exchange.
LEMMA GateStutter ==
  ASSUME UNCHANGED <<doubt, leases>>, \A r : Exchanging(r)' = Exchanging(r)
  PROVE  UNCHANGED <<Sender, Lost, leases>>
<1>1. Sender' = Sender
  <2>1. Sender' = [r \in RTs |-> Sole(Exchanging(r)')]
    BY DEF Sender, Sole
  <2> QED BY <2>1 DEF Sender
<1>2. Lost' = Lost
  BY DEF Lost
<1> QED BY <1>1, <1>2

\* Only the exchanges of k move, from the processes S to none or one.
LEMMA SenderMoves ==
  ASSUME NEW k \in RTs, \A r : r # k => Exchanging(r)' = Exchanging(r)
  PROVE  Sender' = [Sender EXCEPT ![k] = Sole(Exchanging(k)')]
<1>1. Sender' = [r \in RTs |-> Sole(Exchanging(r)')]
  BY DEF Sender, Sole
<1>2. Sender = [r \in RTs |-> Sole(Exchanging(r))]
  BY DEF Sender
<1> QED BY <1>1, <1>2

\* A process leaves an exchange, if it was in one: by settling it, if the doubt
\* goes, and else by losing it.
LEMMA Withdraws ==
  ASSUME TypeOK, Tickets, NEW p \in Processes, NEW k, k = key[p],
         pc'[p] \notin {"asked", "answered"}, UNCHANGED leases,
         \A o \in Processes \ {p} : pc'[o] = pc[o] /\ key'[o] = key[o],
         \/ doubt' = doubt
         \/ doubt' = doubt \ {k} /\ pc[p] \in {"asked", "answered"}
  PROVE  GateStep
<1>1. \A r : p \notin Exchanging(r)'
  BY DEF Exchanging
<1>2. ASSUME NEW r, NEW o \in Processes \ {p}
      PROVE  o \in Exchanging(r)' <=> o \in Exchanging(r) /\ r \in doubt'
  BY ExchangingIs
<1>3. CASE k \in doubt /\ pc[p] \in {"asked", "answered"}
  <2>1. p \in Exchanging(k)
    BY <1>3, ExchangingIs
  <2>2. Exchanging(k) = {p} /\ k \in RTs
    BY <2>1, OneSender
  <2>3. Exchanging(k)' = {}
    BY <1>1, <1>2, <2>2, ExchangingIs DEF Exchanging
  <2>4. ASSUME NEW r, r # k PROVE Exchanging(r)' = Exchanging(r)
    <3>1. p \notin Exchanging(r)
      BY <2>4 DEF Exchanging
    <3>2. r \in doubt' <=> r \in doubt
      BY <2>4
    <3>3. \A o \in Processes : o \in Exchanging(r)' <=> o \in Exchanging(r)
      BY <1>1, <1>2, <3>1, <3>2 DEF Exchanging
    <3> QED BY <3>3 DEF Exchanging
  <2>5. Sender' = [Sender EXCEPT ![k] = None]
    BY <2>2, <2>3, <2>4, SenderMoves, SoleOf
  <2>6. Sender[k] = p
    BY <2>2, SoleOf DEF Sender
  <2>7. CASE doubt' = doubt
    <3>1. \A r \in doubt : r \in Lost' <=> r \in Lost \/ r = k
      BY <2>2, <2>3, <2>4, <2>7 DEF Lost
    <3>2. Lost' = Lost \cup {k}
      BY <1>3, <2>7, <3>1 DEF Lost
    <3>3. Gate!Lose(p, k)
      BY <2>5, <2>6, <3>2 DEF Gate!Lose
    <3> QED BY <2>2, <3>3 DEF GateStep, Gate!Next
  <2>8. CASE doubt' = doubt \ {k}
    <3>1. k \notin Lost /\ k \notin Lost'
      BY <2>2, <2>8 DEF Lost
    <3>2. \A r \in doubt : r # k => (r \in Lost' <=> r \in Lost)
      BY <2>4, <2>8 DEF Lost
    <3>3. Lost' = Lost
      BY <2>8, <3>1, <3>2 DEF Lost
    <3>4. Gate!Settle(p, k)
      BY <2>5, <2>6, <3>3 DEF Gate!Settle
    <3> QED BY <2>2, <3>4 DEF GateStep, Gate!Next
  <2> QED BY <2>7, <2>8
<1>4. CASE ~ (k \in doubt /\ pc[p] \in {"asked", "answered"})
  <2>1. doubt' = doubt
    BY <1>4
  <2>2. \A r : p \notin Exchanging(r)
    BY <1>4 DEF Exchanging
  <2>3. ASSUME NEW r PROVE Exchanging(r)' = Exchanging(r)
    <3>1. \A o \in Processes : o \in Exchanging(r)' <=> o \in Exchanging(r)
      BY <1>1, <1>2, <2>1, <2>2 DEF Exchanging
    <3> QED BY <3>1 DEF Exchanging
  <2> QED BY <2>1, <2>3, GateStutter DEF GateStep
<1> QED BY <1>3, <1>4

\* A token is sent when its exchange is not open and was not lost, and its gate
\* has no lease: the ticket saw to that when it was given.
LEMMA SendLocks ==
  ASSUME TypeOK, Tickets, Doubts, NEW p \in Processes, NEW k, k = key[p], Send(p)
  PROVE  GateStep
<1>1. /\ pc[p] = "begun" /\ pc' = [pc EXCEPT ![p] = "asked"]
      /\ doubt' = doubt \cup {k} /\ UNCHANGED <<key, owner, leases>>
  BY DEF Send, gates, tickets, lessees
<1>2. /\ k \in RTs /\ k \notin doubt /\ leases[k] = {}
      /\ \A o \in Processes : Busy(o) /\ key[o] = k => o = p
  BY <1>1 DEF Tickets, Doubts, Busy
<1>3. Exchanging(k) = {}
  BY <1>2 DEF Exchanging
<1>4. pc'[p] = "asked" /\ \A o \in Processes : o # p => pc'[o] = pc[o]
  BY <1>1 DEF TypeOK
<1>5. Exchanging(k)' = {p}
  <2>1. p \in Exchanging(k)'
    BY <1>1, <1>4, ExchangingIs
  <2>2. \A o \in Processes : o \in Exchanging(k)' => o = p
    BY <1>1, <1>2, <1>4, ExchangingIs DEF Busy
  <2> QED BY <2>1, <2>2, ExchangingIs DEF Exchanging
<1>6. ASSUME NEW r, r # k PROVE Exchanging(r)' = Exchanging(r)
  <2>1. r \in doubt' <=> r \in doubt
    BY <1>1, <1>6
  <2>2. \A o \in Processes : o \in Exchanging(r)' <=> o \in Exchanging(r)
    BY <1>1, <1>4, <1>6, <2>1, ExchangingIs
  <2> QED BY <2>2 DEF Exchanging
<1>7. Sender' = [Sender EXCEPT ![k] = p]
  BY <1>2, <1>5, <1>6, SenderMoves, SoleOf
<1>8. Sender[k] = None /\ k \notin Lost
  BY <1>2, <1>3, SoleOf DEF Sender, Lost
<1>9. Lost' = Lost
  <2>1. k \notin Lost'
    BY <1>5 DEF Lost
  <2>2. \A r \in doubt : r \in Lost' <=> r \in Lost
    BY <1>1, <1>2, <1>6 DEF Lost
  <2> QED BY <1>1, <1>8, <2>1, <2>2 DEF Lost
<1>10. Gate!Send(p, k)
  BY <1>1, <1>2, <1>7, <1>8, <1>9 DEF Gate!Send, Gate!Usable
<1> QED BY <1>2, <1>10 DEF GateStep, Gate!Next

LEMMA SameCardinality == \A S : Gate!Cardinality(S) = Cardinality(S)
BY DEF Cardinality, Gate!Cardinality

\* A request gets a lease on a usable token: a token in doubt has a shut gate.
LEMMA AcquireUses ==
  ASSUME TypeOK, Tickets, Doubts, NEW q \in Requests, NEW p \in Processes, Acquire(q, p)
  PROVE  GateStep
<1>1. PICK r \in RTs : r = rtOf[view[p]]
  BY DEF Acquire, Current, TypeOK, Creds
<1>2. /\ NotFenced(r) /\ Cardinality(leases[r]) < Limit
      /\ leases' = [leases EXCEPT ![r] = @ \cup {q}]
      /\ UNCHANGED <<doubt, pc, key>>
  BY <1>1 DEF Acquire, HasSlot, tickets, world
<1>3. r \notin doubt
  BY <1>2 DEF NotFenced, Doubts
<1>4. Exchanging(r) = {} /\ r \notin Lost
  BY <1>3 DEF Exchanging, Lost
<1>5. Sender[r] = None
  BY <1>4, SoleOf DEF Sender
<1>6. UNCHANGED <<Sender, Lost>>
  BY <1>2 DEF Sender, Lost, Exchanging
<1>7. Gate!Use(q, r)
  BY <1>2, <1>4, <1>5, <1>6, SameCardinality DEF Gate!Use, Gate!Usable
<1> QED BY <1>7 DEF GateStep, Gate!Next

LEMMA GateImplements ==
  ASSUME TypeOK, Tickets, Doubts, [Next]_vars
  PROVE  GateStep
<1>1. ASSUME UNCHANGED <<doubt, pc, key, leases>> PROVE GateStep
  BY <1>1 DEF GateStep, Sender, Lost, Exchanging
<1>2. CASE UNCHANGED vars
  BY <1>1, <1>2 DEF vars, tickets, lessees, world
<1>3. ASSUME \/ \E r \in FileRTs : Put(r)
             \/ \E g \in past \cup {0} : Restore(g)
             \/ \E g \in ckpt : SaveImported(g)
             \/ \E p \in Processes : Sync(p)
      PROVE  GateStep
  BY <1>1, <1>3 DEF Put, Restore, SaveImported, Sync, tickets, lessees, world
<1>4. ASSUME NEW q \in Requests, EndLease(q) PROVE GateStep
  <2>1. UNCHANGED <<Sender, Lost>>
    BY <1>4 DEF EndLease, Sender, Lost, Exchanging, tickets, world
  <2>2. Gate!Cease(q)
    BY <1>4, <2>1 DEF EndLease, Gate!Cease
  <2> QED BY <2>2 DEF GateStep, Gate!Next
<1>5. ASSUME NEW p \in Processes, Answered(p) PROVE GateStep
  <2>1. /\ UNCHANGED <<doubt, key, leases>> /\ pc[p] = "asked"
        /\ pc' = [pc EXCEPT ![p] = "answered"]
    BY <1>5 DEF Answered, lessees
  <2>2. \A o \in Processes : pc'[o] \in {"asked", "answered"} <=> pc[o] \in {"asked", "answered"}
    BY <2>1 DEF TypeOK
  <2>3. \A r : Exchanging(r)' = Exchanging(r)
    BY <2>1, <2>2 DEF Exchanging
  <2> QED BY <2>1, <2>3, GateStutter DEF GateStep
<1>6. ASSUME NEW p \in Processes, Begin(p) \/ \E r \in FileRTs : BeginImport(p, r)
      PROVE  GateStep
  <2>1. PICK r \in RTs, g \in Creds \cup {0} : Fence(p, r, g)
    BY <1>6, GateAssumption DEF Begin, BeginImport, Current, TypeOK, Creds
  <2>2. /\ UNCHANGED <<doubt, leases>> /\ pc'[p] = "begun"
        /\ \A o \in Processes \ {p} : pc'[o] = pc[o] /\ key'[o] = key[o]
    BY <2>1 DEF Fence, lessees, world, TypeOK
  <2> QED BY <2>2, Withdraws
<1>7. ASSUME NEW p \in Processes, GiveUp(p) \/ Ambiguous(p) \/ SaveRefused(p)
      PROVE  GateStep
  <2>1. /\ UNCHANGED <<doubt, leases, key>> /\ pc' = [pc EXCEPT ![p] = "finish"]
    BY <1>7 DEF GiveUp, Ambiguous, SaveRefused, tickets, lessees, world
  <2>2. pc'[p] = "finish" /\ \A o \in Processes \ {p} : pc'[o] = pc[o]
    BY <2>1 DEF TypeOK
  <2> QED BY <2>1, <2>2, Withdraws
<1>8. ASSUME NEW p \in Processes, Rejected(p) \/ Save(p) \/ Checkpoint(p)
      PROVE  GateStep
  <2>1. /\ UNCHANGED <<leases, key>> /\ pc' = [pc EXCEPT ![p] = "finish"]
        /\ doubt' = doubt \ {key[p]} /\ pc[p] \in {"asked", "answered"}
    BY <1>8 DEF Rejected, Save, Checkpoint, tickets, lessees
  <2>2. pc'[p] = "finish" /\ \A o \in Processes \ {p} : pc'[o] = pc[o]
    BY <2>1 DEF TypeOK
  <2> QED BY <2>1, <2>2, Withdraws
<1>9. ASSUME NEW p \in Processes,
             CheckpointRefused(p) \/ Finish(p) \/ FinishMissed(p) \/ Crash(p)
      PROVE  GateStep
  <2>1. UNCHANGED <<doubt, leases>> /\ Forget(p)
    BY <1>9 DEF CheckpointRefused, Finish, FinishMissed, Crash, lessees, world
  <2>2. /\ pc'[p] = "idle"
        /\ \A o \in Processes \ {p} : pc'[o] = pc[o] /\ key'[o] = key[o]
    BY <2>1 DEF Forget, TypeOK
  <2> QED BY <2>1, <2>2, Withdraws
<1> QED
  BY <1>2, <1>3, <1>4, <1>5, <1>6, <1>7, <1>8, <1>9, AcquireUses, SendLocks, Cases

\* The gate is a lock with readers and one writer that breaks for good: over
\* all replicas, requests share a refresh token up to the limit, one process at
\* a time sends it, that process alone makes it usable again, and a token whose
\* exchange is not settled is never sent or leased again.
THEOREM GateTheorem == Spec => GateSpec
<1>1. Init => Gate!Init
  BY SoleOf DEF Init, Gate!Init, Sender, Lost, Exchanging
<1>2. IInv /\ [Next]_vars => [Gate!Next]_<<Sender, Lost, leases>>
  BY GateImplements DEF GateStep, IInv
<1> QED
  BY <1>1, <1>2, Invariance, PTL DEF Spec, GateSpec, Gate!Spec

=============================================================================
