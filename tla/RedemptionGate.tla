----------------------------- MODULE RedemptionGate -----------------------------
(***************************************************************************)
(* What the gate of a refresh token promises to the rest of the gateway,   *)
(* with no database, tickets, snapshots or crashes: a lock with readers,   *)
(* the image requests, and one writer, whoever exchanges the token, that   *)
(* breaks for good when the outcome of an exchange is not known. The       *)
(* exchange is open from the moment the token is sent until nothing was    *)
(* issued for it or what was issued is stored.                             *)
(*                                                                         *)
(* CredentialGate implements this specification (GateSpec there).          *)
(***************************************************************************)
EXTENDS Integers, FiniteSets

CONSTANTS Processes,   \* those that exchange refresh tokens
          Requests,    \* image requests
          RTs,         \* refresh tokens
          Limit,       \* how many requests may use one token at once
          None         \* nobody

VARIABLES sender,      \* who has sent each token and not settled it
          lost,        \* tokens whose exchange will never be settled
          readers      \* requests that use each token

Usable(r) == sender[r] = None /\ r \notin lost

Init ==
  /\ sender = [r \in RTs |-> None]
  /\ lost = {}
  /\ readers = [r \in RTs |-> {}]

\* A request may use the token when nobody exchanges it or may have done so.
Use(q, r) ==
  /\ Usable(r) /\ Cardinality(readers[r]) < Limit
  /\ readers' = [readers EXCEPT ![r] = @ \cup {q}]
  /\ UNCHANGED <<sender, lost>>

Cease(q) ==
  /\ readers' = [r \in RTs |-> readers[r] \ {q}]
  /\ UNCHANGED <<sender, lost>>

\* One process at a time sends a token, and only while nobody uses it.
Send(p, r) ==
  /\ Usable(r) /\ readers[r] = {}
  /\ sender' = [sender EXCEPT ![r] = p]
  /\ UNCHANGED <<lost, readers>>

\* Only the process that sent the token makes it usable again.
Settle(p, r) ==
  /\ sender[r] = p
  /\ sender' = [sender EXCEPT ![r] = None]
  /\ UNCHANGED <<lost, readers>>

Lose(p, r) ==
  /\ sender[r] = p
  /\ sender' = [sender EXCEPT ![r] = None]
  /\ lost' = lost \cup {r}
  /\ UNCHANGED readers

Next ==
  \/ \E q \in Requests : Cease(q) \/ \E r \in RTs : Use(q, r)
  \/ \E p \in Processes, r \in RTs : Send(p, r) \/ Settle(p, r) \/ Lose(p, r)

Spec == Init /\ [][Next]_<<sender, lost, readers>>

=============================================================================
