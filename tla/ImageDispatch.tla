---------------------------- MODULE ImageDispatch ----------------------------
(***************************************************************************)
(* How one replica hands out accounts to image requests: the candidate     *)
(* selection and the slots of services/account_service.py, used by the     *)
(* retry loop of _generate_single_image (services/protocol/conversation.py)*)
(* while the accounts' access tokens rotate under the requests.            *)
(*                                                                         *)
(* A token is an account with a version of its credential. Slots, aliases  *)
(* and exclusions are kept by token, not by account: that is what the      *)
(* rotations put at risk. Whether an account is ready, funded, refreshed   *)
(* or cooling may change at any time, so a selection may take any account  *)
(* with a free slot or none. The shared lease is granted or refused by     *)
(* CredentialGate; the row written with a result is AccountPool's.         *)
(***************************************************************************)
EXTENDS Integers, FiniteSets

CONSTANTS Requests,
          Accounts,
          Renewed,      \* accounts whose credential may be replaced
          MaxVersion,   \* bound on the versions of a credential
          Limit,        \* image_account_concurrency
          MaxAttempts,  \* image_max_account_attempts
          MaxRotations, \* bound on the rotations
          MaxEvents     \* bound on deletions, console tests and faults

ASSUME DispatchAssumption ==
  /\ IsFiniteSet(Requests) /\ Renewed \subseteq Accounts
  /\ MaxVersion \in Nat \ {0} /\ Limit \in Nat \ {0}
  /\ MaxAttempts \in Nat \ {0} /\ MaxRotations \in Nat /\ MaxEvents \in Nat

Versions == 1..MaxVersion
Tokens   == Accounts \X Versions
Gone     == 0           \* the account is not in the view
NoAlias  == 0

VARIABLES
  view,       \* _accounts: the version of every account
  alias,      \* _token_aliases: the version a version was replaced by
  slots,      \* _image_inflight of every token
  req,        \* the retry loop of every request
  (* history *)
  disturbed,  \* accounts whose slots were changed behind their holders
  issued,     \* versions that each credential has had
  rotations, events

vars == <<view, alias, slots, req, disturbed, issued, rotations, events>>

NewRequest == [pc |-> "select", token |-> {}, tried |-> {}, excluded |-> {},
               failures |-> 0, capacity |-> FALSE, expired |-> FALSE]

\* What a request worked with is gone when it has ended.
Over == [NewRequest EXCEPT !.pc = "done"]

TypeOK ==
  /\ view \in [Accounts -> Versions \cup {Gone}]
  /\ alias \in [Tokens -> Versions \cup {NoAlias}]
  /\ slots \in [Tokens -> Nat]
  /\ \A r \in Requests :
       /\ req[r].pc \in {"select", "lease", "run", "release", "done"}
       /\ req[r].token \subseteq Tokens /\ Cardinality(req[r].token) \in 0..1
       /\ req[r].tried \subseteq Tokens /\ req[r].excluded \subseteq Tokens
       /\ req[r].failures \in 0..MaxAttempts
       /\ {req[r].capacity, req[r].expired} \subseteq BOOLEAN
  /\ disturbed \subseteq Accounts /\ issued \in [Accounts -> Versions]
  /\ rotations \in 0..MaxRotations /\ events \in 0..MaxEvents

Init ==
  /\ view = [a \in Accounts |-> 1]
  /\ alias = [t \in Tokens |-> NoAlias]
  /\ slots = [t \in Tokens |-> 0]
  /\ req = [r \in Requests |-> NewRequest]
  /\ disturbed = {} /\ issued = [a \in Accounts |-> 1]
  /\ rotations = 0 /\ events = 0

Event == events < MaxEvents /\ events' = events + 1

-----------------------------------------------------------------------------
(* Aliases and slots.                                                      *)

\* Where the version v of a leads: the version that replaced it, unless v is in
\* the view or has no alias.
Hop(al, vw, a, v) == IF v = vw[a] \/ al[<<a, v>>] = NoAlias THEN v ELSE al[<<a, v>>]

\* The versions on the way from v, and v itself: no set with v and without them
\* is closed under hops.
Ahead(al, vw, a, v) ==
  {u \in Versions : \A S \in SUBSET (Versions \ {u}) :
                      v \in S => \E s \in S : Hop(al, vw, a, s) \notin S}

\* The aliases of t are followed up to the first version that comes up again,
\* as one in the view does at once.
Stop(al, vw, a, v, u) ==
  /\ u \in Ahead(al, vw, a, Hop(al, vw, a, u))
  /\ \/ u = v
     \/ \E w \in Ahead(al, vw, a, v) : Hop(al, vw, a, w) = u /\ w \notin Ahead(al, vw, a, u)

\* Most often one hop is enough.
Walk(al, vw, t) ==
  LET next == Hop(al, vw, t[1], t[2])
  IN <<t[1], IF Hop(al, vw, t[1], next) = next THEN next
             ELSE CHOOSE u \in Ahead(al, vw, t[1], t[2]) : Stop(al, vw, t[1], t[2], u)>>

Resolve(t) == Walk(alias, view, t)

\* What is kept of the aliases al when the view is vw: direct ones to rows.
Pruned(al, vw) ==
  [t \in Tokens |->
     LET to == Walk(al, vw, t)
     IN IF to[2] = vw[t[1]] /\ to # t THEN to[2] ELSE NoAlias]

ReleaseBlindly(t) == [slots EXCEPT ![Resolve(t)] = @ - 1]

\* A slot of the row that t stands for now is given back.
Release(t) ==
  LET row == Resolve(t)
  IN [slots EXCEPT ![row] = IF @ <= 1 THEN 0 ELSE @ - 1]

\* The tokens that stand for the row of a, but for its new one.
Replaced(a, new) ==
  {t \in Tokens : t[1] = a /\ Resolve(t) = <<a, view[a]>>} \ {<<a, new>>}

Aliased(a, new) ==
  [t \in Tokens |-> IF t \in Replaced(a, new) THEN new ELSE alias[t]]

Unmoved(a, new) == slots

\* The slots under the tokens S, one by one.
Taken(S) == UNION {{t} \X (1..slots[t]) : t \in S}

Moved(a, new) ==
  [t \in Tokens |->
     IF t \in Replaced(a, new) THEN 0
     ELSE IF t = <<a, new>> THEN slots[t] + Cardinality(Taken(Replaced(a, new)))
     ELSE slots[t]]

-----------------------------------------------------------------------------
(* A request: selection, lease, attempt, retry.                            *)

Token(r) == CHOOSE t \in req[r].token : TRUE

AsGiven(r) == req[r].excluded

\* Exclusions are resolved at every pass over the accounts.
Excluded(r) == {Resolve(t) : t \in req[r].excluded}

Rows == {t \in Tokens : t[2] = view[t[1]]}

Candidates(r) == Rows \ Excluded(r)

Select(r) ==
  /\ req[r].pc = "select" /\ ~req[r].expired
  /\ \E t \in Candidates(r) :
       /\ slots[t] < Limit
       /\ slots' = [slots EXCEPT ![t] = @ + 1]
       /\ req' = [req EXCEPT ![r].pc = "lease", ![r].token = {t}]
  /\ UNCHANGED <<view, alias, disturbed, issued, rotations, events>>

WaitsOn(r) == req[r].capacity

\* wait_for_capacity_account: after a failure for lack of capacity, while an
\* account is left to try and the deadline is not reached.
MayWait(r) == req[r].capacity /\ Candidates(r) # {} /\ ~req[r].expired

\* The error of a selection: another round of all accounts not yet tried, or
\* the end of the request.
NoAccount(r) ==
  IF MayWait(r) THEN [req[r] EXCEPT !.pc = "select", !.token = {}, !.excluded = req[r].tried]
  ELSE Over

\* When all accounts left are out of quota, there is no other round; a deadline
\* that has passed is reported before the accounts are looked at.
Reject(r) ==
  /\ req[r].pc = "select"
  /\ \/ req' = [req EXCEPT ![r] = NoAccount(r)]
     \/ ~req[r].expired /\ req' = [req EXCEPT ![r] = Over]
  /\ UNCHANGED <<view, alias, slots, disturbed, issued, rotations, events>>

\* The lease is for the row as it is now, and is the token from here on.
Lease(r) ==
  LET t == Resolve(Token(r))
  IN /\ req[r].pc = "lease" /\ ~req[r].expired
     /\ t \in Rows
     /\ req' = [req EXCEPT ![r].pc = "run", ![r].token = {t},
                           ![r].tried = req[r].tried \cup {t},
                           ![r].excluded = {}, ![r].capacity = FALSE]
     /\ UNCHANGED <<view, alias, slots, disturbed, issued, rotations, events>>

\* The gate is busy, the credential has changed or the save was overtaken: the
\* account is left out of the rest of this selection.
LeaseRefused(r) ==
  /\ req[r].pc = "lease"
  /\ slots' = Release(Token(r))
  /\ req' = [req EXCEPT ![r] =
       IF req[r].expired THEN Over
       ELSE [req[r] EXCEPT !.pc = "select", !.token = {},
                           !.excluded = req[r].excluded \cup req[r].token]]
  /\ UNCHANGED <<view, alias, disturbed, issued, rotations, events>>

\* Any other error, or a lease that was granted after the deadline.
LeaseFails(r) ==
  /\ req[r].pc = "lease"
  /\ slots' = Release(Token(r))
  /\ req' \in {[req EXCEPT ![r] = NoAccount(r)], [req EXCEPT ![r] = Over]}
  /\ UNCHANGED <<view, alias, disturbed, issued, rotations, events>>

\* Failures of the account's capacity, others that another account may cure,
\* and those that end the request.
Failures == {"capacity", "ordinary", "final"}

Failed(r, f) == IF f = "capacity" THEN req[r].failures ELSE req[r].failures + 1

MayRetry(r, f) ==
  /\ f # "final" /\ ~req[r].expired
  /\ f = "capacity" \/ Failed(r, f) < MaxAttempts

\* After the attempt; an ordinary failure late in the request is not retried.
Ends(r, f) ==
  \/ /\ MayRetry(r, f)
     /\ req' = [req EXCEPT ![r].pc = "select", ![r].token = {}, ![r].excluded = req[r].tried,
                           ![r].failures = Failed(r, f), ![r].capacity = (f = "capacity")]
  \/ /\ ~MayRetry(r, f) \/ f = "ordinary"
     /\ req' = [req EXCEPT ![r] = Over]

\* The attempt; once, an early connection failure is tried again through the
\* fallback proxy, which keeps the token and the slot and is part of it.
Succeed(r) ==
  /\ req[r].pc = "run"
  /\ slots' = Release(Token(r))
  /\ req' = [req EXCEPT ![r] = Over]
  /\ UNCHANGED <<view, alias, disturbed, issued, rotations, events>>

\* The attempt raised, or what follows a success that was recorded did: the
\* slot is given back once in either case.
Fail(r) ==
  /\ req[r].pc = "run"
  /\ slots' = Release(Token(r))
  /\ \E f \in Failures : Ends(r, f)
  /\ UNCHANGED <<view, alias, disturbed, issued, rotations, events>>

\* mark_image_result fails after it has released the slot, and
\* finalize_image_slot releases it again.
ResultFails(r) ==
  /\ req[r].pc = "run" /\ Event
  /\ slots' = Release(Token(r))
  /\ req' = [req EXCEPT ![r].pc = "release"]
  /\ disturbed' = disturbed \cup {Token(r)[1]}
  /\ UNCHANGED <<view, alias, issued, rotations>>

ReleaseAgain(r) ==
  /\ req[r].pc = "release"
  /\ slots' = Release(Token(r))
  /\ \/ \E f \in Failures : Ends(r, f)
     \/ req' = [req EXCEPT ![r] = Over]
  /\ UNCHANGED <<view, alias, disturbed, issued, rotations, events>>

\* An exception that no finalize_image_slot follows, before the attempt or in
\* its handler: the slot stays taken.
Escapes(r) ==
  /\ req[r].pc = "run" /\ Event
  /\ req' = [req EXCEPT ![r] = Over]
  /\ disturbed' = disturbed \cup {Token(r)[1]}
  /\ UNCHANGED <<view, alias, slots, issued, rotations>>

TimeUp(r) ==
  /\ req[r].pc # "done" /\ ~req[r].expired
  /\ req' = [req EXCEPT ![r].expired = TRUE]
  /\ UNCHANGED <<view, alias, slots, disturbed, issued, rotations, events>>

-----------------------------------------------------------------------------
(* The accounts change under the requests.                                 *)

\* A request holds the account, or has to avoid it.
InUse(a) == \E r \in Requests : \E t \in req[r].token \cup req[r].tried : t[1] = a

Disturb(a) == disturbed' = IF InUse(a) THEN disturbed \cup {a} ELSE disturbed

\* A version that came back, or the next new one.
Issue(a, v) ==
  /\ v <= issued[a] + 1
  /\ issued' = IF v > issued[a] THEN [issued EXCEPT ![a] = v] ELSE issued

\* A renewal or an edit here: saving it moves the slots and prunes the aliases.
Rotate(a, new) ==
  /\ view[a] \notin {Gone, new}
  /\ Issue(a, new) /\ rotations < MaxRotations /\ rotations' = rotations + 1
  /\ view' = [view EXCEPT ![a] = new]
  /\ slots' = Moved(a, new)
  /\ alias' = Pruned(Aliased(a, new), view')
  /\ UNCHANGED <<req, disturbed, events>>

\* The rotation of another replica, found by a refresh of the view.
FollowRotation(a, new) ==
  /\ view[a] \notin {Gone, new}
  /\ Issue(a, new) /\ rotations < MaxRotations /\ rotations' = rotations + 1
  /\ view' = [view EXCEPT ![a] = new]
  /\ slots' = Moved(a, new)
  /\ alias' = Aliased(a, new)
  /\ UNCHANGED <<req, disturbed, events>>

\* Any save that rotates nothing.
Save ==
  /\ alias' = Pruned(alias, view)
  /\ UNCHANGED <<view, slots, req, disturbed, issued, rotations, events>>

Delete(a) ==
  /\ view[a] # Gone /\ Event
  /\ view' = [view EXCEPT ![a] = Gone]
  /\ slots' = [slots EXCEPT ![<<a, view[a]>>] = 0]
  /\ alias' = Pruned(alias, view')
  /\ Disturb(a)
  /\ UNCHANGED <<req, issued, rotations>>

\* A refresh finds the row deleted, or back, or new.
FollowDeletion(a) ==
  /\ view[a] # Gone /\ Event
  /\ view' = [view EXCEPT ![a] = Gone]
  /\ Disturb(a)
  /\ UNCHANGED <<alias, slots, req, issued, rotations>>

Return(a, v) ==
  /\ view[a] = Gone /\ (a \in Renewed \/ v = 1) /\ Issue(a, v)
  /\ view' = [view EXCEPT ![a] = v]
  /\ UNCHANGED <<alias, slots, req, disturbed, rotations, events>>

\* The console tests an account and records the result as that of a request,
\* without having taken a slot.
ConsoleTest(a) ==
  /\ view[a] # Gone /\ Event
  /\ slots' = Release(<<a, view[a]>>)
  /\ Disturb(a)
  /\ UNCHANGED <<view, alias, req, issued, rotations>>

-----------------------------------------------------------------------------
RequestStep(r) ==
  \/ Reject(r) \/ LeaseRefused(r) \/ Succeed(r) \/ ReleaseAgain(r)
  \/ Select(r) \/ Lease(r) \/ LeaseFails(r) \/ Fail(r)

\* A bound: an account that was disturbed does not change any more, since no
\* property speaks of it.
AccountStep(a) ==
  /\ a \notin disturbed
  /\ \/ a \in Renewed /\ \E v \in Versions : Rotate(a, v) \/ FollowRotation(a, v)
     \/ \E v \in Versions : Return(a, v)
     \/ Delete(a) \/ FollowDeletion(a) \/ ConsoleTest(a)

Next ==
  \/ \E r \in Requests : RequestStep(r) \/ ResultFails(r) \/ Escapes(r) \/ TimeUp(r)
  \/ \E a \in Accounts : AccountStep(a)
  \/ Save

Spec == Init /\ [][Next]_vars

\* Threads run, calls to the upstream and to the gate end, and time passes.
Fairness == \A r \in Requests : WF_vars(RequestStep(r)) /\ WF_vars(TimeUp(r))

FairSpec == Spec /\ Fairness

-----------------------------------------------------------------------------
(* Properties.                                                             *)

Holders(a) == {r \in Requests : req[r].pc \in {"lease", "run"} /\ \E t \in req[r].token : t[1] = a}

\* An account's slots are all under its present token, as many as there are
\* requests that hold one and never more than the limit, however often the
\* token was replaced, here or elsewhere, since they were taken.
SlotsExact ==
  \A a \in Accounts \ disturbed :
    /\ \A v \in Versions :
         slots[<<a, v>>] = IF v = view[a] THEN Cardinality(Holders(a)) ELSE 0
    /\ Cardinality(Holders(a)) <= Limit

\* A request that has run on an account does not get it again, not under a
\* token that has replaced the one it tried either.
NoReselect ==
  [][\A r \in Requests : req[r].pc = "lease" /\ req'[r].pc = "run" =>
       \A t \in req'[r].token, s \in req[r].tried : t[1] # s[1] \/ t[1] \in disturbed]_vars

\* The token of a call that succeeds or fails, and every token a request leaves
\* out, leads to the row its account has by now: the result is recorded there,
\* and no old token makes the account look untried.
TokensLeadToRows ==
  \A r \in Requests : \A t \in req[r].token \cup req[r].tried :
    \/ t[1] \in disturbed
    \/ view[t[1]] # Gone /\ Resolve(t) = <<t[1], view[t[1]]>>

\* Every request ends: neither the wait for capacity nor the walk over the
\* accounts outlives its deadline.
RequestEnds == <>(\A r \in Requests : req[r].pc = "done")
=============================================================================
