------------------------- MODULE ImageDispatchProofs -------------------------
(***************************************************************************)
(* Proofs about ImageDispatch, for any number of requests, accounts,       *)
(* versions, slots, attempts, rotations and events. The argument is that   *)
(* the token of every request that holds or has tried an account stands    *)
(* for the account's row, by one hop at most, until the account is         *)
(* disturbed: so each release finds the slot it has to give back, and each *)
(* selection the accounts it has to avoid.                                 *)
(***************************************************************************)
EXTENDS ImageDispatch, FiniteSetTheorems, TLAPS

PC == {"select", "lease", "run", "release", "done"}

Loop == [pc : PC, token : SUBSET Tokens, tried : SUBSET Tokens,
         excluded : SUBSET Tokens, failures : 0..MaxAttempts,
         capacity : BOOLEAN, expired : BOOLEAN]

ReqType == req \in [Requests -> Loop]

ViewType ==
  /\ view \in [Accounts -> Versions \cup {Gone}]
  /\ alias \in [Tokens -> Versions \cup {NoAlias}]
  /\ disturbed \subseteq Accounts /\ issued \in [Accounts -> Versions]
  /\ rotations \in 0..MaxRotations /\ events \in 0..MaxEvents

SlotType == slots \in [Tokens -> Nat]

\* A request has a token while it holds a slot or has one to release again.
Handed ==
  \A r \in Requests :
    IF req[r].pc \in {"lease", "run", "release"}
    THEN \E t \in Tokens : req[r].token = {t}
    ELSE req[r].token = {}

Types == ReqType /\ ViewType /\ SlotType /\ Handed

\* t is the row of its account, or a token that it has replaced.
StandsIn(al, vw, t) == vw[t[1]] # Gone /\ (t[2] = vw[t[1]] \/ al[t] = vw[t[1]])

Stands(t) == StandsIn(alias, view, t)

\* What requests hold or have tried still leads to a row.
Known ==
  \A r \in Requests : \A t \in req[r].token \cup req[r].tried :
    t[1] \in disturbed \/ Stands(t)

\* A release that is repeated is of an account that counts as disturbed.
Repeated ==
  \A r \in Requests : req[r].pc = "release" =>
    \A t \in req[r].token : t[1] \in disturbed

\* A selection leaves out all that was tried, so a lease is asked for another
\* account.
Fresh ==
  \A r \in Requests :
    /\ req[r].pc \in {"select", "lease"} => req[r].tried \subseteq req[r].excluded
    /\ req[r].pc = "lease" =>
         \A t \in req[r].token, s \in req[r].tried : t[1] # s[1] \/ t[1] \in disturbed

IInv == Types /\ Known /\ Repeated /\ Fresh /\ SlotsExact

-----------------------------------------------------------------------------
(* Aliases.                                                                *)

LEMMA Constants ==
  /\ Versions \subseteq Nat /\ 1 \in Versions /\ 0 \notin Versions
  /\ Gone = 0 /\ NoAlias = 0 /\ MaxAttempts \in Nat \ {0} /\ MaxEvents \in Nat
  /\ MaxRotations \in Nat /\ Limit \in Nat \ {0} /\ IsFiniteSet(Requests)
BY DispatchAssumption DEF Versions, Gone, NoAlias

\* Whatever a walk comes to, it stays with the account.
LEMMA WalkAccount ==
  ASSUME NEW al, NEW vw, NEW t PROVE Walk(al, vw, t)[1] = t[1]
BY DEF Walk

\* A token that stands for a row leads to it.
LEMMA WalkStands ==
  ASSUME NEW al, NEW vw, NEW t \in Tokens, StandsIn(al, vw, t)
  PROVE  Walk(al, vw, t) = <<t[1], vw[t[1]]>>
<1>1. Hop(al, vw, t[1], vw[t[1]]) = vw[t[1]]
  BY DEF Hop
<1>2. t = <<t[1], t[2]>>
  BY DEF Tokens
<1>3. Hop(al, vw, t[1], t[2]) = vw[t[1]]
  <2>1. CASE t[2] = vw[t[1]]
    BY <2>1 DEF Hop
  <2>2. CASE t[2] # vw[t[1]] /\ al[t] = vw[t[1]]
    BY <1>2, <2>2 DEF Hop, StandsIn, Gone, NoAlias
  <2> QED
    BY <2>1, <2>2 DEF StandsIn
<1> QED
  BY <1>1, <1>3 DEF Walk

\* Pruning keeps what stands for a row, and gives an alias for nothing else.
LEMMA PrunedStands ==
  ASSUME NEW al, NEW vw, NEW t \in Tokens, StandsIn(al, vw, t)
  PROVE  StandsIn(Pruned(al, vw), vw, t)
<1>1. Walk(al, vw, t) = <<t[1], vw[t[1]]>>
  BY WalkStands
<1>2. CASE t[2] = vw[t[1]]
  BY <1>2 DEF StandsIn
<1>3. CASE t[2] # vw[t[1]]
  <2>1. Walk(al, vw, t) # t /\ Walk(al, vw, t)[2] = vw[t[1]]
    BY <1>1, <1>3
  <2>2. Pruned(al, vw)[t] = vw[t[1]]
    BY <2>1 DEF Pruned
  <2> QED
    BY <2>2 DEF StandsIn
<1> QED
  BY <1>2, <1>3

LEMMA PrunedType ==
  ASSUME NEW al, NEW vw \in [Accounts -> Versions \cup {Gone}]
  PROVE  Pruned(al, vw) \in [Tokens -> Versions \cup {NoAlias}]
BY DEF Pruned, Tokens, Gone, NoAlias

\* A rotation of a leaves what stands for a row standing for the new one.
LEMMA AliasedStands ==
  ASSUME NEW a \in Accounts, NEW new \in Versions,
         NEW t \in Tokens, Stands(t), view \in [Accounts -> Versions \cup {Gone}]
  PROVE  StandsIn(Aliased(a, new), [view EXCEPT ![a] = new], t)
<1>1. t[1] \in Accounts /\ t = <<t[1], t[2]>>
  BY DEF Tokens
<1>2. CASE t[1] # a
  <2>1. Aliased(a, new)[t] = alias[t]
    BY <1>2 DEF Aliased, Replaced
  <2> QED
    BY <1>1, <1>2, <2>1 DEF Stands, StandsIn
<1>3. CASE t[1] = a /\ t[2] = new
  BY <1>1, <1>3, Constants DEF StandsIn
<1>4. CASE t[1] = a /\ t[2] # new
  <2>1. Resolve(t) = <<a, view[a]>>
    BY <1>4, WalkStands DEF Stands, Resolve
  <2>2. Aliased(a, new)[t] = new
    BY <1>1, <1>4, <2>1 DEF Aliased, Replaced
  <2> QED
    BY <1>1, <1>4, <2>2, Constants DEF StandsIn
<1> QED
  BY <1>2, <1>3, <1>4

-----------------------------------------------------------------------------
(* The steps of a request.                                                 *)

\* What the accounts keep when a request moves.
Still == UNCHANGED <<view, alias, disturbed, issued, rotations, events>>

\* The request is over, or selects again among what it has not tried.
Leaves(r) ==
  \E rec \in Loop :
    /\ req' = [req EXCEPT ![r] = rec]
    /\ rec.token = {}
    /\ \/ rec.pc = "done" /\ rec.tried = {}
       \/ rec.pc = "select" /\ rec.tried = req[r].tried /\ rec.tried \subseteq rec.excluded

LEMMA OverLeaves ==
  ASSUME NEW r \in Requests, req' = [req EXCEPT ![r] = Over] PROVE Leaves(r)
<1>1. Over \in Loop /\ Over.token = {} /\ Over.pc = "done" /\ Over.tried = {}
  <2>1. NewRequest \in Loop /\ NewRequest.token = {} /\ NewRequest.tried = {}
    BY Constants DEF NewRequest, Loop, PC
  <2> QED
    BY <2>1 DEF Over, Loop, PC
<1> QED
  BY <1>1 DEF Leaves

LEMMA NoAccountLeaves ==
  ASSUME Types, NEW r \in Requests, req' = [req EXCEPT ![r] = NoAccount(r)]
  PROVE  Leaves(r)
<1>1. CASE MayWait(r)
  <2> DEFINE rec == [req[r] EXCEPT !.pc = "select", !.token = {}, !.excluded = req[r].tried]
  <2>1. rec \in Loop /\ rec.token = {} /\ rec.pc = "select"
        /\ rec.tried = req[r].tried /\ rec.excluded = req[r].tried
    BY DEF Types, ReqType, Loop, PC
  <2>2. req' = [req EXCEPT ![r] = rec]
    BY <1>1 DEF NoAccount
  <2> QED
    BY <2>1, <2>2 DEF Leaves
<1>2. CASE ~MayWait(r)
  BY <1>2, OverLeaves DEF NoAccount
<1> QED
  BY <1>1, <1>2

LEMMA EndsLeaves ==
  ASSUME Types, NEW r \in Requests, NEW f \in Failures, Ends(r, f)
  PROVE  Leaves(r)
<1>1. CASE req' = [req EXCEPT ![r] = Over]
  BY <1>1, OverLeaves
<1>2. CASE /\ MayRetry(r, f)
           /\ req' = [req EXCEPT ![r].pc = "select", ![r].token = {}, ![r].excluded = req[r].tried,
                           ![r].failures = Failed(r, f), ![r].capacity = (f = "capacity")]
  <2> DEFINE rec == [req[r] EXCEPT !.pc = "select", !.token = {}, !.excluded = req[r].tried,
                                   !.failures = Failed(r, f), !.capacity = (f = "capacity")]
  <2>1. Failed(r, f) \in 0..MaxAttempts
    BY <1>2, Constants DEF Failed, MayRetry, Types, ReqType, Loop
  <2>2. rec \in Loop /\ rec.token = {} /\ rec.pc = "select"
        /\ rec.tried = req[r].tried /\ rec.excluded = req[r].tried
    BY <2>1 DEF Types, ReqType, Loop, PC
  <2>3. req' = [req EXCEPT ![r] = rec]
    BY <1>2 DEF Types, ReqType, Loop
  <2> QED
    BY <2>2, <2>3 DEF Leaves
<1> QED
  BY <1>1, <1>2 DEF Ends

\* The steps of a request that give back its slot and leave the account.
GivesBack(r) ==
  LeaseRefused(r) \/ LeaseFails(r) \/ Succeed(r) \/ Fail(r) \/ ReleaseAgain(r)

LEMMA GivesBackEffect ==
  ASSUME Types, Fresh, NEW r \in Requests, GivesBack(r)
  PROVE  /\ req[r].pc \in {"lease", "run", "release"}
         /\ slots' = Release(Token(r)) /\ Still /\ Leaves(r)
<1>1. CASE LeaseRefused(r)
  <2>1. CASE req[r].expired
    BY <1>1, <2>1, OverLeaves DEF LeaseRefused, Still
  <2>2. CASE ~req[r].expired
    <3> DEFINE rec == [req[r] EXCEPT !.pc = "select", !.token = {},
                                     !.excluded = req[r].excluded \cup req[r].token]
    <3>1. /\ rec \in Loop /\ rec.token = {} /\ rec.pc = "select"
          /\ rec.tried = req[r].tried /\ rec.excluded = req[r].excluded \cup req[r].token
      BY DEF Types, ReqType, Loop, PC
    <3>2. req' = [req EXCEPT ![r] = rec]
      BY <1>1, <2>2 DEF LeaseRefused
    <3>3. rec.tried \subseteq rec.excluded
      BY <1>1, <3>1 DEF Fresh, LeaseRefused
    <3>4. Leaves(r)
      BY <3>1, <3>2, <3>3 DEF Leaves
    <3> QED
      BY <1>1, <3>4 DEF LeaseRefused, Still
  <2> QED
    BY <2>1, <2>2
<1>2. CASE LeaseFails(r)
  BY <1>2, OverLeaves, NoAccountLeaves DEF LeaseFails, Still
<1>3. CASE Succeed(r)
  BY <1>3, OverLeaves DEF Succeed, Still
<1>4. CASE Fail(r)
  BY <1>4, EndsLeaves DEF Fail, Still
<1>5. CASE ReleaseAgain(r)
  BY <1>5, OverLeaves, EndsLeaves DEF ReleaseAgain, Still
<1> QED
  BY <1>1, <1>2, <1>3, <1>4, <1>5 DEF GivesBack

LEMMA RejectEffect ==
  ASSUME Types, NEW r \in Requests, Reject(r)
  PROVE  req[r].pc = "select" /\ slots' = slots /\ Still /\ Leaves(r)
BY OverLeaves, NoAccountLeaves DEF Reject, Still

LEMMA EscapesEffect ==
  ASSUME Types, NEW r \in Requests, Escapes(r)
  PROVE  /\ req[r].pc = "run" /\ Leaves(r) /\ disturbed' = disturbed \cup {Token(r)[1]}
         /\ UNCHANGED <<view, alias, slots, issued, rotations>>
BY OverLeaves DEF Escapes

\* Every step is one of these.
LEMMA Cases ==
  ASSUME [Next]_vars
  PROVE  \/ \E r \in Requests : \/ GivesBack(r) \/ Reject(r) \/ Select(r) \/ Lease(r)
                               \/ ResultFails(r) \/ Escapes(r) \/ TimeUp(r)
         \/ \E a \in Accounts : a \notin disturbed /\ AccountStep(a)
         \/ Save
         \/ UNCHANGED vars
BY DEF Next, RequestStep, GivesBack, AccountStep

-----------------------------------------------------------------------------
(* Types.                                                                  *)

LEMMA TokenOf ==
  ASSUME Types, NEW r \in Requests, req[r].pc \in {"lease", "run", "release"}
  PROVE  Token(r) \in Tokens /\ req[r].token = {Token(r)}
<1>1. PICK t \in Tokens : req[r].token = {t}
  BY DEF Types, Handed
<1> QED
  BY <1>1 DEF Token

LEMMA ReleaseType ==
  ASSUME SlotType, NEW t \in Tokens
  PROVE  /\ Release(t) \in [Tokens -> Nat]
         /\ \A u \in Tokens : u # Resolve(t) => Release(t)[u] = slots[u]
         /\ Resolve(t) \in Tokens =>
              Release(t)[Resolve(t)] = IF slots[Resolve(t)] <= 1 THEN 0 ELSE slots[Resolve(t)] - 1
<1> DEFINE row == Resolve(t)
<1>1. Release(t) = [slots EXCEPT ![row] = IF slots[row] <= 1 THEN 0 ELSE slots[row] - 1]
  BY DEF Release
<1> HIDE DEF row
<1>2. CASE row \in Tokens
  <2>1. slots[row] \in Nat
    BY <1>2 DEF SlotType
  <2>2. (IF slots[row] <= 1 THEN 0 ELSE slots[row] - 1) \in Nat
    BY <2>1
  <2> QED
    BY <1>1, <1>2, <2>2 DEF SlotType, row
<1>3. CASE row \notin Tokens
  <2>1. Release(t) = slots
    BY <1>1, <1>3 DEF SlotType
  <2> QED
    BY <1>3, <2>1 DEF SlotType, row
<1> QED
  BY <1>2, <1>3

\* Leaving keeps types, and what is said of requests that stay.
LEMMA LeavesType ==
  ASSUME Types, NEW r \in Requests, Leaves(r)
  PROVE  ReqType' /\ Handed'
<1>1. PICK rec \in Loop : /\ req' = [req EXCEPT ![r] = rec]
                          /\ rec.token = {} /\ rec.pc \in {"done", "select"}
  BY DEF Leaves
<1>2. ReqType'
  BY <1>1 DEF Types, ReqType
<1>3. req'[r] = rec /\ \A q \in Requests : q # r => req'[q] = req[q]
  BY <1>1 DEF Types, ReqType
<1> QED
  BY <1>1, <1>2, <1>3 DEF Types, Handed

\* The slots that move with a rotation are those of the row.
LEMMA TakenExact ==
  ASSUME Types, SlotsExact, NEW a \in Accounts, a \notin disturbed,
         view[a] # Gone, NEW new \in Versions, new # view[a]
  PROVE  /\ <<a, view[a]>> \in Replaced(a, new)
         /\ Cardinality(Taken(Replaced(a, new))) = slots[<<a, view[a]>>]
         /\ slots[<<a, view[a]>>] \in Nat
<1> DEFINE row == <<a, view[a]>>
<1>1. view[a] \in Versions /\ row \in Tokens /\ row[1] = a /\ row[2] = view[a]
  BY DEF Types, ViewType, Tokens
<1>2. Stands(row)
  BY <1>1 DEF Stands, StandsIn
<1>3. Resolve(row) = row
  BY <1>1, <1>2, WalkStands DEF Resolve, Stands
<1>4. row \in Replaced(a, new)
  BY <1>1, <1>3 DEF Replaced
<1>5. slots[row] \in Nat
  BY <1>1 DEF Types, SlotType
<1>6. \A t \in Replaced(a, new) : t # row => slots[t] = 0
  <2> SUFFICES ASSUME NEW t \in Replaced(a, new), t # row PROVE slots[t] = 0
    OBVIOUS
  <2>1. t \in Tokens /\ t[1] = a
    BY DEF Replaced
  <2>2. t = <<a, t[2]>> /\ t[2] \in Versions /\ t[2] # view[a]
    BY <2>1 DEF Tokens
  <2> QED
    BY <2>2 DEF SlotsExact
<1>7. Taken(Replaced(a, new)) = {row} \X (1..slots[row])
  <2>1. \A t \in Replaced(a, new) : t # row => 1..slots[t] = {}
    BY <1>6
  <2> QED
    BY <1>4, <2>1 DEF Taken
<1> HIDE DEF row
<1>8. IsFiniteSet({row}) /\ Cardinality({row}) = 1
  BY FS_Singleton
<1>9. IsFiniteSet(1..slots[row]) /\ Cardinality(1..slots[row]) = slots[row]
  BY <1>5, FS_Interval
<1>10. Cardinality({row} \X (1..slots[row])) = Cardinality({row}) * Cardinality(1..slots[row])
  BY <1>8, <1>9, FS_Product
<1>11. Cardinality({row} \X (1..slots[row])) = slots[row]
  BY <1>5, <1>8, <1>9, <1>10
<1> QED
  BY <1>4, <1>5, <1>7, <1>11 DEF row

\* What a rotation does to the slots.
LEMMA MovedExact ==
  ASSUME Types, SlotsExact, NEW a \in Accounts, a \notin disturbed,
         view[a] # Gone, NEW new \in Versions, new # view[a]
  PROVE  /\ Moved(a, new) \in [Tokens -> Nat]
         /\ \A t \in Tokens : t[1] # a => Moved(a, new)[t] = slots[t]
         /\ \A v \in Versions :
              Moved(a, new)[<<a, v>>] = IF v = new THEN slots[<<a, view[a]>>] ELSE 0
<1>1. /\ <<a, view[a]>> \in Replaced(a, new)
      /\ Cardinality(Taken(Replaced(a, new))) = slots[<<a, view[a]>>]
      /\ slots[<<a, view[a]>>] \in Nat
  BY TakenExact
<1>2. \A t \in Tokens : t \in Replaced(a, new) => t[1] = a /\ t # <<a, new>>
  BY DEF Replaced
<1>3. <<a, new>> \in Tokens /\ slots[<<a, new>>] = 0
  BY DEF SlotsExact, Tokens
<1>4. Moved(a, new) \in [Tokens -> Nat]
  BY <1>1, <1>3 DEF Moved, Types, SlotType
<1>5. ASSUME NEW v \in Versions
      PROVE  Moved(a, new)[<<a, v>>] = IF v = new THEN slots[<<a, view[a]>>] ELSE 0
  <2>1. <<a, v>> \in Tokens
    BY DEF Tokens
  <2>2. CASE v = new
    BY <1>1, <1>2, <1>3, <2>1, <2>2 DEF Moved
  <2>3. CASE v # new /\ <<a, v>> \in Replaced(a, new)
    BY <2>1, <2>3 DEF Moved
  <2>4. CASE v # new /\ <<a, v>> \notin Replaced(a, new)
    <3>1. v # view[a]
      BY <1>1, <2>4
    <3>2. Moved(a, new)[<<a, v>>] = slots[<<a, v>>]
      BY <2>1, <2>4 DEF Moved
    <3> QED
      BY <2>4, <3>1, <3>2 DEF SlotsExact
  <2> QED
    BY <2>2, <2>3, <2>4
<1>6. \A t \in Tokens : t[1] # a => Moved(a, new)[t] = slots[t]
  BY <1>2 DEF Moved
<1> QED
  BY <1>4, <1>5, <1>6

LEMMA IssueType ==
  ASSUME Types, NEW a \in Accounts, NEW v \in Versions, Issue(a, v)
  PROVE  issued' \in [Accounts -> Versions]
BY DEF Issue, Types, ViewType

LEMMA DisturbType ==
  ASSUME Types, NEW a \in Accounts, Disturb(a)
  PROVE  disturbed' \subseteq Accounts
BY DEF Disturb, Types, ViewType

LEMMA EventType ==
  ASSUME Types, Event PROVE events' \in 0..MaxEvents
BY Constants DEF Event, Types, ViewType

LEMMA TypesStep == Types /\ Fresh /\ SlotsExact /\ [Next]_vars => Types'
<1> SUFFICES ASSUME Types, Fresh, SlotsExact, [Next]_vars PROVE Types'
  OBVIOUS
<1> USE DEF Types
<1>s. Still => ViewType'
  BY DEF Still, ViewType
<1>r. UNCHANGED req => ReqType' /\ Handed'
  BY DEF ReqType, Handed
<1>1. ASSUME NEW r \in Requests, GivesBack(r) PROVE Types'
  <2>1. /\ req[r].pc \in {"lease", "run", "release"}
        /\ slots' = Release(Token(r)) /\ Still /\ Leaves(r)
    BY <1>1, GivesBackEffect
  <2>2. SlotType'
    BY <2>1, TokenOf, ReleaseType DEF SlotType
  <2> QED
    BY <1>s, <2>1, <2>2, LeavesType
<1>2. ASSUME NEW r \in Requests, Reject(r) PROVE Types'
  BY <1>2, <1>s, RejectEffect, LeavesType DEF SlotType
<1>3. ASSUME NEW r \in Requests, Select(r) PROVE Types'
  <2>1. PICK t \in Tokens : /\ slots' = [slots EXCEPT ![t] = @ + 1]
                            /\ req' = [req EXCEPT ![r].pc = "lease", ![r].token = {t}]
    BY <1>3 DEF Select, Candidates, Rows
  <2>2. SlotType'
    BY <2>1 DEF SlotType
  <2>3. ReqType'
    <3> DEFINE rec == [req[r] EXCEPT !.pc = "lease", !.token = {t}]
    <3>1. {t} \in SUBSET Tokens
      OBVIOUS
    <3>2. rec \in Loop
      BY <3>1 DEF ReqType, Loop, PC
    <3>3. req' = [req EXCEPT ![r] = rec]
      BY <2>1 DEF ReqType, Loop
    <3> HIDE DEF rec
    <3> QED
      BY <3>2, <3>3 DEF ReqType
  <2>4. /\ req'[r].pc = "lease" /\ req'[r].token = {t}
        /\ \A q \in Requests : q # r => req'[q] = req[q]
    BY <2>1 DEF ReqType, Loop
  <2>5. Handed'
    BY <2>4 DEF Handed
  <2> QED
    BY <1>3, <1>s, <2>2, <2>3, <2>5 DEF Select, Still
<1>4. ASSUME NEW r \in Requests, Lease(r) PROVE Types'
  <2>1. PICK t \in Tokens :
          req' = [req EXCEPT ![r].pc = "run", ![r].token = {t}, ![r].tried = req[r].tried \cup {t},
                             ![r].excluded = {}, ![r].capacity = FALSE]
    BY <1>4 DEF Lease, Rows
  <2>2. ReqType'
    <3> DEFINE rec == [req[r] EXCEPT !.pc = "run", !.token = {t}, !.tried = req[r].tried \cup {t},
                                     !.excluded = {}, !.capacity = FALSE]
    <3>1. {t} \in SUBSET Tokens /\ req[r].tried \cup {t} \in SUBSET Tokens /\ {} \in SUBSET Tokens
      BY DEF ReqType, Loop
    <3>2. rec \in Loop
      BY <3>1 DEF ReqType, Loop, PC
    <3>3. req' = [req EXCEPT ![r] = rec]
      BY <2>1 DEF ReqType, Loop
    <3> HIDE DEF rec
    <3> QED
      BY <3>2, <3>3 DEF ReqType
  <2>3. /\ req'[r].pc = "run" /\ req'[r].token = {t}
        /\ \A q \in Requests : q # r => req'[q] = req[q]
    BY <2>1 DEF ReqType, Loop
  <2>4. Handed'
    BY <2>3 DEF Handed
  <2>5. SlotType'
    BY <1>4 DEF Lease, SlotType
  <2> QED
    BY <1>4, <1>s, <2>2, <2>4, <2>5 DEF Lease, Still
<1>5. ASSUME NEW r \in Requests, ResultFails(r) PROVE Types'
  <2>1. SlotType'
    BY <1>5, TokenOf, ReleaseType DEF SlotType, ResultFails
  <2>2. ReqType' /\ Handed'
    BY <1>5 DEF ResultFails, ReqType, Handed, Loop, PC
  <2>3. Token(r) \in Tokens
    BY <1>5, TokenOf DEF ResultFails
  <2>4. ViewType'
    BY <1>5, <2>3, EventType DEF ResultFails, ViewType, Tokens
  <2> QED
    BY <2>1, <2>2, <2>4
<1>10. ASSUME NEW r \in Requests, Escapes(r) PROVE Types'
  <2>1. ReqType' /\ Handed'
    BY <1>10, EscapesEffect, LeavesType
  <2>2. SlotType' /\ Token(r) \in Tokens
    BY <1>10, TokenOf DEF Escapes, SlotType
  <2>3. ViewType'
    BY <1>10, <2>2, EventType DEF Escapes, ViewType, Tokens
  <2> QED
    BY <2>1, <2>2, <2>3
<1>6. ASSUME NEW r \in Requests, TimeUp(r) PROVE Types'
  <2>1. /\ req' = [req EXCEPT ![r] = [req[r] EXCEPT !.expired = TRUE]]
        /\ req[r] \in Loop
    BY <1>6 DEF TimeUp, ReqType
  <2>3. [req[r] EXCEPT !.expired = TRUE] \in Loop
    BY <2>1 DEF Loop
  <2>4. ReqType'
    BY <2>1, <2>3 DEF ReqType
  <2>5. \A q \in Requests : req'[q].pc = req[q].pc /\ req'[q].token = req[q].token
    BY <2>1 DEF ReqType, Loop
  <2>6. Handed'
    BY <2>5 DEF Handed
  <2>2. SlotType'
    BY <1>6 DEF TimeUp, SlotType
  <2> QED
    BY <1>6, <1>s, <2>2, <2>4, <2>6 DEF TimeUp, Still
<1>7. ASSUME NEW a \in Accounts, a \notin disturbed, AccountStep(a) PROVE Types'
  <2>1. ASSUME NEW v \in Versions, Rotate(a, v) PROVE Types'
    <3>1. SlotType'
      BY <1>7, <2>1, MovedExact DEF Rotate, SlotType
    <3>2. view' \in [Accounts -> Versions \cup {Gone}]
      BY <2>1 DEF Rotate, ViewType
    <3>3. alias' \in [Tokens -> Versions \cup {NoAlias}]
      BY <2>1, <3>2, PrunedType DEF Rotate
    <3>4. rotations' \in 0..MaxRotations
      BY <2>1, Constants DEF Rotate, ViewType
    <3> QED
      BY <1>r, <2>1, <3>1, <3>2, <3>3, <3>4, IssueType DEF Rotate, ViewType
  <2>2. ASSUME NEW v \in Versions, FollowRotation(a, v) PROVE Types'
    <3>1. SlotType'
      BY <1>7, <2>2, MovedExact DEF FollowRotation, SlotType
    <3>2. view' \in [Accounts -> Versions \cup {Gone}]
      BY <2>2 DEF FollowRotation, ViewType
    <3>3. alias' \in [Tokens -> Versions \cup {NoAlias}]
      BY <2>2 DEF FollowRotation, Aliased, ViewType
    <3>4. rotations' \in 0..MaxRotations
      BY <2>2, Constants DEF FollowRotation, ViewType
    <3> QED
      BY <1>r, <2>2, <3>1, <3>2, <3>3, <3>4, IssueType DEF FollowRotation, ViewType
  <2>3. ASSUME NEW v \in Versions, Return(a, v) PROVE Types'
    BY <1>r, <2>3, IssueType DEF Return, ViewType, SlotType
  <2>4. ASSUME Delete(a) PROVE Types'
    <3>1. view' \in [Accounts -> Versions \cup {Gone}]
      BY <2>4 DEF Delete, ViewType
    <3>2. alias' \in [Tokens -> Versions \cup {NoAlias}]
      BY <2>4, <3>1, PrunedType DEF Delete
    <3>3. SlotType'
      BY <2>4 DEF Delete, SlotType
    <3> QED
      BY <1>r, <2>4, <3>1, <3>2, <3>3, EventType, DisturbType DEF Delete, ViewType
  <2>5. ASSUME FollowDeletion(a) PROVE Types'
    BY <1>r, <2>5, EventType, DisturbType DEF FollowDeletion, ViewType, SlotType
  <2>6. ASSUME ConsoleTest(a) PROVE Types'
    <3>1. <<a, view[a]>> \in Tokens
      BY <2>6 DEF ConsoleTest, ViewType, Tokens
    <3>2. SlotType'
      BY <2>6, <3>1, ReleaseType DEF ConsoleTest, SlotType
    <3> QED
      BY <1>r, <2>6, <3>2, EventType, DisturbType DEF ConsoleTest, ViewType
  <2> QED
    BY <1>7, <2>1, <2>2, <2>3, <2>4, <2>5, <2>6 DEF AccountStep
<1>8. CASE Save
  <2>1. alias' \in [Tokens -> Versions \cup {NoAlias}]
    BY <1>8, PrunedType DEF Save, ViewType
  <2> QED
    BY <1>8, <1>r, <2>1 DEF Save, ViewType, SlotType
<1>9. CASE UNCHANGED vars
  BY <1>9, <1>r, <1>s DEF vars, Still, SlotType
<1> QED
  BY <1>1, <1>2, <1>3, <1>4, <1>5, <1>6, <1>7, <1>8, <1>9, <1>10, Cases

-----------------------------------------------------------------------------
(* What requests know of their tokens.                                     *)

LEMMA LeavesParts ==
  ASSUME Types, NEW r \in Requests, Leaves(r)
  PROVE  /\ \A q \in Requests : q # r => req'[q] = req[q]
         /\ req'[r].pc \in {"done", "select"} /\ req'[r].token = {}
         /\ req'[r].tried \subseteq req[r].tried
         /\ req'[r].pc = "select" => req'[r].tried \subseteq req'[r].excluded
<1>1. PICK rec \in Loop :
        /\ req' = [req EXCEPT ![r] = rec] /\ rec.token = {}
        /\ \/ rec.pc = "done" /\ rec.tried = {}
           \/ rec.pc = "select" /\ rec.tried = req[r].tried /\ rec.tried \subseteq rec.excluded
  BY DEF Leaves
<1>2. req'[r] = rec /\ \A q \in Requests : q # r => req'[q] = req[q]
  BY <1>1 DEF Types, ReqType
<1> QED
  BY <1>1, <1>2

LEMMA SelectParts ==
  ASSUME Types, NEW r \in Requests, Select(r)
  PROVE  \E t \in Rows :
           /\ t \in Tokens /\ Stands(t) /\ t \notin Excluded(r)
           /\ slots[t] < Limit /\ slots' = [slots EXCEPT ![t] = @ + 1]
           /\ \A q \in Requests : q # r => req'[q] = req[q]
           /\ req'[r].pc = "lease" /\ req'[r].token = {t}
           /\ req'[r].tried = req[r].tried /\ req'[r].excluded = req[r].excluded
<1>1. PICK t \in Candidates(r) :
        /\ slots[t] < Limit /\ slots' = [slots EXCEPT ![t] = @ + 1]
        /\ req' = [req EXCEPT ![r].pc = "lease", ![r].token = {t}]
  BY DEF Select
<1>2. t \in Rows /\ t \in Tokens /\ t \notin Excluded(r)
  BY DEF Candidates, Rows
<1>3. Stands(t)
  BY <1>2, Constants DEF Rows, Stands, StandsIn, Tokens
<1>4. /\ \A q \in Requests : q # r => req'[q] = req[q]
      /\ req'[r].pc = "lease" /\ req'[r].token = {t}
      /\ req'[r].tried = req[r].tried /\ req'[r].excluded = req[r].excluded
  BY <1>1 DEF Types, ReqType, Loop
<1> QED
  BY <1>1, <1>2, <1>3, <1>4

LEMMA LeaseParts ==
  ASSUME Types, NEW r \in Requests, Lease(r)
  PROVE  /\ Resolve(Token(r)) \in Tokens /\ Stands(Resolve(Token(r)))
         /\ Resolve(Token(r))[1] = Token(r)[1]
         /\ \A q \in Requests : q # r => req'[q] = req[q]
         /\ req[r].pc = "lease" /\ req'[r].pc = "run"
         /\ req'[r].token = {Resolve(Token(r))}
         /\ req'[r].tried = req[r].tried \cup {Resolve(Token(r))}
<1> DEFINE t == Resolve(Token(r))
<1>1. /\ t \in Rows
      /\ req' = [req EXCEPT ![r].pc = "run", ![r].token = {t}, ![r].tried = req[r].tried \cup {t},
                            ![r].excluded = {}, ![r].capacity = FALSE]
  BY DEF Lease
<1>2. t[1] = Token(r)[1]
  BY WalkAccount DEF Resolve
<1> HIDE DEF t
<1>3. t \in Tokens /\ Stands(t)
  BY <1>1, Constants DEF Rows, Stands, StandsIn, Tokens
<1>4. /\ \A q \in Requests : q # r => req'[q] = req[q]
      /\ req'[r].pc = "run" /\ req'[r].token = {t} /\ req'[r].tried = req[r].tried \cup {t}
  BY <1>1 DEF Types, ReqType, Loop
<1>5. req[r].pc = "lease"
  BY DEF Lease
<1> QED
  BY <1>2, <1>3, <1>4, <1>5 DEF t

\* ResultFails and TimeUp change no token.
LEMMA OtherParts ==
  ASSUME Types, NEW r \in Requests, ResultFails(r) \/ TimeUp(r)
  PROVE  /\ \A q \in Requests : /\ q # r => req'[q] = req[q]
                                /\ req'[q].token = req[q].token
                                /\ req'[q].tried = req[q].tried
                                /\ req'[q].excluded = req[q].excluded
         /\ ResultFails(r) => req[r].pc = "run" /\ req'[r].pc = "release"
         /\ TimeUp(r) => req'[r].pc = req[r].pc
BY DEF ResultFails, TimeUp, Types, ReqType, Loop

\* An account step leaves requests alone, and the account it disturbs is
\* marked if a request knows it.
LEMMA AccountKnown ==
  ASSUME Types, Known, NEW a \in Accounts, AccountStep(a)
  PROVE  /\ req' = req /\ disturbed \subseteq disturbed' /\ Known'
<1>1. req' = req /\ disturbed \subseteq disturbed'
  BY DEF AccountStep, Rotate, FollowRotation, Return, Delete, FollowDeletion, ConsoleTest, Disturb
<1>2. ASSUME NEW t \in Tokens, Stands(t), t[1] = a => InUse(a)
      PROVE  t[1] \in disturbed' \/ Stands(t)'
  <2>0. t[1] \in Accounts
    BY DEF Tokens
  <2>1. ASSUME NEW v \in Versions, Rotate(a, v) PROVE Stands(t)'
    <3>1. StandsIn(Aliased(a, v), view', t)
      BY <1>2, <2>1, AliasedStands DEF Rotate, Types, ViewType
    <3>2. StandsIn(alias', view', t)
      BY <2>1, <3>1, PrunedStands DEF Rotate
    <3> QED
      BY <3>2 DEF Stands, StandsIn
  <2>2. ASSUME NEW v \in Versions, FollowRotation(a, v) PROVE Stands(t)'
    <3>1. StandsIn(alias', view', t)
      BY <1>2, <2>2, AliasedStands DEF FollowRotation, Types, ViewType
    <3> QED
      BY <3>1 DEF Stands, StandsIn
  <2>3. ASSUME NEW v \in Versions, Return(a, v) PROVE Stands(t)'
    <3>1. view' = [view EXCEPT ![a] = v] /\ view[a] = Gone /\ alias' = alias
      BY <2>3 DEF Return
    <3>2. t[1] # a
      BY <1>2, <3>1 DEF Stands, StandsIn
    <3> QED
      BY <1>2, <2>0, <3>1, <3>2 DEF Stands, StandsIn, Types, ViewType
  <2>4. ASSUME Delete(a) PROVE t[1] \in disturbed' \/ Stands(t)'
    <3>1. CASE t[1] = a
      BY <1>2, <2>4, <3>1 DEF Delete, Disturb
    <3>2. CASE t[1] # a
      <4>1. StandsIn(alias, view', t)
        BY <1>2, <2>0, <2>4, <3>2 DEF Delete, Stands, StandsIn, Types, ViewType
      <4>2. StandsIn(alias', view', t)
        BY <2>4, <4>1, PrunedStands DEF Delete
      <4> QED
        BY <4>2 DEF Stands, StandsIn
    <3> QED
      BY <3>1, <3>2
  <2>5. ASSUME FollowDeletion(a) PROVE t[1] \in disturbed' \/ Stands(t)'
    <3>1. CASE t[1] = a
      BY <1>2, <2>5, <3>1 DEF FollowDeletion, Disturb
    <3>2. CASE t[1] # a
      BY <1>2, <2>0, <2>5, <3>2 DEF FollowDeletion, Stands, StandsIn, Types, ViewType
    <3> QED
      BY <3>1, <3>2
  <2>6. ASSUME ConsoleTest(a) PROVE Stands(t)'
    BY <1>2, <2>6 DEF ConsoleTest, Stands, StandsIn
  <2> QED
    BY <2>1, <2>2, <2>3, <2>4, <2>5, <2>6 DEF AccountStep
<1>3. ASSUME NEW q \in Requests, NEW t \in req[q].token \cup req[q].tried
      PROVE  t[1] \in disturbed' \/ Stands(t)'
  <2>1. t \in Tokens
    BY DEF Types, ReqType, Loop
  <2>2. t[1] = a => InUse(a)
    BY DEF InUse
  <2>3. t[1] \in disturbed \/ Stands(t)
    BY DEF Known
  <2> QED
    BY <1>1, <1>2, <2>1, <2>2, <2>3
<1> QED
  BY <1>1, <1>3 DEF Known

\* Pruning at any other save.
LEMMA SaveKnown == ASSUME Types, Known, Save PROVE Known'
<1> SUFFICES ASSUME NEW q \in Requests, NEW t \in req[q].token \cup req[q].tried
             PROVE  t[1] \in disturbed \/ StandsIn(Pruned(alias, view), view, t)
  BY DEF Known, Save, Stands, StandsIn
<1>1. t \in Tokens
  BY DEF Types, ReqType, Loop
<1>2. t[1] \in disturbed \/ Stands(t)
  BY DEF Known
<1> QED
  BY <1>1, <1>2, PrunedStands DEF Stands

LEMMA KnownStep ==
  Types /\ Known /\ Fresh /\ [Next]_vars => Known' /\ disturbed \subseteq disturbed'
<1> SUFFICES ASSUME Types, Known, Fresh, [Next]_vars
             PROVE  Known' /\ disturbed \subseteq disturbed'
  OBVIOUS
\* Requests move, accounts do not.
<1>s. ASSUME UNCHANGED <<view, alias>>, disturbed \subseteq disturbed',
             \A q \in Requests : \A t \in req'[q].token \cup req'[q].tried :
                t \in req[q].token \cup req[q].tried \/ Stands(t)
      PROVE  Known'
  BY <1>s DEF Known, Stands, StandsIn
<1>1. ASSUME NEW r \in Requests, GivesBack(r) \/ Reject(r)
      PROVE  Known' /\ disturbed \subseteq disturbed'
  BY <1>1, <1>s, GivesBackEffect, RejectEffect, LeavesParts DEF Still
<1>2. ASSUME NEW r \in Requests, Select(r) PROVE Known' /\ disturbed \subseteq disturbed'
  <2>1. UNCHANGED <<view, alias, disturbed>>
    BY <1>2 DEF Select
  <2>2. PICK t \in Rows : /\ Stands(t) /\ \A q \in Requests : q # r => req'[q] = req[q]
                          /\ req'[r].token = {t} /\ req'[r].tried = req[r].tried
    BY <1>2, SelectParts
  <2> QED
    BY <1>s, <2>1, <2>2
<1>3. ASSUME NEW r \in Requests, Lease(r) PROVE Known' /\ disturbed \subseteq disturbed'
  <2>1. UNCHANGED <<view, alias, disturbed>>
    BY <1>3 DEF Lease
  <2> QED
    BY <1>3, <1>s, <2>1, LeaseParts
<1>4. ASSUME NEW r \in Requests, ResultFails(r) \/ TimeUp(r)
      PROVE  Known' /\ disturbed \subseteq disturbed'
  BY <1>4, <1>s, OtherParts DEF ResultFails, TimeUp
<1>5. ASSUME NEW r \in Requests, Escapes(r) PROVE Known' /\ disturbed \subseteq disturbed'
  BY <1>5, <1>s, EscapesEffect, LeavesParts
<1>6. CASE Save
  BY <1>6, SaveKnown DEF Save
<1>7. CASE UNCHANGED vars
  BY <1>7, <1>s DEF vars
<1> QED
  BY <1>1, <1>2, <1>3, <1>4, <1>5, <1>6, <1>7, AccountKnown, Cases

LEMMA RepeatedStep ==
  Types /\ Known /\ Fresh /\ Repeated /\ [Next]_vars => Repeated'
<1> SUFFICES ASSUME Types, Known, Fresh, Repeated, [Next]_vars PROVE Repeated'
  OBVIOUS
<1>0. disturbed \subseteq disturbed'
  BY KnownStep
<1>s. ASSUME \A q \in Requests : req'[q].pc = "release" =>
               req[q].pc = "release" /\ req'[q].token = req[q].token
      PROVE  Repeated'
  BY <1>0, <1>s DEF Repeated
<1>1. ASSUME NEW r \in Requests, GivesBack(r) \/ Reject(r) \/ Escapes(r) PROVE Repeated'
  BY <1>1, <1>s, GivesBackEffect, RejectEffect, EscapesEffect, LeavesParts
<1>2. ASSUME NEW r \in Requests, Select(r) PROVE Repeated'
  BY <1>2, <1>s, SelectParts
<1>3. ASSUME NEW r \in Requests, Lease(r) PROVE Repeated'
  BY <1>3, <1>s, LeaseParts
<1>4. ASSUME NEW r \in Requests, ResultFails(r) PROVE Repeated'
  <2>1. req[r].token = {Token(r)} /\ disturbed' = disturbed \cup {Token(r)[1]}
    BY <1>4, TokenOf DEF ResultFails
  <2> QED
    BY <1>4, <2>1, OtherParts DEF Repeated
<1>5. ASSUME NEW r \in Requests, TimeUp(r) PROVE Repeated'
  BY <1>5, <1>s, OtherParts
<1>6. CASE Save \/ UNCHANGED vars \/ \E a \in Accounts : AccountStep(a)
  BY <1>6, <1>s, AccountKnown DEF Save, vars
<1> QED
  BY <1>1, <1>2, <1>3, <1>4, <1>5, <1>6, Cases

LEMMA FreshStep ==
  Types /\ Known /\ Fresh /\ [Next]_vars => Fresh'
<1> SUFFICES ASSUME Types, Known, Fresh, [Next]_vars PROVE Fresh'
  OBVIOUS
<1>0. disturbed \subseteq disturbed'
  BY KnownStep
\* Requests that are asked nothing new.
<1>s. ASSUME \A q \in Requests :
               \/ /\ req'[q].pc \in {req[q].pc, "done", "run", "release"}
                  /\ req'[q].token = req[q].token /\ req'[q].tried = req[q].tried
                  /\ req'[q].excluded = req[q].excluded
               \/ req'[q].pc \notin {"select", "lease"}
               \/ req'[q].pc = "select" /\ req'[q].tried \subseteq req'[q].excluded
      PROVE  Fresh'
  BY <1>0, <1>s DEF Fresh
<1>1. ASSUME NEW r \in Requests, GivesBack(r) \/ Reject(r) \/ Escapes(r) PROVE Fresh'
  BY <1>1, <1>s, GivesBackEffect, RejectEffect, EscapesEffect, LeavesParts
<1>2. ASSUME NEW r \in Requests, Select(r) PROVE Fresh'
  <2>1. PICK t \in Rows :
           /\ t \in Tokens /\ t \notin Excluded(r)
           /\ \A q \in Requests : q # r => req'[q] = req[q]
           /\ req'[r].pc = "lease" /\ req'[r].token = {t}
           /\ req'[r].tried = req[r].tried /\ req'[r].excluded = req[r].excluded
    BY <1>2, SelectParts
  <2>2. req[r].pc = "select" /\ req[r].tried \subseteq req[r].excluded
    BY <1>2 DEF Select, Fresh
  <2>3. ASSUME NEW s \in req[r].tried, s[1] = t[1], s[1] \notin disturbed PROVE FALSE
    <3>1. s \in Tokens /\ Stands(s)
      BY <2>3 DEF Known, Types, ReqType, Loop
    <3>2. Resolve(s) = <<t[1], view[t[1]]>>
      BY <2>3, <3>1, WalkStands DEF Resolve, Stands
    <3>3. t = <<t[1], view[t[1]]>>
      BY DEF Rows, Tokens
    <3> QED
      BY <2>1, <2>2, <3>2, <3>3 DEF Excluded
  <2> QED
    BY <1>0, <2>1, <2>2, <2>3 DEF Fresh
<1>3. ASSUME NEW r \in Requests, Lease(r) PROVE Fresh'
  BY <1>3, <1>s, LeaseParts
<1>4. ASSUME NEW r \in Requests, ResultFails(r) \/ TimeUp(r) PROVE Fresh'
  BY <1>4, <1>s, OtherParts
<1>5. CASE Save \/ UNCHANGED vars \/ \E a \in Accounts : AccountStep(a)
  BY <1>5, <1>s, AccountKnown DEF Save, vars
<1> QED
  BY <1>1, <1>2, <1>3, <1>4, <1>5, Cases

-----------------------------------------------------------------------------
(* Slots.                                                                  *)

One(b) == IF b THEN 1 ELSE 0

\* SlotsExact for one account.
Exact(a) ==
  /\ \A v \in Versions : slots[<<a, v>>] = IF v = view[a] THEN Cardinality(Holders(a)) ELSE 0
  /\ Cardinality(Holders(a)) <= Limit

LEMMA HoldersFinite ==
  ASSUME NEW a PROVE IsFiniteSet(Holders(a)) /\ Cardinality(Holders(a)) \in Nat
<1>1. Holders(a) \in SUBSET Requests
  BY DEF Holders
<1> QED
  BY <1>1, Constants, FS_Subset, FS_CardinalityType

\* When one request moves, an account gains or loses one holder at most.
LEMMA HoldersMove ==
  ASSUME NEW r \in Requests, \A q \in Requests : q # r => req'[q] = req[q], NEW a
  PROVE  Cardinality(Holders(a))'
           = Cardinality(Holders(a)) + One(r \in Holders(a)') - One(r \in Holders(a))
<1> DEFINE S == Holders(a)
           T == Holders(a)'
<1>1. IsFiniteSet(S) /\ Cardinality(S) \in Nat
  BY HoldersFinite
<1>2. \A q : q # r => (q \in T <=> q \in S)
  BY DEF Holders
<1>3. CASE r \in T
  <2>1. T = S \cup {r}
    BY <1>2, <1>3
  <2>2. Cardinality(T) = IF r \in S THEN Cardinality(S) ELSE Cardinality(S) + 1
    BY <1>1, <2>1, FS_AddElement
  <2> QED
    BY <1>1, <1>3, <2>2 DEF One
<1>4. CASE r \notin T
  <2>1. T = S \ {r}
    BY <1>2, <1>4
  <2>2. Cardinality(T) = IF r \in S THEN Cardinality(S) - 1 ELSE Cardinality(S)
    BY <1>1, <2>1, FS_RemoveElement
  <2> QED
    BY <1>1, <1>4, <2>2 DEF One
<1> QED
  BY <1>3, <1>4

\* No request holds an account that none knows.
LEMMA UnknownUnheld ==
  ASSUME Types, NEW a, ~InUse(a)
  PROVE  Holders(a) = {} /\ Cardinality(Holders(a)) = 0
<1>1. Holders(a) = {}
  BY DEF Holders, InUse
<1> QED
  BY <1>1, FS_EmptySet

\* An account whose slots and holders are as they were.
LEMMA ExactFrame ==
  ASSUME NEW a, Exact(a), view'[a] = view[a], Holders(a)' = Holders(a),
         \A v \in Versions : slots'[<<a, v>>] = slots[<<a, v>>]
  PROVE  Exact(a)'
BY DEF Exact

LEMMA GivesBackExact ==
  ASSUME IInv, NEW r \in Requests, req[r].pc \in {"lease", "run", "release"},
         slots' = Release(Token(r)), UNCHANGED view,
         \A q \in Requests : q # r => req'[q] = req[q],
         req'[r].pc \notin {"lease", "run"},
         NEW a \in Accounts, a \notin disturbed
  PROVE  Exact(a)'
<1>1. Token(r) \in Tokens /\ req[r].token = {Token(r)}
  BY TokenOf DEF IInv
<1>2. Exact(a)
  BY DEF IInv, SlotsExact, Exact
<1>3. r \notin Holders(a)'
  BY DEF Holders
<1>4. Resolve(Token(r))[1] = Token(r)[1]
  BY WalkAccount DEF Resolve
<1>5. CASE Token(r)[1] # a
  <2>1. r \notin Holders(a)
    BY <1>1, <1>5 DEF Holders
  <2>2. Holders(a)' = Holders(a)
    BY <1>3, <2>1 DEF Holders
  <2>3. \A v \in Versions : slots'[<<a, v>>] = slots[<<a, v>>]
    <3> SUFFICES ASSUME NEW v \in Versions PROVE slots'[<<a, v>>] = slots[<<a, v>>]
      OBVIOUS
    <3>1. <<a, v>> \in Tokens /\ <<a, v>> # Resolve(Token(r))
      BY <1>4, <1>5 DEF Tokens
    <3> QED
      BY <1>1, <3>1, ReleaseType DEF IInv, Types
  <2> QED
    BY <1>2, <2>2, <2>3, ExactFrame
<1>6. CASE Token(r)[1] = a
  <2>1. r \in Holders(a)
    BY <1>1, <1>6 DEF Holders, IInv, Repeated
  <2>2. Stands(Token(r))
    BY <1>1, <1>6 DEF IInv, Known
  <2> DEFINE row == <<a, view[a]>>
             n   == Cardinality(Holders(a))
  <2>3. Resolve(Token(r)) = row
    BY <1>1, <1>6, <2>2, WalkStands DEF Resolve, Stands
  <2>4. row \in Tokens /\ view[a] \in Versions
    BY <2>2, <1>6 DEF IInv, Types, ViewType, Tokens, Stands, StandsIn
  <2>5. n \in Nat /\ slots[row] = n /\ n <= Limit
    BY <1>2, <2>4, HoldersFinite DEF Exact
  <2>6. Cardinality(Holders(a))' = n - 1
    BY <1>3, <2>1, <2>5, HoldersMove DEF One
  <2>7. Cardinality(Holders(a))' \in Nat
    <3>1. Holders(a)' \in SUBSET Requests
      BY DEF Holders
    <3> QED
      BY <3>1, Constants, FS_Subset, FS_CardinalityType
  <2>8. slots'[row] = n - 1
    <3> HIDE DEF row, n
    <3>1. slots'[row] = IF slots[row] <= 1 THEN 0 ELSE slots[row] - 1
      BY <1>1, <2>3, <2>4, ReleaseType DEF IInv, Types
    <3>2. n >= 1
      BY <2>5, <2>6, <2>7
    <3> QED
      BY <2>5, <3>1, <3>2
  <2>9. ASSUME NEW v \in Versions, v # view[a] PROVE slots'[<<a, v>>] = 0
    <3>1. <<a, v>> \in Tokens /\ <<a, v>> # row
      BY <2>9 DEF Tokens
    <3>2. slots'[<<a, v>>] = slots[<<a, v>>]
      BY <1>1, <2>3, <3>1, ReleaseType DEF IInv, Types
    <3> QED
      BY <1>2, <2>9, <3>2 DEF Exact
  <2>10. n - 1 <= Limit
    BY <2>5, Constants
  <2> HIDE DEF n
  <2> QED
    BY <2>6, <2>8, <2>9, <2>10 DEF Exact
<1> QED
  BY <1>5, <1>6

LEMMA SelectExact ==
  ASSUME IInv, NEW r \in Requests, Select(r), NEW a \in Accounts, a \notin disturbed
  PROVE  Exact(a)'
<1>0. UNCHANGED view /\ req[r].pc = "select"
  BY DEF Select
<1>1. PICK t \in Rows :
        /\ t \in Tokens /\ slots[t] < Limit /\ slots' = [slots EXCEPT ![t] = @ + 1]
        /\ \A q \in Requests : q # r => req'[q] = req[q]
        /\ req'[r].pc = "lease" /\ req'[r].token = {t}
  BY SelectParts DEF IInv
<1>2. Exact(a)
  BY DEF IInv, SlotsExact, Exact
<1>3. r \notin Holders(a)
  BY <1>0 DEF Holders
<1>4. CASE t[1] # a
  <2>1. Holders(a)' = Holders(a)
    BY <1>1, <1>3, <1>4 DEF Holders
  <2>2. \A v \in Versions : slots'[<<a, v>>] = slots[<<a, v>>]
    BY <1>1, <1>4 DEF IInv, Types, SlotType, Tokens
  <2> QED
    BY <1>0, <1>2, <2>1, <2>2, ExactFrame
<1>5. CASE t[1] = a
  <2>1. t = <<a, view[a]>> /\ view[a] \in Versions
    BY <1>1, <1>5 DEF Rows, Tokens
  <2>2. Cardinality(Holders(a)) \in Nat /\ slots[t] = Cardinality(Holders(a))
    BY <1>2, <2>1, HoldersFinite DEF Exact
  <2>3. r \in Holders(a)'
    BY <1>1, <1>5 DEF Holders
  <2>4. Cardinality(Holders(a))' = Cardinality(Holders(a)) + 1
    BY <1>1, <1>3, <2>2, <2>3, HoldersMove DEF One
  <2>5. slots'[t] = Cardinality(Holders(a)) + 1
    BY <1>1, <2>2 DEF IInv, Types, SlotType
  <2>6. ASSUME NEW v \in Versions, v # view[a] PROVE slots'[<<a, v>>] = 0
    <3>1. <<a, v>> \in Tokens /\ <<a, v>> # t
      BY <2>1, <2>6 DEF Tokens
    <3>2. slots'[<<a, v>>] = slots[<<a, v>>]
      BY <1>1, <3>1 DEF IInv, Types, SlotType
    <3> QED
      BY <1>2, <2>6, <3>2 DEF Exact
  <2>7. Cardinality(Holders(a)) + 1 <= Limit
    BY <1>1, <2>2, Constants
  <2> QED
    BY <1>0, <2>1, <2>4, <2>5, <2>6, <2>7 DEF Exact
<1> QED
  BY <1>4, <1>5

LEMMA AccountExact ==
  ASSUME IInv, NEW b \in Accounts, b \notin disturbed, AccountStep(b),
         NEW a \in Accounts, a \notin disturbed'
  PROVE  Exact(a)'
<1>0. req' = req /\ disturbed \subseteq disturbed'
  BY AccountKnown DEF IInv
<1>1. Exact(a) /\ a \notin disturbed
  BY <1>0 DEF IInv, SlotsExact, Exact
<1>2. Holders(a)' = Holders(a)
  BY <1>0 DEF Holders
<1>v. \A v \in Versions : <<a, v>> \in Tokens
  BY DEF Tokens
<1> USE DEF IInv, Types
<1>3. ASSUME NEW v \in Versions, Rotate(b, v) \/ FollowRotation(b, v) PROVE Exact(a)'
  <2>1. /\ view[b] # Gone /\ v # view[b] /\ slots' = Moved(b, v)
        /\ view' = [view EXCEPT ![b] = v]
    BY <1>3 DEF Rotate, FollowRotation
  <2>2. /\ \A t \in Tokens : t[1] # b => slots'[t] = slots[t]
        /\ \A u \in Versions : slots'[<<b, u>>] = IF u = v THEN slots[<<b, view[b]>>] ELSE 0
    BY <2>1, MovedExact
  <2>3. CASE a # b
    BY <1>1, <1>2, <1>v, <2>1, <2>2, <2>3, ExactFrame DEF ViewType
  <2>4. CASE a = b
    <3>1. view'[a] = v /\ view[a] \in Versions
      BY <2>1, <2>4 DEF ViewType
    <3>2. slots[<<a, view[a]>>] = Cardinality(Holders(a))
      BY <1>1, <3>1 DEF Exact
    <3> QED
      BY <1>1, <1>2, <2>2, <2>4, <3>1, <3>2 DEF Exact
  <2> QED
    BY <2>3, <2>4
<1>4. ASSUME NEW v \in Versions, Return(b, v) PROVE Exact(a)'
  <2>1. view[b] = Gone /\ slots' = slots /\ view' = [view EXCEPT ![b] = v]
    BY <1>4 DEF Return
  <2>2. CASE a # b
    BY <1>1, <1>2, <2>1, <2>2, ExactFrame DEF ViewType
  <2>3. CASE a = b
    <3>1. Holders(a) = {}
      BY <1>1, <2>1, <2>3 DEF Holders, Known, Stands, StandsIn
    <3>2. Cardinality(Holders(a)) = 0 /\ Cardinality(Holders(a))' = 0
      BY <1>2, <3>1, FS_EmptySet
    <3>3. \A u \in Versions : slots'[<<a, u>>] = 0
      BY <1>1, <2>1, <2>3, <3>2, Constants DEF Exact
    <3>4. \A u \in Versions :
            slots'[<<a, u>>] = IF u = view'[a] THEN Cardinality(Holders(a))' ELSE 0
      BY <2>1, <3>2, <3>3
    <3>5. (Cardinality(Holders(a)) <= Limit)'
      BY <3>2, Constants
    <3> QED
      BY <3>4, <3>5 DEF Exact
  <2> QED
    BY <2>2, <2>3
\* The other steps change nothing for an account that nobody knows.
<1>5. ASSUME Delete(b) \/ FollowDeletion(b) \/ ConsoleTest(b) PROVE Exact(a)'
  <2>1. \A c \in Accounts : c # b => view'[c] = view[c]
    BY <1>5 DEF Delete, FollowDeletion, ConsoleTest, ViewType
  <2>2. \A t \in Tokens : t[1] # b => slots'[t] = slots[t]
    <3>1. CASE Delete(b)
      BY <3>1 DEF Delete, SlotType
    <3>2. CASE FollowDeletion(b)
      BY <3>2 DEF FollowDeletion
    <3>3. CASE ConsoleTest(b)
      <4>1. <<b, view[b]>> \in Tokens
        BY <3>3 DEF ConsoleTest, ViewType, Tokens
      <4>2. Resolve(<<b, view[b]>>)[1] = b
        BY WalkAccount DEF Resolve
      <4> QED
        BY <3>3, <4>1, <4>2, ReleaseType DEF ConsoleTest
    <3> QED
      BY <1>5, <3>1, <3>2, <3>3
  <2>3. CASE a # b
    BY <1>1, <1>2, <1>v, <2>1, <2>2, <2>3, ExactFrame
  <2>4. CASE a = b
    <3>1. ~InUse(a)
      BY <1>5, <2>4 DEF Delete, FollowDeletion, ConsoleTest, Disturb
    <3>2. Cardinality(Holders(a)) = 0 /\ Cardinality(Holders(a))' = 0
      BY <1>2, <3>1, UnknownUnheld
    <3>3. \A u \in Versions : slots[<<a, u>>] = 0
      BY <1>1, <3>2 DEF Exact
    <3>4. \A u \in Versions : slots'[<<a, u>>] = 0
      <4>1. CASE Delete(b)
        BY <1>v, <2>4, <3>3, <4>1 DEF Delete, SlotType
      <4>2. CASE FollowDeletion(b)
        BY <3>3, <4>2 DEF FollowDeletion
      <4>3. CASE ConsoleTest(b)
        <5>1. <<b, view[b]>> \in Tokens /\ slots' = Release(<<b, view[b]>>)
          BY <4>3 DEF ConsoleTest, ViewType, Tokens
        <5> SUFFICES ASSUME NEW u \in Versions PROVE slots'[<<a, u>>] = 0
          OBVIOUS
        <5> QED
          BY <1>v, <2>4, <3>3, <5>1, ReleaseType
      <4> QED
        BY <1>5, <4>1, <4>2, <4>3
    <3>5. \A u \in Versions :
            slots'[<<a, u>>] = IF u = view'[a] THEN Cardinality(Holders(a))' ELSE 0
      BY <3>2, <3>4
    <3>6. (Cardinality(Holders(a)) <= Limit)'
      BY <3>2, Constants
    <3> QED
      BY <3>5, <3>6 DEF Exact
  <2> QED
    BY <2>3, <2>4
<1> QED
  BY <1>3, <1>4, <1>5 DEF AccountStep

LEMMA SlotsStep == IInv /\ [Next]_vars => SlotsExact'
<1> SUFFICES ASSUME IInv, [Next]_vars PROVE SlotsExact'
  OBVIOUS
<1>e. ASSUME \A a \in Accounts : a \notin disturbed' => Exact(a)' PROVE SlotsExact'
  BY <1>e DEF SlotsExact, Exact
<1>x. \A a \in Accounts : a \notin disturbed => Exact(a)
  BY DEF IInv, SlotsExact, Exact
\* Nothing that counts changes.
<1>f. ASSUME UNCHANGED <<view, slots, disturbed>>, \A a : Holders(a)' = Holders(a)
      PROVE  SlotsExact'
  BY <1>e, <1>f, <1>x, ExactFrame
<1>1. ASSUME NEW r \in Requests, GivesBack(r) PROVE SlotsExact'
  <2>1. /\ req[r].pc \in {"lease", "run", "release"}
        /\ slots' = Release(Token(r)) /\ Still /\ Leaves(r)
    BY <1>1, GivesBackEffect DEF IInv
  <2>2. /\ \A q \in Requests : q # r => req'[q] = req[q]
        /\ req'[r].pc \notin {"lease", "run"}
    BY <2>1, LeavesParts DEF IInv
  <2> QED
    BY <1>e, <2>1, <2>2, GivesBackExact DEF Still
<1>2. ASSUME NEW r \in Requests, Reject(r) PROVE SlotsExact'
  <2>1. /\ req[r].pc = "select" /\ slots' = slots /\ Still
        /\ req'[r].pc \notin {"lease", "run"}
        /\ \A q \in Requests : q # r => req'[q] = req[q]
    BY <1>2, RejectEffect, LeavesParts DEF IInv
  <2>2. \A a : Holders(a)' = Holders(a)
    BY <2>1 DEF Holders
  <2> QED
    BY <1>f, <2>1, <2>2 DEF Still
<1>3. ASSUME NEW r \in Requests, Select(r) PROVE SlotsExact'
  BY <1>3, <1>e, SelectExact DEF Select
<1>4. ASSUME NEW r \in Requests, Lease(r) PROVE SlotsExact'
  <2>1. UNCHANGED <<view, slots, disturbed>> /\ req[r].pc = "lease"
    BY <1>4 DEF Lease
  <2>2. req[r].token = {Token(r)}
    BY <2>1, TokenOf DEF IInv
  <2>3. \A a : Holders(a)' = Holders(a)
    BY <1>4, <2>1, <2>2, LeaseParts DEF Holders, IInv
  <2> QED
    BY <1>f, <2>1, <2>3
<1>5. ASSUME NEW r \in Requests, ResultFails(r) PROVE SlotsExact'
  <2>1. /\ req[r].pc = "run" /\ slots' = Release(Token(r)) /\ UNCHANGED view
        /\ disturbed \subseteq disturbed'
    BY <1>5 DEF ResultFails
  <2>2. req'[r].pc = "release" /\ \A q \in Requests : q # r => req'[q] = req[q]
    BY <1>5, OtherParts DEF IInv
  <2> QED
    BY <1>e, <2>1, <2>2, GivesBackExact
<1>9. ASSUME NEW r \in Requests, Escapes(r) PROVE SlotsExact'
  <2>1. /\ UNCHANGED <<view, slots>> /\ disturbed' = disturbed \cup {Token(r)[1]}
        /\ req[r].token = {Token(r)}
        /\ req'[r].pc \notin {"lease", "run"} /\ \A q \in Requests : q # r => req'[q] = req[q]
    BY <1>9, EscapesEffect, LeavesParts, TokenOf DEF IInv
  <2>2. ASSUME NEW a \in Accounts, a \notin disturbed'
        PROVE  Exact(a)'
    <3>1. r \notin Holders(a) /\ r \notin Holders(a)'
      BY <2>1, <2>2 DEF Holders
    <3>2. Holders(a)' = Holders(a)
      BY <2>1, <3>1 DEF Holders
    <3> QED
      BY <1>x, <2>1, <2>2, <3>2, ExactFrame
  <2> QED
    BY <1>e, <2>2
<1>6. ASSUME NEW r \in Requests, TimeUp(r) PROVE SlotsExact'
  <2>1. \A q \in Requests : req'[q].pc = req[q].pc /\ req'[q].token = req[q].token
    BY <1>6, OtherParts DEF IInv
  <2>2. \A a : Holders(a)' = Holders(a)
    BY <2>1 DEF Holders
  <2> QED
    BY <1>6, <1>f, <2>2 DEF TimeUp
<1>7. ASSUME NEW b \in Accounts, b \notin disturbed, AccountStep(b) PROVE SlotsExact'
  BY <1>7, <1>e, AccountExact
<1>8. CASE Save \/ UNCHANGED vars
  <2>1. UNCHANGED <<view, slots, disturbed, req>>
    BY <1>8 DEF Save, vars
  <2>2. \A a : Holders(a)' = Holders(a)
    BY <2>1 DEF Holders
  <2> QED
    BY <1>f, <2>1, <2>2
<1> QED
  BY <1>1, <1>2, <1>3, <1>4, <1>5, <1>6, <1>7, <1>8, <1>9, Cases

-----------------------------------------------------------------------------
LEMMA IInvInit == Init => IInv
<1> SUFFICES ASSUME Init PROVE IInv
  OBVIOUS
<1>1. NewRequest \in Loop /\ NewRequest.token = {} /\ NewRequest.tried = {}
      /\ NewRequest.pc = "select"
  BY Constants DEF NewRequest, Loop, PC
<1>2. req = [r \in Requests |-> NewRequest]
  BY DEF Init
<1>3. Types
  <2>1. ReqType /\ Handed
    BY <1>1, <1>2 DEF ReqType, Handed
  <2>2. ViewType
    BY Constants DEF Init, ViewType
  <2>3. SlotType
    BY DEF Init, SlotType
  <2> QED
    BY <2>1, <2>2, <2>3 DEF Types
<1>4. Known /\ Repeated /\ Fresh
  BY <1>1, <1>2 DEF Known, Repeated, Fresh
<1>5. SlotsExact
  <2>1. \A a : Holders(a) = {}
    BY <1>1, <1>2 DEF Holders
  <2>2. \A a : Cardinality(Holders(a)) = 0
    BY <2>1, FS_EmptySet
  <2> QED
    BY <2>2, Constants DEF Init, SlotsExact, Tokens
<1> QED
  BY <1>3, <1>4, <1>5 DEF IInv

LEMMA IInvStep == IInv /\ [Next]_vars => IInv'
BY TypesStep, KnownStep, RepeatedStep, FreshStep, SlotsStep DEF IInv

LEMMA Invariance == Spec => []IInv
BY IInvInit, IInvStep, PTL DEF Spec

LEMMA TypesOK == Types => TypeOK
<1> SUFFICES ASSUME Types PROVE TypeOK
  OBVIOUS
<1>1. ASSUME NEW r \in Requests PROVE Cardinality(req[r].token) \in 0..1
  <2>1. req[r].token = {} \/ \E t \in Tokens : req[r].token = {t}
    BY DEF Types, Handed
  <2>2. CASE req[r].token = {}
    <3>1. Cardinality(req[r].token) = 0
      BY <2>2, FS_EmptySet
    <3> QED
      BY <3>1
  <2>3. ASSUME NEW t \in Tokens, req[r].token = {t} PROVE Cardinality(req[r].token) \in 0..1
    <3>1. Cardinality(req[r].token) = 1
      BY <2>3, FS_Singleton
    <3> QED
      BY <3>1
  <2> QED
    BY <2>1, <2>2, <2>3
<1> QED
  BY <1>1 DEF Types, ReqType, ViewType, SlotType, Loop, PC, TypeOK

\* Every variable has its type: no number of slots is negative, no request
\* has two tokens and no count of failures passes image_max_account_attempts.
THEOREM DispatchTypeTheorem == Spec => []TypeOK
<1>1. IInv => TypeOK
  BY TypesOK DEF IInv
<1> QED
  BY <1>1, Invariance, PTL

\* The slots of an account that nobody disturbed are all under its present
\* token, as many as requests hold one and never more than the limit.
THEOREM SlotsExactTheorem == Spec => []SlotsExact
<1>1. IInv => SlotsExact
  BY DEF IInv
<1> QED
  BY <1>1, Invariance, PTL

\* However often credentials are replaced and saves prune the aliases, a token
\* that a request still needs is never cut off from its account.
THEOREM TokensLeadToRowsTheorem == Spec => []TokensLeadToRows
<1>1. ASSUME IInv, NEW r \in Requests, NEW t \in req[r].token \cup req[r].tried,
             t[1] \notin disturbed
      PROVE  view[t[1]] # Gone /\ Resolve(t) = <<t[1], view[t[1]]>>
  <2>1. t \in Tokens
    BY <1>1 DEF IInv, Types, ReqType, Loop
  <2>2. StandsIn(alias, view, t)
    BY <1>1 DEF IInv, Known, Stands
  <2>3. view[t[1]] # Gone
    BY <2>2 DEF StandsIn
  <2> QED
    BY <2>1, <2>2, <2>3, WalkStands DEF Resolve
<1>2. IInv => TokensLeadToRows
  BY <1>1 DEF TokensLeadToRows
<1> QED
  BY <1>2, Invariance, PTL

\* A request is never given an account it has run on, whatever its token is
\* by then.
THEOREM NoReselectTheorem == Spec => NoReselect
<1>1. ASSUME IInv, [Next]_vars,
             NEW r \in Requests, req[r].pc = "lease", req'[r].pc = "run",
             NEW t \in req'[r].token, NEW s \in req[r].tried
      PROVE  t[1] # s[1] \/ t[1] \in disturbed
  <2> USE DEF IInv
  <2>1. Lease(r)
    <3>1. ASSUME NEW q \in Requests, GivesBack(q) \/ Reject(q) \/ Escapes(q) PROVE FALSE
      BY <1>1, <3>1, GivesBackEffect, RejectEffect, EscapesEffect, LeavesParts
    <3>2. ASSUME NEW q \in Requests, Select(q) PROVE FALSE
      BY <1>1, <3>2, SelectParts
    <3>3. ASSUME NEW q \in Requests, Lease(q), q # r PROVE FALSE
      BY <1>1, <3>3, LeaseParts
    <3>4. ASSUME NEW q \in Requests, ResultFails(q) \/ TimeUp(q) PROVE FALSE
      BY <1>1, <3>4, OtherParts
    <3>5. CASE Save \/ UNCHANGED vars \/ \E a \in Accounts : AccountStep(a)
      BY <1>1, <3>5, AccountKnown DEF Save, vars
    <3> QED
      BY <1>1, <3>1, <3>2, <3>3, <3>4, <3>5, Cases
  <2>2. req[r].token = {Token(r)}
    BY <1>1, TokenOf
  <2>3. t[1] = Token(r)[1]
    BY <1>1, <2>1, LeaseParts
  <2> QED
    BY <1>1, <2>2, <2>3 DEF Fresh
<1>2. IInv /\ [Next]_vars =>
        [\A r \in Requests : req[r].pc = "lease" /\ req'[r].pc = "run" =>
           \A t \in req'[r].token, s \in req[r].tried : t[1] # s[1] \/ t[1] \in disturbed]_vars
  BY <1>1
<1> QED
  BY <1>2, Invariance, PTL DEF Spec, NoReselect
=============================================================================
