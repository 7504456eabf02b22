------------------------- MODULE AccountIngestProofs -------------------------
(***************************************************************************)
(* Proofs about AccountIngest, for any number of workers, items, refresh   *)
(* tokens and any size of a chunk.                                         *)
(***************************************************************************)
EXTENDS AccountIngest, FiniteSetTheorems, TLAPS

FlightStates == {"new", "known", "sent", "ok", "error", "stored", "over"}
Flights == UNION {[D -> FlightStates] : D \in SUBSET RTs}
WorkerPC == {"idle", "ready", "exchange", "save", "sync", "failing", "lost"}
WorkerRec == [pc : WorkerPC, phase : Phases, start : 0..Total, end : 0..Total,
              flight : Flights]

(* TypeOK, one conjunct for each variable, with the counters of the job    *)
(* bounded by what Progress and SyncExact say they count.                  *)
JobType ==
  job \in [status : Statuses, owner : Workers \cup {None}, leased : BOOLEAN,
           saved : 0..Total, checked : 0..Total, added : Nat,
           synced : Nat, sync_failed : Nat, failures : 0..MaxFailures]
ResultType   == result \in [Items -> {"none", "ok", "error"}]
GateType     == gate \in [Items -> {"idle", "sent", "uncertain", "done"}]
AccountsType == accounts \in SUBSET Items
WorkersType  == worker \in [Workers -> WorkerRec]
HistoryType  == spent \in SUBSET RTs /\ events \in 0..MaxEvents

Types == JobType /\ ResultType /\ GateType /\ AccountsType /\ WorkersType /\ HistoryType

\* A batch in work is not empty, and is one of the worker's phase.
Batches ==
  \A w \in Workers :
    /\ worker[w].pc \in {"exchange", "save", "sync"} => worker[w].start < worker[w].end
    /\ worker[w].pc \in {"exchange", "save"} => worker[w].phase # "sync"
    /\ worker[w].pc = "sync" => worker[w].phase = "sync"

\* An exchange of a batch whose result is not stored yet.
Open == {"new", "known", "sent", "ok", "error"}

\* Every item of a batch that has no result is in flight, so that a batch is
\* saved only when all have one; and nobody but the owner stores results, so
\* what the owner has in flight has none.
Exchanges ==
  \A w \in Workers :
    /\ worker[w].pc = "exchange" =>
         \A i \in RTs : worker[w].start < i /\ i <= worker[w].end /\ result[i] = "none" =>
           i \in DOMAIN worker[w].flight /\ worker[w].flight[i] \in Open
    /\ worker[w].pc = "save" =>
         \A i \in RTs : worker[w].start < i /\ i <= worker[w].end => result[i] # "none"
    /\ worker[w].pc = "exchange" /\ job.owner = w =>
         \A i \in DOMAIN worker[w].flight :
           worker[w].flight[i] \in Open => result[i] = "none"

\* How far the job is and what its status says of it.
Progress ==
  /\ job.leased => job.owner # None
  /\ job.added <= job.saved /\ job.checked <= job.saved
  /\ job.failures = MaxFailures => job.status = "failed"
  /\ job.status \in {"sync_pending", "syncing", "completed"} => job.saved = Total
  /\ job.saved = Total =>
       job.status \in IF SyncAfter THEN {"sync_pending", "syncing", "completed", "failed"}
                      ELSE {"completed"}
  /\ ~SyncAfter => job.checked = 0
  /\ job.status = "completed" /\ SyncAfter => job.checked = Total
  /\ \A i \in RTs : i <= job.saved => result[i] # "none"

\* A refresh token that is being exchanged is gated, by one worker alone, and
\* was not answered before; one that was answered is gated for good.
Gates ==
  /\ \A w \in Workers : \A i \in RTs :
       /\ InFlight(w, i, "sent") => gate[i] = "sent" /\ i \notin spent
       /\ InFlight(w, i, "ok") \/ InFlight(w, i, "stored") => i \in spent
  /\ \A v, w \in Workers : \A i \in RTs :
       InFlight(v, i, "sent") /\ InFlight(w, i, "sent") => v = w
  /\ \A i \in spent : gate[i] # "idle"

IInv == /\ Types /\ Batches /\ Exchanges /\ Progress /\ Gates
        /\ SavedMeansStored /\ SyncExact

-----------------------------------------------------------------------------
(* Constants, names of statuses, batches and flights.                      *)

LEMMA Constants ==
  /\ Total \in Nat \ {0} /\ Items \subseteq Nat /\ RTs \subseteq Items
  /\ \A i \in Items : 1 <= i /\ i <= Total
  /\ IsFiniteSet(Items) /\ None \notin Workers
  /\ MaxFailures \in Nat \ {0} /\ MaxEvents \in Nat /\ ChunkSize \in Nat \ {0}
  /\ SyncAfter \in BOOLEAN /\ 0 \in 0..Total /\ Total \in 0..Total
BY IngestAssumption, FS_Interval DEF Items

LEMMA PhaseNames ==
  /\ Pending("save") = "queued" /\ Running("save") = "saving"
  /\ Pending("refresh") = "refresh_pending" /\ Running("refresh") = "refreshing"
  /\ Pending("sync") = "sync_pending" /\ Running("sync") = "syncing"
  /\ \A p \in Phases : /\ Pending(p) \in Statuses /\ Running(p) \in Statuses
                       /\ p # "sync" => Running(p) \in {"saving", "refreshing"}
                       /\ p # "sync" => Pending(p) \in {"queued", "refresh_pending"}
  /\ FirstPhase \in {"save", "refresh"}
  /\ Statuses = {"queued", "saving", "refresh_pending", "refreshing",
                 "sync_pending", "syncing", "completed", "failed"}
<1>1. /\ Pending("save") = "queued" /\ Running("save") = "saving"
      /\ Pending("refresh") = "refresh_pending" /\ Running("refresh") = "refreshing"
      /\ Pending("sync") = "sync_pending" /\ Running("sync") = "syncing"
  BY DEF Pending, Running
<1>2. {Pending(p) : p \in Phases} = {"queued", "refresh_pending", "sync_pending"}
  BY <1>1 DEF Phases
<1>3. {Running(p) : p \in Phases} = {"saving", "refreshing", "syncing"}
  BY <1>1 DEF Phases
<1>4. Statuses = {"queued", "saving", "refresh_pending", "refreshing",
                  "sync_pending", "syncing", "completed", "failed"}
  BY <1>2, <1>3 DEF Statuses, Ended
<1> QED
  BY <1>1, <1>4 DEF Phases, FirstPhase

LEMMA BatchEndsAfter ==
  ASSUME NEW s \in 0..Total, NEW e \in BatchEnds(s)
  PROVE  e \in 0..Total /\ s < e
<1>1. (s \div ChunkSize + 1) * ChunkSize \in Int
  BY Constants
<1>2. ChunkEnd(s) \in Int /\ ChunkEnd(s) <= Total
  BY <1>1, Constants DEF ChunkEnd
<1> QED
  BY <1>2, Constants DEF BatchEnds

LEMMA FlightIs ==
  ASSUME NEW f \in Flights
  PROVE  /\ DOMAIN f \in SUBSET RTs
         /\ \A i \in DOMAIN f : f[i] \in FlightStates
BY DEF Flights

LEMMA FlightMade ==
  ASSUME NEW D \in SUBSET RTs, NEW f \in [D -> FlightStates]
  PROVE  f \in Flights
BY DEF Flights

LEMMA AtRestType ==
  /\ AtRest \in WorkerRec
  /\ AtRest.pc = "idle" /\ AtRest.phase = "save" /\ AtRest.start = 0 /\ AtRest.end = 0
  /\ DOMAIN AtRest.flight = {} /\ AtRest.flight \in Flights
<1>1. [i \in {} |-> "new"] \in [{} -> FlightStates]
  OBVIOUS
<1>2. [i \in {} |-> "new"] \in Flights
  BY <1>1, FlightMade
<1> QED
  BY <1>2, Constants DEF AtRest, WorkerRec, WorkerPC, Phases

\* The fields of a record at rest that is put to work.
LEMMA WorkerMade ==
  ASSUME NEW p \in WorkerPC, NEW ph \in Phases
  PROVE  /\ [AtRest EXCEPT !.pc = p, !.phase = ph] \in WorkerRec
         /\ [AtRest EXCEPT !.pc = p, !.phase = ph].pc = p
         /\ [AtRest EXCEPT !.pc = p, !.phase = ph].phase = ph
         /\ DOMAIN [AtRest EXCEPT !.pc = p, !.phase = ph].flight = {}
BY AtRestType DEF WorkerRec, AtRest

LEMMA FlightKept ==
  ASSUME NEW p \in WorkerPC, NEW f \in Flights
  PROVE  /\ [AtRest EXCEPT !.pc = p, !.flight = f] \in WorkerRec
         /\ [AtRest EXCEPT !.pc = p, !.flight = f].pc = p
         /\ [AtRest EXCEPT !.pc = p, !.flight = f].flight = f
BY AtRestType DEF WorkerRec, AtRest

LEMMA GivenUpRec ==
  ASSUME WorkersType, NEW w \in Workers, NEW p \in WorkerPC
  PROVE  /\ GivenUp(w, p) \in WorkerRec /\ GivenUp(w, p).pc = p
         /\ \A i \in DOMAIN GivenUp(w, p).flight :
              /\ i \in DOMAIN worker[w].flight
              /\ GivenUp(w, p).flight[i] = worker[w].flight[i]
<1> DEFINE fl == worker[w].flight
           on == {i \in DOMAIN fl : fl[i] \in {"new", "sent"}}
           f  == [i \in on |-> fl[i]]
<1>1. fl \in Flights
  BY DEF WorkersType, WorkerRec
<1>2. DOMAIN fl \in SUBSET RTs /\ \A i \in DOMAIN fl : fl[i] \in FlightStates
  BY <1>1, FlightIs
<1>3. on \in SUBSET RTs /\ f \in [on -> FlightStates]
  BY <1>2
<1>4. f \in Flights
  BY <1>3, FlightMade
<1>5. GivenUp(w, p) = [AtRest EXCEPT !.pc = p, !.flight = f]
  BY DEF GivenUp
<1>6. DOMAIN f = on /\ (\A i \in on : i \in DOMAIN fl /\ f[i] = fl[i])
  OBVIOUS
<1> HIDE DEF f, on
<1>7. GivenUp(w, p) \in WorkerRec /\ GivenUp(w, p).pc = p /\ GivenUp(w, p).flight = f
  <2>1. /\ [AtRest EXCEPT !.pc = p, !.flight = f] \in WorkerRec
        /\ [AtRest EXCEPT !.pc = p, !.flight = f].pc = p
        /\ [AtRest EXCEPT !.pc = p, !.flight = f].flight = f
    BY <1>4, FlightKept
  <2> QED BY <1>5, <2>1
<1> QED
  BY <1>6, <1>7

-----------------------------------------------------------------------------
(* What a step does to the workers.                                        *)

Others(w) == \A v \in Workers : v # w => worker'[v] = worker[v]

LEMMA Update ==
  ASSUME WorkersType, NEW w \in Workers, NEW rec \in WorkerRec,
         worker' = [worker EXCEPT ![w] = rec]
  PROVE  WorkersType' /\ worker'[w] = rec /\ Others(w)
BY DEF WorkersType, Others

\* A worker stops to exchange and to save, and begins no exchange.
Drops(w) ==
  /\ Others(w)
  /\ worker'[w].pc \notin {"exchange", "save"}
  /\ worker'[w].pc = "sync" => worker'[w].start < worker'[w].end /\ worker'[w].phase = "sync"
  /\ \A i \in RTs : \A s \in FlightStates : InFlight(w, i, s)' => InFlight(w, i, s)

LEMMA RestDrops ==
  ASSUME WorkersType, NEW w \in Workers, NEW p \in {"idle", "ready"}, NEW ph \in Phases,
         worker' = [worker EXCEPT ![w] = [AtRest EXCEPT !.pc = p, !.phase = ph]]
  PROVE  WorkersType' /\ Drops(w)
<1> DEFINE rec == [AtRest EXCEPT !.pc = p, !.phase = ph]
<1>0. p \in WorkerPC
  BY DEF WorkerPC
<1>1. rec \in WorkerRec /\ rec.pc = p /\ DOMAIN rec.flight = {}
  BY <1>0, WorkerMade
<1> HIDE DEF rec
<1>2. WorkersType' /\ worker'[w] = rec /\ Others(w)
  BY <1>1, Update DEF rec
<1> QED
  BY <1>1, <1>2 DEF Drops, InFlight

LEMMA AtRestDrops ==
  ASSUME WorkersType, NEW w \in Workers, worker' = [worker EXCEPT ![w] = AtRest]
  PROVE  WorkersType' /\ Drops(w)
<1>1. WorkersType' /\ worker'[w] = AtRest /\ Others(w)
  BY AtRestType, Update
<1> QED
  BY <1>1, AtRestType DEF Drops, InFlight

LEMMA GivenUpDrops ==
  ASSUME WorkersType, NEW w \in Workers, NEW p \in {"lost", "failing"},
         worker' = [worker EXCEPT ![w] = GivenUp(w, p)]
  PROVE  WorkersType' /\ Drops(w)
<1>0. p \in WorkerPC
  BY DEF WorkerPC
<1>1. WorkersType' /\ worker'[w] = GivenUp(w, p) /\ Others(w)
  BY <1>0, GivenUpRec, Update
<1> QED
  BY <1>0, <1>1, GivenUpRec DEF Drops, InFlight

LEMMA LoseDrops ==
  ASSUME WorkersType, NEW w \in Workers, Lose(w)
  PROVE  WorkersType' /\ Drops(w)
BY GivenUpDrops DEF Lose

LEMMA ContinueDrops ==
  ASSUME WorkersType, NEW w \in Workers, Continue(w)
  PROVE  WorkersType' /\ Drops(w)
<1>1. worker[w].phase \in Phases
  BY DEF WorkersType, WorkerRec
<1>2. CASE worker[w].end = Total
  BY <1>2, AtRestDrops DEF Continue
<1>3. CASE worker[w].end # Total
  BY <1>1, <1>3, RestDrops DEF Continue
<1> QED
  BY <1>2, <1>3

\* An item in flight gets another state.
LEMMA Marks ==
  ASSUME WorkersType, NEW w \in Workers, NEW i \in DOMAIN worker[w].flight,
         NEW x \in FlightStates, worker' = [worker EXCEPT ![w].flight[i] = x]
  PROVE  /\ WorkersType' /\ Others(w)
         /\ worker'[w].pc = worker[w].pc /\ worker'[w].phase = worker[w].phase
         /\ worker'[w].start = worker[w].start /\ worker'[w].end = worker[w].end
         /\ DOMAIN worker'[w].flight = DOMAIN worker[w].flight
         /\ worker'[w].flight[i] = x
         /\ \A k \in DOMAIN worker[w].flight :
              k # i => worker'[w].flight[k] = worker[w].flight[k]
<1> DEFINE fl  == worker[w].flight
           new == [fl EXCEPT ![i] = x]
           rec == [worker[w] EXCEPT !.flight = new]
<1>0. worker[w] \in WorkerRec /\ fl \in Flights
  BY DEF WorkersType, WorkerRec
<1>1. DOMAIN fl \in SUBSET RTs /\ fl \in [DOMAIN fl -> FlightStates]
  BY <1>0 DEF Flights
<1>2. new \in [DOMAIN fl -> FlightStates] /\ DOMAIN new = DOMAIN fl
      /\ new[i] = x /\ \A k \in DOMAIN fl : k # i => new[k] = fl[k]
  BY <1>1
<1>3. new \in Flights
  BY <1>1, <1>2, FlightMade
<1>4. worker' = [worker EXCEPT ![w] = rec]
  OBVIOUS
<1> HIDE DEF new
<1>5. /\ rec \in WorkerRec /\ rec.flight = new
      /\ rec.pc = worker[w].pc /\ rec.phase = worker[w].phase
      /\ rec.start = worker[w].start /\ rec.end = worker[w].end
  BY <1>0, <1>3 DEF WorkerRec
<1> HIDE DEF rec
<1>6. WorkersType' /\ worker'[w] = rec /\ Others(w)
  BY <1>4, <1>5, Update
<1> QED
  BY <1>2, <1>5, <1>6

\* A batch that is read, and a result that is stored.
Loads(w) == ReadBatch(w) /\ Owned(w)
Stores(w, i) == Record(w, i) /\ AtCheckpoint(w)

LEMMA LoadsEffect ==
  ASSUME Types, NEW w \in Workers, Loads(w)
  PROVE  /\ WorkersType' /\ Others(w)
         /\ UNCHANGED <<job, result, gate, accounts, spent, events>>
         /\ worker'[w].phase = worker[w].phase /\ worker[w].phase # "sync"
         /\ worker'[w].start = job.saved /\ worker'[w].start < worker'[w].end
         /\ LET new == Unexchanged(Batch(job.saved, worker'[w].end))
            IN  /\ worker'[w].pc = IF new = {} THEN "save" ELSE "exchange"
                /\ DOMAIN worker'[w].flight = new
                /\ \A i \in new : worker'[w].flight[i] \in {"known", "new"}
<1>0. /\ job.saved \in 0..Total /\ worker[w] \in WorkerRec
      /\ UNCHANGED <<job, result, gate, accounts, spent, events>>
      /\ worker[w].phase # "sync" /\ worker[w].pc = "ready"
  BY DEF Types, JobType, WorkersType, Loads, ReadBatch
<1>1. PICK e \in BatchEnds(job.saved) :
        LET new == Unexchanged(Batch(job.saved, e))
        IN worker' = [worker EXCEPT
             ![w].pc = IF new = {} THEN "save" ELSE "exchange",
             ![w].start = job.saved, ![w].end = e,
             ![w].flight = [i \in new |-> IF i \in accounts THEN "known" ELSE "new"]]
  BY DEF Loads, ReadBatch
<1>2. e \in 0..Total /\ job.saved < e
  BY <1>0, BatchEndsAfter
<1> DEFINE new == Unexchanged(Batch(job.saved, e))
           pc0 == IF new = {} THEN "save" ELSE "exchange"
           f   == [i \in new |-> IF i \in accounts THEN "known" ELSE "new"]
           rec == [worker[w] EXCEPT !.pc = pc0, !.start = job.saved, !.end = e, !.flight = f]
<1>3. new \in SUBSET RTs
  BY DEF Unexchanged
<1>4. f \in [new -> FlightStates] /\ DOMAIN f = new /\ \A i \in new : f[i] \in {"known", "new"}
  BY DEF FlightStates
<1>5. f \in Flights /\ pc0 \in WorkerPC
  BY <1>3, <1>4, FlightMade DEF WorkerPC
<1>6. worker' = [worker EXCEPT ![w] = rec]
  BY <1>1 DEF Types, WorkersType
<1> HIDE DEF new, f, pc0
<1>7. /\ rec \in WorkerRec /\ rec.pc = pc0 /\ rec.flight = f /\ rec.phase = worker[w].phase
      /\ rec.start = job.saved /\ rec.end = e
  BY <1>0, <1>2, <1>5 DEF WorkerRec
<1> HIDE DEF rec
<1>8. WorkersType' /\ worker'[w] = rec /\ Others(w)
  BY <1>6, <1>7, Update DEF Types
<1> QED
  BY <1>0, <1>2, <1>4, <1>7, <1>8 DEF new, pc0

LEMMA ExchangedEffect ==
  ASSUME Types, NEW w \in Workers, Exchanged(w)
  PROVE  /\ WorkersType' /\ Others(w)
         /\ worker[w].pc = "exchange" /\ worker'[w].pc = "save"
         /\ worker'[w].phase = worker[w].phase
         /\ worker'[w].start = worker[w].start /\ worker'[w].end = worker[w].end
         /\ DOMAIN worker'[w].flight = {}
         /\ UNCHANGED <<job, result, gate, accounts, spent, events>>
<1> DEFINE rec == [worker[w] EXCEPT !.pc = "save", !.flight = AtRest.flight]
<1>1. worker' = [worker EXCEPT ![w] = rec] /\ worker[w] \in WorkerRec
  BY DEF Exchanged, Types, WorkersType
<1>2. /\ rec \in WorkerRec /\ rec.pc = "save" /\ DOMAIN rec.flight = {}
      /\ rec.phase = worker[w].phase
      /\ rec.start = worker[w].start /\ rec.end = worker[w].end
  BY <1>1, AtRestType DEF WorkerRec, WorkerPC
<1> HIDE DEF rec
<1>3. WorkersType' /\ worker'[w] = rec /\ Others(w)
  BY <1>1, <1>2, Update DEF Types
<1> QED
  BY <1>2, <1>3 DEF Exchanged

LEMMA SyncReadDrops ==
  ASSUME Types, NEW w \in Workers, SyncRead(w)
  PROVE  WorkersType' /\ Drops(w)
<1>1. PICK e \in BatchEnds(job.checked) :
        worker' = [worker EXCEPT ![w].pc = "sync", ![w].start = job.checked, ![w].end = e]
  BY DEF SyncRead
<1>2. e \in 0..Total /\ job.checked < e /\ job.checked \in 0..Total
  BY BatchEndsAfter DEF Types, JobType
<1> DEFINE rec == [worker[w] EXCEPT !.pc = "sync", !.start = job.checked, !.end = e]
<1>3. worker' = [worker EXCEPT ![w] = rec] /\ worker[w] \in WorkerRec
  BY <1>1 DEF Types, WorkersType
<1>4. /\ rec \in WorkerRec /\ rec.pc = "sync" /\ rec.flight = worker[w].flight
      /\ rec.phase = worker[w].phase /\ rec.start = job.checked /\ rec.end = e
  BY <1>2, <1>3 DEF WorkerRec, WorkerPC
<1> HIDE DEF rec
<1>5. WorkersType' /\ worker'[w] = rec /\ Others(w)
  BY <1>3, <1>4, Update DEF Types
<1> QED
  BY <1>2, <1>4, <1>5 DEF Drops, InFlight, SyncRead

\* An exchange that goes on: what changes of it, and that nothing else does.
LEMMA FlightEffect ==
  ASSUME Types, NEW w \in Workers, NEW i \in RTs,
         Begin(w, i) \/ Answer(w, i) \/ Stores(w, i) \/ Finish(w, i)
  PROVE  /\ WorkersType' /\ Others(w) /\ i \in DOMAIN worker[w].flight
         /\ worker'[w].pc = worker[w].pc /\ worker'[w].phase = worker[w].phase
         /\ worker'[w].start = worker[w].start /\ worker'[w].end = worker[w].end
         /\ DOMAIN worker'[w].flight = DOMAIN worker[w].flight
         /\ \A k \in DOMAIN worker[w].flight :
              k # i => worker'[w].flight[k] = worker[w].flight[k]
         /\ Begin(w, i) => \/ worker'[w].flight[i] = "error"
                           \/ gate[i] = "idle" /\ worker'[w].flight[i] = "sent"
         /\ Answer(w, i) => worker'[w].flight[i] \in {"ok", "error"}
         /\ Stores(w, i) =>
              worker'[w].flight[i] = IF InFlight(w, i, "ok") THEN "stored" ELSE "over"
         /\ Finish(w, i) => worker'[w].flight[i] = "over"
<1> USE DEF Types
<1>0. i \in DOMAIN worker[w].flight
  BY DEF Begin, Answer, Stores, Record, Finish, InFlight
<1>1. ASSUME Begin(w, i)
      PROVE  \E x \in {"sent", "error"} :
               /\ worker' = [worker EXCEPT ![w].flight[i] = x]
               /\ x = "sent" => gate[i] = "idle"
  BY <1>1 DEF Begin
<1>2. ASSUME Answer(w, i)
      PROVE  \E x \in {"ok", "error"} : worker' = [worker EXCEPT ![w].flight[i] = x]
  BY <1>2 DEF Answer
<1>3. ASSUME Stores(w, i), NEW x \in FlightStates,
             x = IF InFlight(w, i, "ok") THEN "stored" ELSE "over"
      PROVE  worker' = [worker EXCEPT ![w].flight[i] = x]
  BY <1>3 DEF Stores, Record
<1>4. ASSUME Finish(w, i) PROVE worker' = [worker EXCEPT ![w].flight[i] = "over"]
  BY <1>4 DEF Finish
<1>m. ASSUME NEW x \in FlightStates, worker' = [worker EXCEPT ![w].flight[i] = x]
      PROVE  /\ WorkersType' /\ Others(w)
             /\ worker'[w].pc = worker[w].pc /\ worker'[w].phase = worker[w].phase
             /\ worker'[w].start = worker[w].start /\ worker'[w].end = worker[w].end
             /\ DOMAIN worker'[w].flight = DOMAIN worker[w].flight
             /\ worker'[w].flight[i] = x
             /\ \A k \in DOMAIN worker[w].flight :
                  k # i => worker'[w].flight[k] = worker[w].flight[k]
  BY <1>0, <1>m, Marks
\* The four steps need different states of the item, so no two are the same.
<1>5. /\ Begin(w, i) => InFlight(w, i, "new") /\ worker[w].pc \in {"exchange", "failing", "lost"}
      /\ Answer(w, i) => InFlight(w, i, "sent")
      /\ Stores(w, i) => \E s \in {"ok", "error", "known"} : InFlight(w, i, s)
      /\ Finish(w, i) => InFlight(w, i, "stored")
  BY DEF Begin, Answer, Stores, Record, Finish
<1>6. CASE Begin(w, i)
  <2>1. PICK x \in {"sent", "error"} :
          /\ worker' = [worker EXCEPT ![w].flight[i] = x]
          /\ x = "sent" => gate[i] = "idle"
    BY <1>1, <1>6
  <2>2. ~Answer(w, i) /\ ~Stores(w, i) /\ ~Finish(w, i)
    BY <1>5, <1>6 DEF InFlight
  <2>3. x \in FlightStates /\ (x = "error" \/ (gate[i] = "idle" /\ x = "sent"))
    BY <2>1 DEF FlightStates
  <2>4. worker' = [worker EXCEPT ![w].flight[i] = x]
    BY <2>1
  <2> QED
    BY <1>0, <1>m, <2>2, <2>3, <2>4
<1>7. CASE Answer(w, i)
  <2>1. PICK x \in {"ok", "error"} : worker' = [worker EXCEPT ![w].flight[i] = x]
    BY <1>2, <1>7
  <2>2. ~Begin(w, i) /\ ~Stores(w, i) /\ ~Finish(w, i)
    BY <1>5, <1>7 DEF InFlight
  <2> QED
    BY <1>0, <1>m, <2>1, <2>2 DEF FlightStates
<1>8. CASE Stores(w, i)
  <2>1. PICK x \in FlightStates : x = IF InFlight(w, i, "ok") THEN "stored" ELSE "over"
    BY DEF FlightStates
  <2>2. worker' = [worker EXCEPT ![w].flight[i] = x]
    BY <1>3, <1>8, <2>1
  <2>3. ~Begin(w, i) /\ ~Answer(w, i) /\ ~Finish(w, i)
    BY <1>5, <1>8 DEF InFlight
  <2> QED
    BY <1>0, <1>m, <2>1, <2>2, <2>3
<1>9. CASE Finish(w, i)
  <2>1. worker' = [worker EXCEPT ![w].flight[i] = "over"]
    BY <1>4, <1>9
  <2>2. ~Begin(w, i) /\ ~Answer(w, i) /\ ~Stores(w, i)
    BY <1>5, <1>9 DEF InFlight
  <2> QED
    BY <1>0, <1>m, <2>1, <2>2 DEF FlightStates
<1> QED
  BY <1>6, <1>7, <1>8, <1>9

Saves(w) == SaveBatch(w) /\ AtCheckpoint(w)
Syncs(w) == SyncBatch(w) /\ MayCheckpoint(w)

\* Every step is one of these.
LEMMA NextCases ==
  ASSUME [Next]_vars
  PROVE  \/ \E w \in Workers :
              \/ Claim(w) \/ ReadBatch(w) \/ Exchanged(w) \/ SaveBatch(w) \/ SyncRead(w)
              \/ SyncBatch(w) \/ Leave(w) \/ Fail(w)
              \/ Break(w) \/ FailFails(w) \/ Crash(w)
         \/ \E w \in Workers : \E i \in RTs :
              Begin(w, i) \/ Answer(w, i) \/ Record(w, i) \/ Finish(w, i)
         \/ LeaseRunsOut \/ Retry
         \/ \E i \in Items : OtherImport(i)
         \/ UNCHANGED vars
BY DEF Next, Step, Fault

LEMMA WorkerEffect ==
  ASSUME Types, [Next]_vars
  PROVE  /\ WorkersType'
         /\ \/ worker' = worker /\ UNCHANGED <<result, gate, spent>>
            \/ \E w \in Workers : /\ Drops(w) /\ UNCHANGED <<result, gate>>
                                  /\ spent' = spent \/ Crash(w)
            \/ \E w \in Workers : Loads(w) \/ Exchanged(w)
            \/ \E w \in Workers : \E i \in RTs :
                 Begin(w, i) \/ Answer(w, i) \/ Stores(w, i) \/ Finish(w, i)
<1> DEFINE Dropped(w) == /\ WorkersType' /\ Drops(w) /\ UNCHANGED <<result, gate>>
                         /\ spent' = spent \/ Crash(w)
<1>0. WorkersType
  BY DEF Types
<1>1. ASSUME NEW w \in Workers, Claim(w) PROVE Dropped(w)
  <2>1. PICK p \in Phases :
          worker' = [worker EXCEPT ![w] = [AtRest EXCEPT !.pc = "ready", !.phase = p]]
    BY <1>1 DEF Claim
  <2> QED
    BY <1>0, <1>1, <2>1, RestDrops DEF Claim
<1>2. ASSUME NEW w \in Workers, ReadBatch(w) PROVE Dropped(w) \/ Loads(w)
  <2>1. Lose(w) \/ Loads(w)
    BY <1>2 DEF ReadBatch, Loads
  <2> QED
    BY <1>0, <1>2, <2>1, LoseDrops DEF ReadBatch
<1>3. ASSUME NEW w \in Workers, SaveBatch(w) PROVE Dropped(w)
  <2>1. \/ Lose(w) \/ Continue(w)
        \/ worker' = [worker EXCEPT ![w] = GivenUp(w, "failing")]
    BY <1>3 DEF SaveBatch
  <2> QED
    BY <1>0, <1>3, <2>1, LoseDrops, ContinueDrops, GivenUpDrops DEF SaveBatch
<1>4. ASSUME NEW w \in Workers, SyncRead(w) PROVE Dropped(w)
  BY <1>4, SyncReadDrops DEF SyncRead
<1>5. ASSUME NEW w \in Workers, SyncBatch(w) PROVE Dropped(w)
  <2>1. Lose(w) \/ Continue(w)
    BY <1>5 DEF SyncBatch
  <2> QED
    BY <1>0, <1>5, <2>1, LoseDrops, ContinueDrops DEF SyncBatch
<1>6. ASSUME NEW w \in Workers, Leave(w) \/ Fail(w) \/ FailFails(w) PROVE Dropped(w)
  <2>1. worker' = [worker EXCEPT ![w] = AtRest] /\ UNCHANGED <<result, gate, spent>>
    BY <1>6 DEF Leave, Fail, FailFails
  <2> QED
    BY <1>0, <2>1, AtRestDrops
<1>7. ASSUME NEW w \in Workers, Break(w) PROVE Dropped(w)
  BY <1>0, <1>7, GivenUpDrops DEF Break
<1>8. ASSUME NEW w \in Workers, Crash(w) PROVE Dropped(w)
  BY <1>0, <1>8, AtRestDrops DEF Crash
<1>9. ASSUME NEW w \in Workers, NEW i \in RTs, Record(w, i)
      PROVE  Dropped(w) \/ Stores(w, i)
  <2>1. \/ Stores(w, i)
        \/ Lose(w) /\ UNCHANGED <<result, gate, spent>>
    BY <1>9 DEF Record, Stores
  <2> QED
    BY <1>0, <2>1, LoseDrops
<1>10. ASSUME LeaseRunsOut \/ Retry \/ (\E i \in Items : OtherImport(i)) \/ UNCHANGED vars
       PROVE  worker' = worker /\ UNCHANGED <<result, gate, spent>>
  BY <1>10 DEF LeaseRunsOut, Retry, OtherImport, vars
<1>11. ASSUME worker' = worker PROVE WorkersType'
  BY <1>0, <1>11 DEF WorkersType
<1>12. ASSUME NEW w \in Workers, Loads(w) \/ Exchanged(w) PROVE WorkersType'
  BY <1>12, LoadsEffect, ExchangedEffect
<1>13. ASSUME NEW w \in Workers, NEW i \in RTs,
              Begin(w, i) \/ Answer(w, i) \/ Stores(w, i) \/ Finish(w, i)
       PROVE  WorkersType'
  BY <1>13, FlightEffect
<1> HIDE DEF Dropped
<1>14. \/ \E w \in Workers : Dropped(w) \/ Loads(w) \/ Exchanged(w)
       \/ \E w \in Workers : \E i \in RTs :
            Begin(w, i) \/ Answer(w, i) \/ Stores(w, i) \/ Finish(w, i)
       \/ worker' = worker /\ UNCHANGED <<result, gate, spent>>
  BY <1>1, <1>2, <1>3, <1>4, <1>5, <1>6, <1>7, <1>8, <1>9, <1>10, NextCases
<1> QED
  BY <1>11, <1>12, <1>13, <1>14 DEF Dropped

LEMMA JobEffect ==
  ASSUME [Next]_vars
  PROVE  /\ accounts \subseteq accounts'
         /\ \/ UNCHANGED job
            \/ \E w \in Workers : Claim(w) \/ Saves(w) \/ Syncs(w) \/ Fail(w)
            \/ LeaseRunsOut \/ Retry
<1>1. ASSUME NEW w \in Workers,
             Claim(w) \/ ReadBatch(w) \/ Exchanged(w) \/ SyncRead(w) \/ Leave(w) \/ Fail(w)
      PROVE  UNCHANGED accounts /\ (UNCHANGED job \/ Claim(w) \/ Fail(w))
  BY <1>1 DEF Claim, ReadBatch, Exchanged, SyncRead, Leave, Fail
<1>2. ASSUME NEW w \in Workers, Break(w) \/ FailFails(w) \/ Crash(w)
      PROVE  UNCHANGED <<accounts, job>>
  BY <1>2 DEF Break, FailFails, Crash
<1>3. ASSUME NEW w \in Workers, SaveBatch(w)
      PROVE  accounts \subseteq accounts' /\ (UNCHANGED job \/ Saves(w))
  BY <1>3 DEF SaveBatch, Saves
<1>4. ASSUME NEW w \in Workers, SyncBatch(w)
      PROVE  UNCHANGED accounts /\ (UNCHANGED job \/ Syncs(w))
  BY <1>4 DEF SyncBatch, Syncs
<1>5. ASSUME NEW w \in Workers, NEW i \in RTs,
             Begin(w, i) \/ Answer(w, i) \/ Record(w, i) \/ Finish(w, i)
      PROVE  UNCHANGED <<accounts, job>>
  BY <1>5 DEF Begin, Answer, Record, Finish
<1>6. LeaseRunsOut \/ Retry => UNCHANGED accounts
  BY DEF LeaseRunsOut, Retry
<1>7. ASSUME NEW i \in Items, OtherImport(i) PROVE accounts \subseteq accounts' /\ UNCHANGED job
  BY <1>7 DEF OtherImport
<1>8. UNCHANGED vars => UNCHANGED <<accounts, job>>
  BY DEF vars
<1> QED
  BY <1>1, <1>2, <1>3, <1>4, <1>5, <1>6, <1>7, <1>8, NextCases

-----------------------------------------------------------------------------
(* What a step does to the row of the job.                                 *)

LEMMA BatchSets ==
  ASSUME NEW s \in 0..Total, NEW e \in 0..Total, s <= e
  PROVE  /\ IsFiniteSet(Batch(s, e)) /\ Batch(s, e) \subseteq Items
         /\ Cardinality(Batch(s, e)) = e - s
         /\ IsFiniteSet(Usable(Batch(s, e)))
         /\ Cardinality(Usable(Batch(s, e))) \in 0..(e - s)
<1>1. Batch(s, e) = (s + 1)..e
  BY Constants DEF Batch, Items
<1>2. IsFiniteSet(Batch(s, e)) /\ Cardinality(Batch(s, e)) = e - s
  <2>1. PICK a \in Int, b \in Int : a = s + 1 /\ b = e
    BY Constants
  <2>2. IsFiniteSet(a..b) /\ Cardinality(a..b) = IF a > b THEN 0 ELSE b - a + 1
    BY FS_Interval
  <2>3. (IF a > b THEN 0 ELSE b - a + 1) = e - s
    BY <2>1, Constants
  <2> QED
    BY <1>1, <2>1, <2>2, <2>3
<1>3. Usable(Batch(s, e)) \in SUBSET Batch(s, e) /\ Batch(s, e) \subseteq Items
  BY DEF Usable, Batch
<1>4. /\ IsFiniteSet(Usable(Batch(s, e)))
      /\ Cardinality(Usable(Batch(s, e))) <= Cardinality(Batch(s, e))
  BY <1>2, <1>3, FS_Subset
<1>5. Cardinality(Usable(Batch(s, e))) \in Nat
  BY <1>4, FS_CardinalityType
<1> QED
  BY <1>2, <1>3, <1>4, <1>5

LEMMA ClaimEffect ==
  ASSUME Types, NEW w \in Workers, Claim(w)
  PROVE  \E p \in Phases :
           /\ JobType' /\ job.status \in {Pending(p), Running(p)}
           /\ job'.status = Running(p) /\ job'.owner = w /\ job'.leased
           /\ job'.saved = job.saved /\ job'.checked = job.checked
           /\ job'.added = job.added /\ job'.failures = job.failures
           /\ job'.synced = job.synced /\ job'.sync_failed = job.sync_failed
           /\ worker'[w].pc = "ready"
<1>1. PICK p \in Phases :
        /\ Eligible(p)
        /\ job' = [job EXCEPT !.owner = w, !.leased = TRUE, !.status = Running(p)]
        /\ worker' = [worker EXCEPT ![w] = [AtRest EXCEPT !.pc = "ready", !.phase = p]]
  BY DEF Claim
<1>2. worker'[w].pc = "ready"
  <2>1. worker'[w] = [AtRest EXCEPT !.pc = "ready", !.phase = p]
    BY <1>1 DEF Types, WorkersType
  <2>2. [AtRest EXCEPT !.pc = "ready", !.phase = p].pc = "ready"
    BY DEF AtRest
  <2> QED
    BY <2>1, <2>2
<1>3. Running(p) \in Statuses
  BY PhaseNames
<1> QED
  BY <1>1, <1>2, <1>3 DEF Types, JobType, Eligible

LEMMA SavesEffect ==
  ASSUME Types, Batches, NEW w \in Workers, Saves(w)
  PROVE  LET end == worker[w].end
             new == Usable(Batch(job.saved, end)) \ accounts
         IN  /\ JobType' /\ accounts' = accounts \cup new /\ accounts' \in SUBSET Items
             /\ worker[w].pc = "save" /\ worker[w].start = job.saved
             /\ job.saved < end /\ end \in 0..Total
             /\ job.owner = w /\ job.status \in {"saving", "refreshing"}
             /\ job'.saved = end /\ job'.checked = job.checked
             /\ job'.added = job.added + Cardinality(new)
             /\ Cardinality(new) \in 0..(end - job.saved)
             /\ job'.synced = job.synced /\ job'.sync_failed = job.sync_failed
             /\ job'.failures = 0
             /\ end < Total => /\ job'.status = job.status
                               /\ job'.owner = job.owner /\ job'.leased = job.leased
             /\ end = Total => /\ job'.status = IF SyncAfter THEN "sync_pending" ELSE "completed"
                               /\ job'.owner = None /\ ~job'.leased
<1> DEFINE end == worker[w].end
           new == Usable(Batch(job.saved, end)) \ accounts
<1>0. /\ job \in [status : Statuses, owner : Workers \cup {None}, leased : BOOLEAN,
                  saved : 0..Total, checked : 0..Total, added : Nat,
                  synced : Nat, sync_failed : Nat, failures : 0..MaxFailures]
      /\ end \in 0..Total
  BY DEF Types, JobType, WorkersType, WorkerRec
<1>1. /\ worker[w].pc = "save" /\ worker[w].start = job.saved
      /\ job.owner = w /\ job.leased /\ job.status = Running(worker[w].phase)
  BY DEF Saves, SaveBatch, AtCheckpoint, Owned
<1>2. worker[w].phase # "sync" /\ job.saved < end /\ worker[w].phase \in Phases
  BY <1>1 DEF Batches, Types, WorkersType, WorkerRec
<1>3. job.status \in {"saving", "refreshing"}
  BY <1>1, <1>2, PhaseNames
<1>4. accounts' = accounts \cup new /\ job' = Saved(job, end, new)
  BY <1>1 DEF Saves, SaveBatch
<1>5. /\ IsFiniteSet(Usable(Batch(job.saved, end)))
      /\ Cardinality(Usable(Batch(job.saved, end))) \in 0..(end - job.saved)
      /\ Batch(job.saved, end) \subseteq Items
  BY <1>0, <1>2, BatchSets
<1>6. new \in SUBSET Usable(Batch(job.saved, end))
  OBVIOUS
<1>7. Cardinality(new) \in 0..(end - job.saved)
  <2>1. IsFiniteSet(new) /\ Cardinality(new) <= Cardinality(Usable(Batch(job.saved, end)))
    BY <1>5, <1>6, FS_Subset
  <2>2. Cardinality(new) \in Nat
    BY <2>1, FS_CardinalityType
  <2> QED
    BY <1>0, <1>5, <2>1, <2>2
<1>8. accounts' \in SUBSET Items
  BY <1>4, <1>5 DEF Types, AccountsType, Usable
<1>9. PICK n \in Nat : n = Cardinality(new) /\ n \in 0..(end - job.saved)
  BY <1>7, Constants
<1>10. job' = LET row == [job EXCEPT !.saved = end, !.added = job.added + n, !.failures = 0]
              IN IF end < Total THEN row
                 ELSE [row EXCEPT !.status = IF SyncAfter THEN "sync_pending" ELSE "completed",
                                  !.owner = None, !.leased = FALSE]
  BY <1>4, <1>9 DEF Saved
<1>11. /\ (IF SyncAfter THEN "sync_pending" ELSE "completed") \in Statuses
       /\ 0 \in 0..MaxFailures /\ end \in 0..Total /\ job.added + n \in Nat
  BY <1>0, <1>9, PhaseNames, Constants
<1>a. /\ worker[w].pc = "save" /\ worker[w].start = job.saved
      /\ job.saved < end /\ job.owner = w /\ job.status \in {"saving", "refreshing"}
      /\ Cardinality(new) \in 0..(end - job.saved)
      /\ accounts' = accounts \cup new /\ accounts' \in SUBSET Items
  BY <1>1, <1>2, <1>3, <1>4, <1>7, <1>8
<1> HIDE DEF end, new
<1>12. CASE end < Total
  <2>1. job' = [job EXCEPT !.saved = end, !.added = job.added + n, !.failures = 0]
    BY <1>10, <1>12
  <2>2. JobType'
    BY <1>0, <1>9, <1>11, <2>1 DEF JobType
  <2>3. /\ job'.saved = end /\ job'.added = job.added + n
        /\ job'.checked = job.checked /\ job'.failures = 0
        /\ job'.synced = job.synced /\ job'.sync_failed = job.sync_failed
    BY <1>0, <2>1
  <2>4. job'.status = job.status /\ job'.owner = job.owner /\ job'.leased = job.leased
    BY <1>0, <2>1
  <2> QED
    BY <1>9, <1>11, <1>a, <1>12, <2>2, <2>3, <2>4, Constants DEF end, new
<1>13. CASE ~(end < Total)
  <2>1. job' = [job EXCEPT !.saved = end, !.added = job.added + n, !.failures = 0,
                           !.status = IF SyncAfter THEN "sync_pending" ELSE "completed",
                           !.owner = None, !.leased = FALSE]
    BY <1>0, <1>10, <1>13
  <2>2. JobType'
    BY <1>0, <1>9, <1>11, <2>1 DEF JobType
  <2>3. /\ job'.saved = end /\ job'.added = job.added + n
        /\ job'.checked = job.checked /\ job'.failures = 0
        /\ job'.synced = job.synced /\ job'.sync_failed = job.sync_failed
    BY <1>0, <2>1
  <2>4. /\ job'.status = IF SyncAfter THEN "sync_pending" ELSE "completed"
        /\ job'.owner = None /\ ~job'.leased
    BY <1>0, <2>1
  <2> QED
    BY <1>9, <1>11, <1>a, <1>13, <2>2, <2>3, <2>4, Constants DEF end, new
<1> QED
  BY <1>12, <1>13

LEMMA SyncsEffect ==
  ASSUME Types, Batches, NEW w \in Workers, Syncs(w)
  PROVE  LET end    == worker[w].end
             tokens == Cardinality(Usable(Batch(job.checked, end)))
         IN  /\ JobType' /\ job.checked < end /\ end \in 0..Total
             /\ worker[w].pc = "sync" /\ worker[w].start = job.checked
             /\ job.owner = w /\ job.status = "syncing"
             /\ job'.checked = end /\ job'.saved = job.saved
             /\ job'.synced + job'.sync_failed = job.synced + job.sync_failed + tokens
             /\ job'.added = job.added /\ job'.failures = 0
             /\ end < Total => /\ job'.status = job.status
                               /\ job'.owner = job.owner /\ job'.leased = job.leased
             /\ end = Total => job'.status = "completed" /\ job'.owner = None /\ ~job'.leased
<1> DEFINE end    == worker[w].end
           tokens == Cardinality(Usable(Batch(worker[w].start, end)))
<1>0. /\ job \in [status : Statuses, owner : Workers \cup {None}, leased : BOOLEAN,
                  saved : 0..Total, checked : 0..Total, added : Nat,
                  synced : Nat, sync_failed : Nat, failures : 0..MaxFailures]
      /\ end \in 0..Total
  BY DEF Types, JobType, WorkersType, WorkerRec
<1>1. /\ worker[w].pc = "sync" /\ worker[w].start = job.checked
      /\ job.owner = w /\ job.leased /\ job.status = Running(worker[w].phase)
  BY DEF Syncs, SyncBatch, MayCheckpoint, Owned
<1>2. worker[w].phase = "sync" /\ job.checked < end
  BY <1>1 DEF Batches
<1>3. job.status = "syncing"
  BY <1>1, <1>2, PhaseNames
<1>c. job.checked \in 0..Total /\ tokens = Cardinality(Usable(Batch(job.checked, end)))
  BY <1>0, <1>1
<1>4. tokens \in Nat
  <2>1. tokens \in 0..(end - job.checked)
    BY <1>0, <1>2, <1>c, BatchSets, Constants
  <2> QED
    BY <1>0, <1>2, <1>c, <2>1
<1>5. PICK n \in 0..tokens :
        LET row == [job EXCEPT !.checked = end, !.synced = job.synced + n,
                               !.sync_failed = job.sync_failed + tokens - n, !.failures = 0]
        IN job' = IF end < Total THEN row
                  ELSE [row EXCEPT !.status = "completed", !.owner = None, !.leased = FALSE]
  BY <1>1 DEF Syncs, SyncBatch
<1> HIDE DEF end, tokens
<1>6. PICK m \in Nat : m = job.sync_failed + tokens - n
  BY <1>0, <1>4
<1>7. "completed" \in Statuses /\ 0 \in 0..MaxFailures /\ job.synced + n \in Nat
  BY <1>0, <1>4, PhaseNames, Constants
<1>8. job.synced + n + m = job.synced + job.sync_failed + tokens
  BY <1>0, <1>4, <1>6
<1>9. CASE end < Total
  <2>1. job' = [job EXCEPT !.checked = end, !.synced = job.synced + n, !.sync_failed = m,
                           !.failures = 0]
    BY <1>5, <1>6, <1>9
  <2>2. JobType'
    BY <1>0, <1>7, <2>1 DEF JobType
  <2>3. /\ job'.synced = job.synced + n /\ job'.sync_failed = m
        /\ job'.checked = end /\ job'.saved = job.saved
        /\ job'.added = job.added /\ job'.failures = 0
    BY <1>0, <2>1
  <2>4. job'.status = job.status /\ job'.owner = job.owner /\ job'.leased = job.leased
    BY <1>0, <2>1
  <2> QED
    BY <1>0, <1>1, <1>2, <1>3, <1>8, <1>9, <1>c, <2>2, <2>3, <2>4, Constants DEF end
<1>10. CASE ~(end < Total)
  <2>1. job' = [job EXCEPT !.checked = end, !.synced = job.synced + n, !.sync_failed = m,
                           !.failures = 0, !.status = "completed", !.owner = None,
                           !.leased = FALSE]
    BY <1>0, <1>5, <1>6, <1>10
  <2>2. JobType'
    BY <1>0, <1>7, <2>1 DEF JobType
  <2>3. /\ job'.synced = job.synced + n /\ job'.sync_failed = m
        /\ job'.checked = end /\ job'.saved = job.saved
        /\ job'.added = job.added /\ job'.failures = 0
    BY <1>0, <2>1
  <2>4. job'.status = "completed" /\ job'.owner = None /\ ~job'.leased
    BY <1>0, <2>1
  <2> QED
    BY <1>0, <1>1, <1>2, <1>3, <1>8, <1>10, <1>c, <2>2, <2>3, <2>4, Constants DEF end
<1> QED
  BY <1>9, <1>10

LEMMA FailEffect ==
  ASSUME Types, Progress, (\E w \in Workers : Fail(w)) \/ Retry \/ LeaseRunsOut
  PROVE  /\ JobType'
         /\ job'.saved = job.saved /\ job'.checked = job.checked /\ job'.added = job.added
         /\ job'.synced = job.synced /\ job'.sync_failed = job.sync_failed
         /\ job'.owner \in {job.owner, None}
         /\ \/ /\ job'.status = job.status /\ job'.failures = job.failures
               /\ job'.leased => job.leased /\ job'.owner = job.owner
            \/ /\ job.status \in {"saving", "refreshing", "syncing", "failed"}
               /\ job'.status \in {Resume(job), "failed"} /\ ~job'.leased
               /\ job'.failures = MaxFailures => job'.status = "failed"
<1>0. /\ job \in [status : Statuses, owner : Workers \cup {None}, leased : BOOLEAN,
                  saved : 0..Total, checked : 0..Total, added : Nat,
                  synced : Nat, sync_failed : Nat, failures : 0..MaxFailures]
      /\ job.failures = MaxFailures => job.status = "failed"
      /\ Resume(job) \in Statuses /\ "failed" \in Statuses
  BY PhaseNames, Constants DEF Types, JobType, Progress, Resume, Phases
<1>1. CASE \E w \in Workers : Fail(w)
  <2> PICK w \in Workers : Fail(w)
    BY <1>1
  <2>1. CASE job.owner = w /\ job.status \in {Running(p) : p \in Phases}
    <3>1. job' = [job EXCEPT !.failures = job.failures + 1,
                             !.status = IF job.failures + 1 < MaxFailures THEN Resume(job)
                                        ELSE "failed",
                             !.owner = None, !.leased = FALSE]
      BY <2>1 DEF Fail
    <3>2. job.status \in {"saving", "refreshing", "syncing"}
      BY <2>1, PhaseNames DEF Phases
    <3>3. job.failures + 1 \in 0..MaxFailures /\ job.failures + 1 \in Nat
      BY <1>0, <3>2, Constants
    <3>4. JobType'
      BY <1>0, <3>1, <3>3 DEF JobType
    <3> QED
      BY <1>0, <3>1, <3>2, <3>3, <3>4, Constants
  <2>2. CASE ~(job.owner = w /\ job.status \in {Running(p) : p \in Phases})
    BY <2>2 DEF Fail, Types, JobType
  <2> QED
    BY <2>1, <2>2
<1>2. CASE Retry
  <2>1. /\ job' = [job EXCEPT !.status = Resume(job), !.owner = None, !.leased = FALSE,
                              !.failures = 0]
        /\ job.status = "failed"
    BY <1>2 DEF Retry
  <2>2. 0 \in 0..MaxFailures /\ 0 # MaxFailures
    BY Constants
  <2>3. JobType'
    BY <1>0, <2>1, <2>2 DEF JobType
  <2> QED
    BY <1>0, <2>1, <2>2, <2>3
<1>3. CASE LeaseRunsOut
  BY <1>0, <1>3 DEF LeaseRunsOut, JobType
<1> QED
  BY <1>1, <1>2, <1>3

-----------------------------------------------------------------------------
(* The types of the variables, one variable at a time.                     *)

LEMMA JobStep ==
  ASSUME IInv, [Next]_vars
  PROVE  JobType'
<1>1. Types /\ Batches /\ Progress
  BY DEF IInv
<1>2. ASSUME UNCHANGED job PROVE JobType'
  BY <1>1, <1>2 DEF Types, JobType
<1>3. ASSUME NEW w \in Workers, Claim(w) PROVE JobType'
  BY <1>1, <1>3, ClaimEffect
<1>4. ASSUME NEW w \in Workers, Saves(w) PROVE JobType'
  BY <1>1, <1>4, SavesEffect
<1>5. ASSUME NEW w \in Workers, Syncs(w) PROVE JobType'
  BY <1>1, <1>5, SyncsEffect
<1>6. ASSUME (\E w \in Workers : Fail(w)) \/ LeaseRunsOut \/ Retry PROVE JobType'
  BY <1>1, <1>6, FailEffect
<1> QED
  BY <1>2, <1>3, <1>4, <1>5, <1>6, JobEffect

\* Results are stored by Record alone, and the gates moved by the exchanges.
LEMMA StoresEffect ==
  ASSUME Types, NEW w \in Workers, NEW i \in RTs, Stores(w, i)
  PROVE  /\ ResultType' /\ result'[i] \in {"ok", "error"}
         /\ \A k \in Items : k # i => result'[k] = result[k]
         /\ i \in DOMAIN worker[w].flight /\ worker[w].flight[i] \in {"ok", "error", "known"}
         /\ worker[w].pc = "exchange" /\ job.owner = w
         /\ UNCHANGED <<job, gate, accounts, spent, events>>
<1>1. /\ result' = [result EXCEPT ![i] = IF InFlight(w, i, "error") THEN "error" ELSE "ok"]
      /\ worker[w].pc = "exchange" /\ job.owner = w
      /\ \E s \in {"ok", "error", "known"} : InFlight(w, i, s)
      /\ UNCHANGED <<job, gate, accounts, spent, events>>
  BY DEF Stores, Record, AtCheckpoint, Owned
<1>2. PICK x \in {"ok", "error"} : result' = [result EXCEPT ![i] = x]
  BY <1>1
<1>3. i \in Items
  BY Constants
<1>4. ResultType' /\ result'[i] = x /\ \A k \in Items : k # i => result'[k] = result[k]
  BY <1>2, <1>3 DEF Types, ResultType
<1> QED
  BY <1>1, <1>4 DEF InFlight

LEMMA ResultEffect ==
  ASSUME Types, [Next]_vars
  PROVE  /\ ResultType'
         /\ \/ UNCHANGED result
            \/ \E w \in Workers : \E i \in RTs : Stores(w, i)
<1>1. \/ UNCHANGED result
      \/ \E w \in Workers : \E i \in RTs : Stores(w, i)
  <2>1. ASSUME NEW w \in Workers, Loads(w) \/ Exchanged(w) PROVE UNCHANGED result
    BY <2>1, LoadsEffect, ExchangedEffect
  <2>2. ASSUME NEW w \in Workers, NEW i \in RTs, Begin(w, i) \/ Answer(w, i) \/ Finish(w, i)
        PROVE  UNCHANGED result
    BY <2>2 DEF Begin, Answer, Finish
  <2> QED
    BY <2>1, <2>2, WorkerEffect
<1>2. UNCHANGED result => ResultType'
  BY DEF Types, ResultType
<1> QED
  BY <1>1, <1>2, StoresEffect

\* What is stored stays.
LEMMA ResultsKept ==
  ASSUME IInv, [Next]_vars
  PROVE  \A i \in Items : result[i] # "none" => result'[i] = result[i]
<1>1. Types /\ Exchanges
  BY DEF IInv
<1>2. ASSUME NEW w \in Workers, NEW i \in RTs, Stores(w, i) PROVE result[i] = "none"
  BY <1>1, <1>2, StoresEffect DEF Exchanges, Open
<1>3. ASSUME NEW w \in Workers, NEW i \in RTs, Stores(w, i)
      PROVE  \A k \in Items : result[k] # "none" => result'[k] = result[k]
  BY <1>1, <1>2, <1>3, StoresEffect
<1>4. UNCHANGED result => \A k \in Items : result'[k] = result[k]
  OBVIOUS
<1> QED
  BY <1>1, <1>3, <1>4, ResultEffect

LEMMA GateEffect ==
  ASSUME Types, NEW w \in Workers, NEW i \in RTs, Begin(w, i) \/ Answer(w, i) \/ Finish(w, i)
  PROVE  /\ GateType' /\ spent' \in SUBSET RTs /\ spent \subseteq spent'
         /\ spent' \subseteq spent \cup {i}
         /\ \A k \in Items : k # i => gate'[k] = gate[k]
         /\ Begin(w, i) => /\ spent' = spent
                           /\ gate'[i] = gate[i] \/ (gate[i] = "idle" /\ gate'[i] = "sent")
                           /\ worker'[w].flight[i] = "sent" => gate'[i] = "sent"
         /\ Answer(w, i) => /\ gate'[i] = "idle" => gate[i] = "idle" \/ spent' = spent
                            /\ worker'[w].flight[i] = "ok" => i \in spent'
                            /\ gate'[i] = "sent" => gate[i] = "sent"
         /\ Finish(w, i) => spent' = spent /\ gate'[i] = "done"
<1>0. i \in Items /\ i \in DOMAIN worker[w].flight
  BY Constants DEF Begin, Answer, Finish, InFlight
<1>1. ASSUME NEW x \in {"idle", "sent", "uncertain", "done"}, gate' = [gate EXCEPT ![i] = x]
      PROVE  GateType' /\ gate'[i] = x /\ \A k \in Items : k # i => gate'[k] = gate[k]
  BY <1>0, <1>1 DEF Types, GateType
<1>2. ASSUME gate' = gate PROVE GateType'
  BY <1>2 DEF Types, GateType
<1>3. spent \in SUBSET RTs
  BY DEF Types, HistoryType
<1>4. /\ Begin(w, i) => InFlight(w, i, "new")
      /\ Answer(w, i) => InFlight(w, i, "sent")
      /\ Finish(w, i) => InFlight(w, i, "stored")
  BY DEF Begin, Answer, Finish
<1>5. CASE Begin(w, i)
  <2>1. ~Answer(w, i) /\ ~Finish(w, i)
    BY <1>4, <1>5 DEF InFlight
  <2>2. spent' = spent
    BY <1>5 DEF Begin
  <2>3. CASE gate[i] = "idle" /\ gate' = [gate EXCEPT ![i] = "sent"]
    BY <1>1, <1>3, <1>5, <2>1, <2>2, <2>3
  <2>4. CASE worker' = [worker EXCEPT ![w].flight[i] = "error"] /\ gate' = gate
    <3>1. worker'[w].flight[i] = "error"
      BY <1>0, <2>4 DEF Types, WorkersType, WorkerRec, Flights
    <3> QED
      BY <1>2, <1>3, <1>5, <2>1, <2>2, <2>4, <3>1
  <2> QED
    BY <1>5, <2>3, <2>4 DEF Begin
<1>6. CASE Answer(w, i)
  <2>1. ~Begin(w, i) /\ ~Finish(w, i)
    BY <1>4, <1>6 DEF InFlight
  <2>2. PICK answer \in {"tokens", "rejected", "ambiguous"} :
          /\ worker' = [worker EXCEPT ![w].flight[i] = IF answer = "tokens" THEN "ok" ELSE "error"]
          /\ gate' = IF answer = "tokens" THEN gate ELSE [gate EXCEPT ![i] = AfterError(answer)]
          /\ spent' = IF answer = "rejected" THEN spent ELSE spent \cup {i}
    BY <1>6 DEF Answer
  <2>3. worker'[w].flight[i] = IF answer = "tokens" THEN "ok" ELSE "error"
    BY <1>0, <2>2 DEF Types, WorkersType, WorkerRec, Flights
  <2>4. CASE answer = "tokens"
    BY <1>2, <1>3, <1>6, <2>1, <2>2, <2>3, <2>4
  <2>5. CASE answer = "rejected"
    BY <1>1, <1>3, <1>6, <2>1, <2>2, <2>3, <2>5 DEF AfterError
  <2>6. CASE answer = "ambiguous"
    BY <1>1, <1>3, <1>6, <2>1, <2>2, <2>3, <2>6 DEF AfterError
  <2> QED
    BY <2>4, <2>5, <2>6
<1>7. CASE Finish(w, i)
  <2>1. ~Begin(w, i) /\ ~Answer(w, i)
    BY <1>4, <1>7 DEF InFlight
  <2>2. spent' = spent /\ gate' = [gate EXCEPT ![i] = "done"]
    BY <1>7 DEF Finish
  <2> QED
    BY <1>1, <1>3, <2>1, <2>2
<1> QED
  BY <1>5, <1>6, <1>7

LEMMA AccountsStep ==
  ASSUME IInv, [Next]_vars
  PROVE  AccountsType'
<1>1. Types /\ Batches
  BY DEF IInv
<1>2. accounts \in SUBSET Items
  BY <1>1 DEF Types, AccountsType
<1>3. ASSUME NEW w \in Workers, Saves(w) PROVE accounts' \in SUBSET Items
  BY <1>1, <1>3, SavesEffect
<1>4. ASSUME NEW w \in Workers, SaveBatch(w), ~Saves(w) PROVE accounts' = accounts
  BY <1>4 DEF SaveBatch, Saves
<1>5. ASSUME NEW w \in Workers,
             \/ Claim(w) \/ ReadBatch(w) \/ Exchanged(w) \/ SyncRead(w)
             \/ SyncBatch(w) \/ Leave(w) \/ Fail(w)
             \/ Break(w) \/ FailFails(w) \/ Crash(w)
      PROVE  accounts' = accounts
  BY <1>5 DEF Claim, ReadBatch, Exchanged, SyncRead, SyncBatch, Leave, Fail, Break,
              FailFails, Crash
<1>6. ASSUME NEW w \in Workers, NEW i \in RTs,
             Begin(w, i) \/ Answer(w, i) \/ Record(w, i) \/ Finish(w, i)
      PROVE  accounts' = accounts
  BY <1>6 DEF Begin, Answer, Record, Finish
<1>7. LeaseRunsOut \/ Retry \/ UNCHANGED vars => accounts' = accounts
  BY DEF LeaseRunsOut, Retry, vars
<1>8. ASSUME NEW i \in Items, OtherImport(i) PROVE accounts' \in SUBSET Items
  BY <1>2, <1>8 DEF OtherImport
<1>9. accounts' = accounts \/ accounts' \in SUBSET Items
  BY <1>3, <1>4, <1>5, <1>6, <1>7, <1>8, NextCases
<1> QED
  BY <1>2, <1>9 DEF AccountsType

LEMMA HistoryStep ==
  ASSUME IInv, [Next]_vars
  PROVE  HistoryType'
<1>1. Types
  BY DEF IInv
<1>2. spent \in SUBSET RTs /\ events \in 0..MaxEvents
  BY <1>1 DEF Types, HistoryType
<1>3. spent' \in SUBSET RTs
  <2>1. ASSUME NEW w \in Workers, Crash(w) PROVE spent' \in SUBSET RTs
    BY <1>2, <2>1 DEF Crash
  <2>2. ASSUME NEW w \in Workers, Loads(w) \/ Exchanged(w) PROVE spent' \in SUBSET RTs
    BY <1>1, <1>2, <2>2, LoadsEffect, ExchangedEffect
  <2>3. ASSUME NEW w \in Workers, NEW i \in RTs, Begin(w, i) \/ Answer(w, i) \/ Finish(w, i)
        PROVE  spent' \in SUBSET RTs
    BY <1>1, <2>3, GateEffect
  <2>4. ASSUME NEW w \in Workers, NEW i \in RTs, Stores(w, i) PROVE spent' \in SUBSET RTs
    BY <1>1, <1>2, <2>4, StoresEffect
  <2>5. spent' = spent => spent' \in SUBSET RTs
    BY <1>2
  <2> QED
    BY <1>1, <2>1, <2>2, <2>3, <2>4, <2>5, WorkerEffect
<1>4. events' = events \/ Event
  <2>1. ASSUME NEW w \in Workers,
               \/ Claim(w) \/ ReadBatch(w) \/ Exchanged(w) \/ SyncRead(w)
               \/ SyncBatch(w) \/ Leave(w) \/ Fail(w)
               \/ Break(w) \/ FailFails(w) \/ Crash(w)
        PROVE  events' = events \/ Event
    BY <2>1 DEF Claim, ReadBatch, Exchanged, SyncRead, SyncBatch, Leave, Fail, Break,
                FailFails, Crash
  <2>2. ASSUME NEW w \in Workers, SaveBatch(w) PROVE events' = events \/ Event
    BY <2>2 DEF SaveBatch
  <2>3. ASSUME NEW w \in Workers, NEW i \in RTs,
               Begin(w, i) \/ Answer(w, i) \/ Record(w, i) \/ Finish(w, i)
        PROVE  events' = events
    BY <2>3 DEF Begin, Answer, Record, Finish
  <2>4. LeaseRunsOut \/ Retry \/ UNCHANGED vars => events' = events \/ Event
    BY DEF LeaseRunsOut, Retry, vars
  <2>5. ASSUME NEW i \in Items, OtherImport(i) PROVE Event
    BY <2>5 DEF OtherImport
  <2> QED
    BY <2>1, <2>2, <2>3, <2>4, <2>5, NextCases
<1>5. events' \in 0..MaxEvents
  BY <1>2, <1>4, Constants DEF Event
<1> QED
  BY <1>3, <1>5 DEF HistoryType

LEMMA GateTypeStep ==
  ASSUME IInv, [Next]_vars
  PROVE  GateType'
<1>1. Types
  BY DEF IInv
<1>2. UNCHANGED gate => GateType'
  BY <1>1 DEF Types, GateType
<1>3. ASSUME NEW w \in Workers, Loads(w) \/ Exchanged(w) PROVE UNCHANGED gate
  BY <1>1, <1>3, LoadsEffect, ExchangedEffect
<1>4. ASSUME NEW w \in Workers, NEW i \in RTs, Begin(w, i) \/ Answer(w, i) \/ Finish(w, i)
      PROVE  GateType'
  BY <1>1, <1>4, GateEffect
<1>5. ASSUME NEW w \in Workers, NEW i \in RTs, Stores(w, i) PROVE UNCHANGED gate
  BY <1>1, <1>5, StoresEffect
<1> QED
  BY <1>1, <1>2, <1>3, <1>4, <1>5, WorkerEffect

LEMMA TypesStep ==
  ASSUME IInv, [Next]_vars
  PROVE  Types'
<1>1. Types
  BY DEF IInv
<1>2. ResultType'
  BY <1>1, ResultEffect
<1>3. WorkersType'
  BY <1>1, WorkerEffect
<1> QED
  BY <1>2, <1>3, JobStep, GateTypeStep, AccountsStep, HistoryStep DEF Types

-----------------------------------------------------------------------------
(* A batch in work is not empty.                                           *)

LEMMA BatchesStep ==
  ASSUME IInv, [Next]_vars
  PROVE  Batches'
<1>1. Types /\ Batches
  BY DEF IInv
<1> DEFINE Good(v) ==
      /\ worker[v].pc \in {"exchange", "save", "sync"} => worker[v].start < worker[v].end
      /\ worker[v].pc \in {"exchange", "save"} => worker[v].phase # "sync"
      /\ worker[v].pc = "sync" => worker[v].phase = "sync"
<1>2. ASSUME NEW w \in Workers, Others(w), Good(w)' PROVE Batches'
  BY <1>1, <1>2 DEF Batches, Others
<1>3. ASSUME NEW w \in Workers, Drops(w) PROVE Others(w) /\ Good(w)'
  BY <1>3 DEF Drops
<1>4. ASSUME NEW w \in Workers, Loads(w) PROVE Others(w) /\ Good(w)'
  <2>1. worker'[w].pc \in {"save", "exchange"}
    BY <1>1, <1>4, LoadsEffect
  <2> QED
    BY <1>1, <1>4, <2>1, LoadsEffect
<1>5. ASSUME NEW w \in Workers, Exchanged(w) PROVE Others(w) /\ Good(w)'
  BY <1>1, <1>5, ExchangedEffect DEF Batches
<1>6. ASSUME NEW w \in Workers, NEW i \in RTs,
             Begin(w, i) \/ Answer(w, i) \/ Stores(w, i) \/ Finish(w, i)
      PROVE  Others(w) /\ Good(w)'
  BY <1>1, <1>6, FlightEffect DEF Batches
<1>7. worker' = worker => Batches'
  BY <1>1 DEF Batches
<1> HIDE DEF Good
<1> QED
  BY <1>1, <1>2, <1>3, <1>4, <1>5, <1>6, <1>7, WorkerEffect

-----------------------------------------------------------------------------
(* The gates of the tokens in flight.                                      *)

LEMMA GatesStep ==
  ASSUME IInv, [Next]_vars
  PROVE  Gates'
<1>1. Types /\ Gates
  BY DEF IInv
<1>2. ASSUME UNCHANGED <<gate, spent>>,
             \A v \in Workers : \A i \in RTs : \A s \in {"sent", "ok", "stored"} :
               InFlight(v, i, s)' => InFlight(v, i, s)
      PROVE  Gates'
  BY <1>1, <1>2 DEF Gates
<1>3. ASSUME NEW w \in Workers, Drops(w)
      PROVE  \A v \in Workers : \A i \in RTs : \A s \in {"sent", "ok", "stored"} :
               InFlight(v, i, s)' => InFlight(v, i, s)
  BY <1>3 DEF Drops, Others, FlightStates, InFlight
<1>4. ASSUME NEW w \in Workers, Drops(w), Crash(w), UNCHANGED gate PROVE Gates'
  <2>1. /\ worker'[w] = AtRest
        /\ spent' = spent \cup {i \in RTs : InFlight(w, i, "sent")}
    BY <1>1, <1>4 DEF Crash, Types, WorkersType
  <2>2. \A i \in RTs : \A s \in {"sent", "ok", "stored"} : ~InFlight(w, i, s)'
    BY <2>1, AtRestType DEF InFlight
  <2> QED
    BY <1>1, <1>3, <1>4, <2>1, <2>2 DEF Gates
<1>5. ASSUME NEW w \in Workers, Loads(w) PROVE Gates'
  <2>1. UNCHANGED <<gate, spent>> /\ Others(w)
        /\ \A i \in DOMAIN worker'[w].flight : worker'[w].flight[i] \in {"known", "new"}
    BY <1>1, <1>5, LoadsEffect
  <2> QED
    BY <1>2, <2>1 DEF Others, InFlight
<1>6. ASSUME NEW w \in Workers, Exchanged(w) PROVE Gates'
  <2>1. UNCHANGED <<gate, spent>> /\ Others(w) /\ DOMAIN worker'[w].flight = {}
    BY <1>1, <1>6, ExchangedEffect
  <2> QED
    BY <1>2, <2>1 DEF Others, InFlight
<1>7. ASSUME NEW w \in Workers, NEW i \in RTs,
             Begin(w, i) \/ Answer(w, i) \/ Stores(w, i) \/ Finish(w, i)
      PROVE  \A v \in Workers : \A k \in RTs : \A s \in FlightStates :
               v # w \/ k # i => InFlight(v, k, s)' = InFlight(v, k, s)
  BY <1>1, <1>7, FlightEffect DEF Others, InFlight
<1>8. ASSUME NEW w \in Workers, NEW i \in RTs, Begin(w, i) PROVE Gates'
  <2>1. \/ worker'[w].flight[i] = "error"
        \/ gate[i] = "idle" /\ worker'[w].flight[i] = "sent"
    BY <1>1, <1>8, FlightEffect
  <2>2. /\ spent' = spent
        /\ gate'[i] = gate[i] \/ (gate[i] = "idle" /\ gate'[i] = "sent")
        /\ worker'[w].flight[i] = "sent" => gate'[i] = "sent"
        /\ \A k \in Items : k # i => gate'[k] = gate[k]
    BY <1>1, <1>8, GateEffect
  <2>3. \A v \in Workers : InFlight(v, i, "sent") => gate[i] = "sent"
    BY <1>1 DEF Gates
  <2>4. \A k \in RTs : k \in Items
    BY Constants
  <2>5. spent \in SUBSET RTs
    BY <1>1 DEF Types, HistoryType
  <2>6. \A s \in {"ok", "stored"} : ~InFlight(w, i, s)'
    BY <2>1 DEF InFlight
  <2>7. \A v \in Workers, k \in RTs, s \in {"sent", "ok", "stored"} :
          v # w \/ k # i => InFlight(v, k, s)' = InFlight(v, k, s)
    BY <1>7, <1>8 DEF FlightStates
  <2>8. \A v \in Workers : InFlight(v, i, "sent")' =>
          /\ gate'[i] = "sent" /\ i \notin spent
          /\ \A u \in Workers : InFlight(u, i, "sent")' => u = v
    <3>1. CASE gate[i] = "idle" /\ worker'[w].flight[i] = "sent"
      BY <1>1, <2>2, <2>3, <2>7, <3>1 DEF Gates
    <3>2. CASE worker'[w].flight[i] = "error"
      <4>1. ~InFlight(w, i, "sent")'
        BY <3>2 DEF InFlight
      <4> QED
        BY <1>1, <2>2, <2>3, <2>7, <4>1 DEF Gates
    <3> QED
      BY <2>1, <3>1, <3>2
  <2>9. \A v \in Workers, k \in RTs :
          /\ InFlight(v, k, "sent")' => gate'[k] = "sent" /\ k \notin spent'
          /\ InFlight(v, k, "ok")' \/ InFlight(v, k, "stored")' => k \in spent'
    <3> SUFFICES ASSUME NEW v \in Workers, NEW k \in RTs
                 PROVE  /\ InFlight(v, k, "sent")' => gate'[k] = "sent" /\ k \notin spent'
                        /\ InFlight(v, k, "ok")' \/ InFlight(v, k, "stored")' => k \in spent'
      OBVIOUS
    <3>0. spent' = spent
      BY <2>2
    <3>1. /\ InFlight(v, k, "sent") => gate[k] = "sent" /\ k \notin spent
          /\ InFlight(v, k, "ok") \/ InFlight(v, k, "stored") => k \in spent
      BY <1>1 DEF Gates
    <3>2. CASE k = i
      <4>1. InFlight(v, k, "ok")' \/ InFlight(v, k, "stored")' => k \in spent
        <5>1. CASE v = w
          BY <2>6, <3>2, <5>1
        <5>2. CASE v # w
          BY <2>7, <3>1, <5>2
        <5> QED
          BY <5>1, <5>2
      <4> QED
        BY <2>8, <3>0, <3>2, <4>1
    <3>3. CASE k # i
      <4>1. gate'[k] = gate[k]
        BY <2>2, <2>4, <3>3
      <4>2. \A s \in {"sent", "ok", "stored"} : InFlight(v, k, s)' = InFlight(v, k, s)
        BY <2>7, <3>3
      <4> QED
        BY <3>0, <3>1, <4>1, <4>2
    <3> QED
      BY <3>2, <3>3
  <2>10. \A u, v \in Workers, k \in RTs :
           InFlight(u, k, "sent")' /\ InFlight(v, k, "sent")' => u = v
    BY <1>1, <2>7, <2>8 DEF Gates
  <2>11. \A k \in spent' : gate'[k] # "idle"
    <3>1. \A k \in spent : k \in RTs /\ gate[k] # "idle"
      BY <1>1, <2>5 DEF Gates
    <3>2. \A k \in RTs : gate'[k] = gate[k] \/ gate'[k] = "sent"
      BY <2>2, <2>4
    <3> QED
      BY <2>2, <3>1, <3>2
  <2> QED
    BY <2>9, <2>10, <2>11 DEF Gates
<1>9. ASSUME NEW w \in Workers, NEW i \in RTs, Answer(w, i) PROVE Gates'
  <2>1. InFlight(w, i, "sent")
    BY <1>9 DEF Answer
  <2>2. gate[i] = "sent" /\ i \notin spent /\ \A v \in Workers : InFlight(v, i, "sent") => v = w
    BY <1>1, <2>1 DEF Gates
  <2>3. worker'[w].flight[i] \in {"ok", "error"}
    BY <1>1, <1>9, FlightEffect
  <2>4. ~InFlight(w, i, "sent")' /\ ~InFlight(w, i, "stored")'
    BY <2>3 DEF InFlight
  <2>5. /\ gate'[i] = "idle" => spent' = spent
        /\ InFlight(w, i, "ok")' => i \in spent'
        /\ spent \subseteq spent' /\ spent' \subseteq spent \cup {i} /\ spent' \in SUBSET RTs
        /\ \A k \in Items : k # i => gate'[k] = gate[k]
    BY <1>1, <1>9, <2>2, GateEffect DEF InFlight
  <2>6. \A k \in RTs : k \in Items
    BY Constants
  <2> QED
    BY <1>1, <1>7, <1>9, <2>2, <2>4, <2>5, <2>6 DEF Gates, FlightStates
<1>10. ASSUME NEW w \in Workers, NEW i \in RTs, Stores(w, i) PROVE Gates'
  <2>1. worker'[w].flight[i] = IF InFlight(w, i, "ok") THEN "stored" ELSE "over"
    BY <1>1, <1>10, FlightEffect
  <2>2. UNCHANGED <<gate, spent>>
    BY <1>1, <1>10, StoresEffect
  <2>3. /\ ~InFlight(w, i, "sent")' /\ ~InFlight(w, i, "ok")'
        /\ InFlight(w, i, "stored")' => InFlight(w, i, "ok")
    BY <2>1 DEF InFlight
  <2> QED
    BY <1>1, <1>7, <1>10, <2>2, <2>3 DEF Gates, FlightStates
<1>11. ASSUME NEW w \in Workers, NEW i \in RTs, Finish(w, i) PROVE Gates'
  <2>1. InFlight(w, i, "stored") /\ worker'[w].flight[i] = "over"
    BY <1>1, <1>11, FlightEffect DEF Finish
  <2>2. i \in spent
    BY <1>1, <2>1 DEF Gates
  <2>3. \A s \in {"sent", "ok", "stored"} : ~InFlight(w, i, s)'
    BY <2>1 DEF InFlight
  <2>4. spent' = spent /\ gate'[i] = "done" /\ \A k \in Items : k # i => gate'[k] = gate[k]
    BY <1>1, <1>11, GateEffect
  <2>5. \A k \in RTs : k \in Items
    BY Constants
  <2>6. spent \in SUBSET RTs
    BY <1>1 DEF Types, HistoryType
  <2>7. \A v \in Workers : ~InFlight(v, i, "sent")
    BY <1>1, <2>2 DEF Gates
  <2> QED
    BY <1>1, <1>7, <1>11, <2>2, <2>3, <2>4, <2>5, <2>6, <2>7 DEF Gates, FlightStates
<1>12. ASSUME worker' = worker, UNCHANGED <<gate, spent>> PROVE Gates'
  BY <1>2, <1>12 DEF InFlight
<1>13. ASSUME NEW w \in Workers, Drops(w), UNCHANGED <<gate, spent>> PROVE Gates'
  BY <1>2, <1>3, <1>13
<1> QED
  BY <1>1, <1>4, <1>5, <1>6, <1>8, <1>9, <1>10, <1>11, <1>12, <1>13, WorkerEffect

-----------------------------------------------------------------------------
(* The results of the exchanges.                                           *)

\* Nobody becomes the owner in the middle of a batch.
LEMMA OwnerEffect ==
  ASSUME IInv, [Next]_vars, NEW v \in Workers, job'.owner = v, worker'[v].pc # "ready"
  PROVE  job.owner = v
<1>1. Types /\ Batches /\ Progress
  BY DEF IInv
<1>2. v # None
  BY Constants
<1>3. ASSUME NEW w \in Workers, Claim(w) PROVE job'.owner = w /\ worker'[w].pc = "ready"
  BY <1>1, <1>3, ClaimEffect
<1>4. ASSUME NEW w \in Workers, Saves(w) PROVE job'.owner \in {job.owner, None}
  <2>1. worker[w].end < Total \/ worker[w].end = Total
    BY <1>1, Constants DEF Types, WorkersType, WorkerRec
  <2> QED
    BY <1>1, <1>4, <2>1, SavesEffect
<1>5. ASSUME NEW w \in Workers, Syncs(w) PROVE job'.owner \in {job.owner, None}
  <2>1. worker[w].end < Total \/ worker[w].end = Total
    BY <1>1, Constants DEF Types, WorkersType, WorkerRec
  <2> QED
    BY <1>1, <1>5, <2>1, SyncsEffect
<1>6. ASSUME (\E w \in Workers : Fail(w)) \/ LeaseRunsOut \/ Retry
      PROVE  job'.owner \in {job.owner, None}
  BY <1>1, <1>6, FailEffect
<1> QED
  BY <1>2, <1>3, <1>4, <1>5, <1>6, JobEffect

LEMMA ExchangesStep ==
  ASSUME IInv, [Next]_vars
  PROVE  Exchanges'
<1>1. Types /\ Exchanges
  BY DEF IInv
<1> DEFINE InBatch(v, i) == worker[v].start < i /\ i <= worker[v].end
           Ok(v) ==
             /\ worker[v].pc = "exchange" =>
                  \A i \in RTs : worker[v].start < i /\ i <= worker[v].end /\ result[i] = "none" =>
                    i \in DOMAIN worker[v].flight /\ worker[v].flight[i] \in Open
             /\ worker[v].pc = "save" =>
                  \A i \in RTs : worker[v].start < i /\ i <= worker[v].end => result[i] # "none"
             /\ worker[v].pc = "exchange" /\ job.owner = v =>
                  \A i \in DOMAIN worker[v].flight :
                    worker[v].flight[i] \in Open => result[i] = "none"
<1>2. \A v \in Workers : Ok(v)
  BY <1>1 DEF Exchanges
<1>3. ASSUME \A v \in Workers : Ok(v)' PROVE Exchanges'
  BY <1>3 DEF Exchanges
<1>4. \A v \in Workers : job'.owner = v /\ worker'[v].pc = "exchange" => job.owner = v
  BY OwnerEffect
\* A worker that does nothing while no result is stored.
<1>5. ASSUME NEW v \in Workers, worker'[v] = worker[v], UNCHANGED result PROVE Ok(v)'
  BY <1>2, <1>4, <1>5
<1>6. ASSUME NEW w \in Workers, Others(w), UNCHANGED result, Ok(w)' PROVE \A v \in Workers : Ok(v)'
  BY <1>5, <1>6 DEF Others
<1>7. ASSUME NEW w \in Workers, Drops(w) PROVE Ok(w)' /\ Others(w)
  BY <1>7 DEF Drops
<1>8. ASSUME NEW w \in Workers, Loads(w) PROVE Ok(w)' /\ Others(w) /\ UNCHANGED result
  <2> DEFINE new == Unexchanged(Batch(job.saved, worker'[w].end))
  <2>1. /\ Others(w) /\ UNCHANGED result /\ worker'[w].start = job.saved
        /\ worker'[w].pc = IF new = {} THEN "save" ELSE "exchange"
        /\ DOMAIN worker'[w].flight = new
        /\ \A i \in new : worker'[w].flight[i] \in {"known", "new"}
    BY <1>1, <1>8, LoadsEffect
  <2>2. \A i \in RTs : worker'[w].start < i /\ i <= worker'[w].end /\ result[i] = "none" => i \in new
    BY <2>1, Constants DEF Unexchanged, Batch
  <2>3. \A i \in new : result[i] = "none"
    BY DEF Unexchanged
  <2> HIDE DEF new
  <2> QED
    BY <2>1, <2>2, <2>3 DEF Open
<1>9. ASSUME NEW w \in Workers, Exchanged(w) PROVE Ok(w)' /\ Others(w) /\ UNCHANGED result
  <2>1. /\ Others(w) /\ UNCHANGED result /\ worker[w].pc = "exchange" /\ worker'[w].pc = "save"
        /\ worker'[w].start = worker[w].start /\ worker'[w].end = worker[w].end
    BY <1>1, <1>9, ExchangedEffect
  <2>2. \A i \in DOMAIN worker[w].flight : worker[w].flight[i] \notin Open
    BY <1>9 DEF Exchanged, Open
  <2> QED
    BY <1>2, <2>1, <2>2
<1>10. ASSUME NEW w \in Workers, NEW i \in RTs, Begin(w, i) \/ Answer(w, i) \/ Finish(w, i)
       PROVE  Ok(w)' /\ Others(w) /\ UNCHANGED result
  <2>1. /\ Others(w) /\ worker'[w].pc = worker[w].pc
        /\ worker'[w].start = worker[w].start /\ worker'[w].end = worker[w].end
        /\ DOMAIN worker'[w].flight = DOMAIN worker[w].flight
        /\ \A k \in DOMAIN worker[w].flight : k # i => worker'[w].flight[k] = worker[w].flight[k]
    BY <1>1, <1>10, FlightEffect
  <2>2. worker'[w].flight[i] \in Open => worker[w].flight[i] \in Open
    <3>1. Begin(w, i) \/ Answer(w, i) => worker[w].flight[i] \in {"new", "sent"}
      BY DEF Begin, Answer, InFlight
    <3>2. Finish(w, i) => worker'[w].flight[i] = "over"
      BY <1>1, FlightEffect
    <3> QED
      BY <1>10, <3>1, <3>2 DEF Open
  <2>3. worker[w].flight[i] \in Open => worker'[w].flight[i] \in Open
    <3>1. Begin(w, i) \/ Answer(w, i) => worker'[w].flight[i] \in {"sent", "ok", "error"}
      BY <1>1, FlightEffect
    <3>2. Finish(w, i) => worker[w].flight[i] = "stored"
      BY DEF Finish, InFlight
    <3> QED
      BY <1>10, <3>1, <3>2 DEF Open
  <2>4. UNCHANGED result
    BY <1>10 DEF Begin, Answer, Finish
  <2>5. worker'[w].pc = "exchange" /\ job'.owner = w => job.owner = w
    BY <1>4
  <2>6. \A k \in DOMAIN worker[w].flight :
          worker'[w].flight[k] \in Open <=> worker[w].flight[k] \in Open
    BY <2>1, <2>2, <2>3
  <2> QED
    BY <1>2, <2>1, <2>4, <2>5, <2>6
<1>11. ASSUME NEW w \in Workers, NEW i \in RTs, Stores(w, i) PROVE \A v \in Workers : Ok(v)'
  <2>1. /\ result'[i] \in {"ok", "error"} /\ \A k \in Items : k # i => result'[k] = result[k]
        /\ worker[w].pc = "exchange" /\ job.owner = w /\ UNCHANGED job
    BY <1>1, <1>11, StoresEffect
  <2>2. /\ Others(w) /\ worker'[w].pc = worker[w].pc
        /\ worker'[w].start = worker[w].start /\ worker'[w].end = worker[w].end
        /\ DOMAIN worker'[w].flight = DOMAIN worker[w].flight
        /\ \A k \in DOMAIN worker[w].flight : k # i => worker'[w].flight[k] = worker[w].flight[k]
        /\ worker'[w].flight[i] = IF InFlight(w, i, "ok") THEN "stored" ELSE "over"
    BY <1>1, <1>11, FlightEffect
  <2>3. worker'[w].flight[i] \notin Open
    BY <2>2 DEF Open
  <2>4. \A k \in RTs : k \in Items
    BY Constants
  <2>5. DOMAIN worker[w].flight \in SUBSET RTs
    BY <1>1, FlightIs DEF Types, WorkersType, WorkerRec
  <2>6. Ok(w)'
    BY <1>2, <2>1, <2>2, <2>3, <2>4, <2>5
  <2>7. ASSUME NEW v \in Workers, v # w PROVE Ok(v)'
    <3>1. worker'[v] = worker[v] /\ job'.owner # v
      BY <2>1, <2>2, <2>7 DEF Others
    <3>2. \A k \in RTs : result'[k] = "none" => result[k] = "none"
      BY <2>1, <2>4
    <3> QED
      BY <1>2, <3>1, <3>2
  <2> QED
    BY <2>6, <2>7
<1>12. ASSUME worker' = worker, UNCHANGED result PROVE \A v \in Workers : Ok(v)'
  BY <1>5, <1>12
<1> HIDE DEF Ok
<1>13. ASSUME NEW w \in Workers, Drops(w), UNCHANGED result PROVE \A v \in Workers : Ok(v)'
  BY <1>6, <1>7, <1>13
<1>14. ASSUME NEW w \in Workers, Loads(w) \/ Exchanged(w) PROVE \A v \in Workers : Ok(v)'
  BY <1>6, <1>8, <1>9, <1>14
<1>15. ASSUME NEW w \in Workers, NEW i \in RTs, Begin(w, i) \/ Answer(w, i) \/ Finish(w, i)
       PROVE  \A v \in Workers : Ok(v)'
  BY <1>6, <1>10, <1>15
<1>16. \A v \in Workers : Ok(v)'
  BY <1>1, <1>11, <1>12, <1>13, <1>14, <1>15, WorkerEffect
<1> QED
  BY <1>3, <1>16

-----------------------------------------------------------------------------
(* The checkpoints and the status of the job.                              *)

JobProgress ==
  /\ job.leased => job.owner # None
  /\ job.added <= job.saved /\ job.checked <= job.saved
  /\ job.failures = MaxFailures => job.status = "failed"
  /\ job.status \in {"sync_pending", "syncing", "completed"} => job.saved = Total
  /\ job.saved = Total =>
       job.status \in IF SyncAfter THEN {"sync_pending", "syncing", "completed", "failed"}
                      ELSE {"completed"}
  /\ ~SyncAfter => job.checked = 0
  /\ job.status = "completed" /\ SyncAfter => job.checked = Total

LEMMA ProgressStep ==
  ASSUME IInv, [Next]_vars
  PROVE  JobProgress'
<1>1. Types /\ Batches /\ Progress
  BY DEF IInv
<1>p. JobProgress
  BY <1>1 DEF Progress, JobProgress
<1>0. /\ job.saved \in 0..Total /\ job.checked \in 0..Total /\ job.added \in Nat
      /\ job.owner \in Workers \cup {None} /\ job.failures \in 0..MaxFailures
      /\ job.status \in Statuses /\ job.leased \in BOOLEAN
  BY <1>1 DEF Types, JobType
<1>2. UNCHANGED job => JobProgress'
  BY <1>p DEF JobProgress
<1>3. ASSUME NEW w \in Workers, Claim(w) PROVE JobProgress'
  <2>1. PICK p \in Phases :
           /\ job.status \in {Pending(p), Running(p)}
           /\ job'.status = Running(p) /\ job'.owner = w
           /\ job'.saved = job.saved /\ job'.checked = job.checked
           /\ job'.added = job.added /\ job'.failures = job.failures
    BY <1>1, <1>3, ClaimEffect
  <2>2. /\ p = "sync" => /\ job.status \in {"sync_pending", "syncing"}
                         /\ job'.status = "syncing"
        /\ p # "sync" => /\ job.status \in {"queued", "refresh_pending", "saving", "refreshing"}
                         /\ job'.status \in {"saving", "refreshing"}
    BY <2>1, PhaseNames
  <2> QED
    BY <1>0, <1>p, <2>1, <2>2, Constants DEF JobProgress
<1>4. ASSUME NEW w \in Workers, Saves(w) PROVE JobProgress'
  <2> DEFINE new == Usable(Batch(job.saved, worker[w].end)) \ accounts
  <2>1. PICK e \in 0..Total, n \in Nat : e = worker[w].end /\ n = Cardinality(new)
    BY <1>1, <1>4, SavesEffect, Constants
  <2>2. /\ job.saved < e /\ n \in 0..(e - job.saved)
        /\ job.status \in {"saving", "refreshing"}
        /\ job'.saved = e /\ job'.checked = job.checked /\ job'.added = job.added + n
        /\ job'.failures = 0
        /\ e < Total => /\ job'.status = job.status
                        /\ job'.owner = job.owner /\ job'.leased = job.leased
        /\ e = Total => /\ job'.status = IF SyncAfter THEN "sync_pending" ELSE "completed"
                        /\ job'.owner = None /\ ~job'.leased
    BY <1>1, <1>4, <2>1, SavesEffect
  <2>3. job'.added <= job'.saved /\ job'.checked <= job'.saved
    BY <1>0, <1>p, <2>1, <2>2, Constants DEF JobProgress
  <2>4. CASE e < Total
    BY <1>0, <1>p, <2>2, <2>3, <2>4, Constants DEF JobProgress
  <2>5. CASE e = Total
    BY <1>0, <1>p, <2>2, <2>3, <2>5, Constants DEF JobProgress
  <2> QED
    BY <2>1, <2>4, <2>5, Constants
<1>5. ASSUME NEW w \in Workers, Syncs(w) PROVE JobProgress'
  <2>1. PICK e \in 0..Total : e = worker[w].end
    BY <1>1, <1>5, SyncsEffect
  <2>2. /\ job.status = "syncing" /\ job'.checked = e /\ job'.saved = job.saved
        /\ job'.added = job.added /\ job'.failures = 0
        /\ e < Total => /\ job'.status = job.status
                        /\ job'.owner = job.owner /\ job'.leased = job.leased
        /\ e = Total => job'.status = "completed" /\ job'.owner = None /\ ~job'.leased
    BY <1>1, <1>5, <2>1, SyncsEffect
  <2>3. job.saved = Total /\ SyncAfter
    BY <1>p, <2>2 DEF JobProgress
  <2>4. CASE e < Total
    BY <1>0, <1>p, <2>2, <2>3, <2>4, Constants DEF JobProgress
  <2>5. CASE e = Total
    BY <1>0, <1>p, <2>2, <2>3, <2>5, Constants DEF JobProgress
  <2> QED
    BY <2>1, <2>4, <2>5, Constants
<1>6. ASSUME (\E w \in Workers : Fail(w)) \/ LeaseRunsOut \/ Retry PROVE JobProgress'
  <2>1. /\ job'.saved = job.saved /\ job'.checked = job.checked /\ job'.added = job.added
        /\ \/ /\ job'.status = job.status /\ job'.failures = job.failures
              /\ job'.leased => job.leased /\ job'.owner = job.owner
           \/ /\ job.status \in {"saving", "refreshing", "syncing", "failed"}
              /\ job'.status \in {Resume(job), "failed"} /\ ~job'.leased
              /\ job'.failures = MaxFailures => job'.status = "failed"
    BY <1>1, <1>6, FailEffect
  <2>2. /\ job.saved = Total => Resume(job) = "sync_pending"
        /\ job.saved # Total => Resume(job) \in {"queued", "refresh_pending"}
    BY PhaseNames DEF Resume, Phases
  <2> QED
    BY <1>0, <1>p, <2>1, <2>2, Constants DEF JobProgress
<1> QED
  BY <1>2, <1>3, <1>4, <1>5, <1>6, JobEffect

\* How the checkpoint moves: to the end of a batch whose items are accounted
\* for, or not at all.
LEMMA SavedEffect ==
  ASSUME IInv, [Next]_vars
  PROVE  \/ job'.saved = job.saved
         \/ \E w \in Workers : Saves(w)
<1>1. Types /\ Batches /\ Progress
  BY DEF IInv
<1>2. ASSUME NEW w \in Workers, Claim(w) PROVE job'.saved = job.saved
  BY <1>1, <1>2, ClaimEffect
<1>3. ASSUME NEW w \in Workers, Syncs(w) PROVE job'.saved = job.saved
  BY <1>1, <1>3, SyncsEffect
<1>4. ASSUME (\E w \in Workers : Fail(w)) \/ LeaseRunsOut \/ Retry PROVE job'.saved = job.saved
  BY <1>1, <1>4, FailEffect
<1> QED
  BY <1>2, <1>3, <1>4, JobEffect

LEMMA ResultsBehind ==
  ASSUME IInv, [Next]_vars
  PROVE  \A i \in RTs : i <= job'.saved => result'[i] # "none"
<1>1. Types /\ Batches /\ Exchanges /\ Progress
  BY DEF IInv
<1>2. \A i \in RTs : i \in Items /\ i \in Nat
  BY Constants
<1>3. \A i \in RTs : result[i] # "none" => result'[i] # "none"
  BY <1>2, ResultsKept
<1>4. CASE job'.saved = job.saved
  BY <1>1, <1>3, <1>4 DEF Progress
<1>5. ASSUME NEW w \in Workers, Saves(w)
      PROVE  \A i \in RTs : i <= job'.saved => result'[i] # "none"
  <2>1. /\ worker[w].pc = "save" /\ worker[w].start = job.saved
        /\ job'.saved = worker[w].end
    BY <1>1, <1>5, SavesEffect
  <2>2. \A i \in RTs : worker[w].start < i /\ i <= worker[w].end => result[i] # "none"
    BY <1>1, <2>1 DEF Exchanges
  <2>3. job.saved \in Nat
    BY <1>1, Constants DEF Types, JobType
  <2>4. \A i \in RTs : i <= job.saved => result[i] # "none"
    BY <1>1 DEF Progress
  <2> QED
    BY <1>2, <1>3, <2>1, <2>2, <2>3, <2>4
<1> QED
  BY <1>4, <1>5, SavedEffect

LEMMA ProgressInduct ==
  ASSUME IInv, [Next]_vars
  PROVE  Progress'
BY ProgressStep, ResultsBehind DEF Progress, JobProgress

-----------------------------------------------------------------------------
(* The accounts behind the checkpoint, and the counters of the lookups.    *)

LEMMA StoredStep ==
  ASSUME IInv, [Next]_vars
  PROVE  SavedMeansStored'
<1>1. Types /\ Batches /\ Exchanges /\ Progress /\ SavedMeansStored
  BY DEF IInv
<1>2. accounts \subseteq accounts'
  BY JobEffect
<1>3. \A i \in RTs : i \in Items
  BY Constants
<1>4. \A i \in RTs : result[i] = "error" => result'[i] = "error"
  BY <1>3, ResultsKept
<1>5. CASE job'.saved = job.saved
  BY <1>1, <1>2, <1>4, <1>5 DEF SavedMeansStored
<1>6. ASSUME NEW w \in Workers, Saves(w) PROVE SavedMeansStored'
  <2>1. PICK s \in 0..Total, e \in 0..Total : s = job.saved /\ e = worker[w].end
    BY <1>1, <1>6, SavesEffect DEF Types, JobType
  <2>2. /\ worker[w].pc = "save" /\ worker[w].start = s /\ job'.saved = e
        /\ accounts' = accounts \cup (Usable(Batch(s, e)) \ accounts)
    BY <1>1, <1>6, <2>1, SavesEffect
  <2>3. \A i \in RTs : s < i /\ i <= e => result[i] # "none"
    BY <1>1, <2>1, <2>2 DEF Exchanges
  <2>4. result \in [Items -> {"none", "ok", "error"}]
    BY <1>1 DEF Types, ResultType
  <2>5. ASSUME NEW i \in 1..e PROVE i \in accounts' \/ (i \in RTs /\ result'[i] = "error")
    <3>1. i \in Items /\ i \in Nat
      BY Constants DEF Items
    <3>2. CASE i <= s
      <4>1. i \in 1..s
        BY <2>1, <3>1, <3>2, Constants
      <4> QED
        BY <1>1, <1>2, <1>4, <2>1, <4>1 DEF SavedMeansStored
    <3>3. CASE s < i
      <4>1. i \in Batch(s, e)
        BY <3>1, <3>3, <2>1 DEF Batch
      <4>2. CASE i \notin RTs
        BY <2>2, <4>1, <4>2 DEF Usable
      <4>3. CASE i \in RTs
        <5>1. result[i] \in {"ok", "error"}
          BY <2>3, <2>4, <3>1, <3>3, <4>3
        <5> QED
          BY <1>4, <2>2, <4>1, <4>3, <5>1 DEF Usable
      <4> QED
        BY <4>2, <4>3
    <3> QED
      BY <2>1, <3>1, <3>2, <3>3, Constants
  <2> QED
    BY <2>2, <2>5 DEF SavedMeansStored
<1> QED
  BY <1>5, <1>6, SavedEffect

\* The items with an account do not change behind the checkpoint.
LEMMA UsableKept ==
  ASSUME IInv, [Next]_vars, NEW s \in 0..Total, NEW e \in 0..Total, e <= job.saved
  PROVE  Usable(Batch(s, e))' = Usable(Batch(s, e))
<1>1. Types /\ Progress
  BY DEF IInv
<1>2. job.saved \in Nat /\ \A i \in Items : i \in Nat
  BY <1>1, Constants DEF Types, JobType
<1>3. ASSUME NEW i \in RTs, i \in Batch(s, e) PROVE result'[i] = result[i]
  <2>1. i \in Items /\ i <= job.saved
    BY <1>2, <1>3, Constants DEF Batch
  <2>2. result[i] # "none"
    BY <1>1, <2>1 DEF Progress
  <2> QED
    BY <2>1, <2>2, ResultsKept
<1> QED
  BY <1>3 DEF Usable, Batch

LEMMA UsableSplit ==
  ASSUME NEW s \in 0..Total, NEW e \in 0..Total, s <= e
  PROVE  Cardinality(Usable(Batch(0, e))) =
         Cardinality(Usable(Batch(0, s))) + Cardinality(Usable(Batch(s, e)))
<1> DEFINE A == Usable(Batch(0, s))
           B == Usable(Batch(s, e))
<1>0. 0 \in 0..Total /\ 0 <= s /\ 0 <= e
  BY Constants
<1>i. s \in Nat /\ e \in Nat /\ \A i \in Items : i \in Nat /\ 0 < i
  BY Constants
<1>b. /\ \A i : i \in Batch(0, e) <=> i \in Batch(0, s) \/ i \in Batch(s, e)
      /\ \A i : ~(i \in Batch(0, s) /\ i \in Batch(s, e))
  BY <1>0, <1>i DEF Batch
<1>1. Usable(Batch(0, e)) = A \cup B
  BY <1>b DEF Usable
<1>2. A \cap B = {}
  BY <1>b DEF Usable
<1>3. IsFiniteSet(A) /\ IsFiniteSet(B)
  BY <1>0, BatchSets
<1> HIDE DEF A, B
<1>4. /\ Cardinality(A \cup B) = Cardinality(A) + Cardinality(B) - Cardinality(A \cap B)
      /\ Cardinality(A) \in Nat /\ Cardinality(B) \in Nat
  BY <1>3, FS_Union, FS_CardinalityType
<1>5. Cardinality(A \cap B) = 0
  BY <1>2, FS_EmptySet
<1>6. Cardinality(A \cup B) = Cardinality(A) + Cardinality(B)
  BY <1>4, <1>5
<1> QED
  BY <1>1, <1>6 DEF A, B

LEMMA SyncStep ==
  ASSUME IInv, [Next]_vars
  PROVE  SyncExact'
<1>1. Types /\ Batches /\ Progress /\ SyncExact
  BY DEF IInv
<1>2. /\ job.checked \in 0..Total /\ job.saved \in 0..Total /\ job.checked <= job.saved
      /\ job.synced \in Nat /\ job.sync_failed \in Nat /\ 0 \in 0..Total
  BY <1>1, Constants DEF Types, JobType, Progress
<1>3. ASSUME NEW e \in 0..Total, e <= job.saved, job'.checked = e,
             job'.synced + job'.sync_failed = Cardinality(Usable(Batch(0, e)))
      PROVE  SyncExact'
  <2>1. Usable(Batch(0, e))' = Usable(Batch(0, e))
    BY <1>2, <1>3, UsableKept
  <2> QED
    BY <1>3, <2>1 DEF SyncExact, Usable, Batch
<1>4. ASSUME job'.checked = job.checked,
             job'.synced = job.synced, job'.sync_failed = job.sync_failed
      PROVE  SyncExact'
  BY <1>1, <1>2, <1>3, <1>4 DEF SyncExact
<1>5. ASSUME NEW w \in Workers, Claim(w) PROVE SyncExact'
  BY <1>1, <1>4, <1>5, ClaimEffect
<1>6. ASSUME NEW w \in Workers, Saves(w) PROVE SyncExact'
  BY <1>1, <1>4, <1>6, SavesEffect
<1>7. ASSUME (\E w \in Workers : Fail(w)) \/ LeaseRunsOut \/ Retry PROVE SyncExact'
  BY <1>1, <1>4, <1>7, FailEffect
<1>8. ASSUME NEW w \in Workers, Syncs(w) PROVE SyncExact'
  <2>1. PICK c \in 0..Total, e \in 0..Total : c = job.checked /\ e = worker[w].end
    BY <1>1, <1>2, <1>8, SyncsEffect
  <2> DEFINE tokens == Cardinality(Usable(Batch(c, e)))
  <2>2. /\ c < e /\ job'.checked = e /\ job.status = "syncing"
        /\ job'.synced + job'.sync_failed = job.synced + job.sync_failed + tokens
    BY <1>1, <1>8, <2>1, SyncsEffect
  <2>3. job.saved = Total
    BY <1>1, <2>2 DEF Progress
  <2>4. Cardinality(Usable(Batch(0, e))) = Cardinality(Usable(Batch(0, c))) + tokens
    BY <2>1, <2>2, UsableSplit
  <2>5. Cardinality(Usable(Batch(0, c))) = job.synced + job.sync_failed
    BY <1>1, <2>1 DEF SyncExact
  <2> HIDE DEF tokens
  <2>6. job'.synced + job'.sync_failed = Cardinality(Usable(Batch(0, e)))
    BY <2>2, <2>4, <2>5
  <2> QED
    BY <1>3, <2>1, <2>2, <2>3, <2>6
<1>9. UNCHANGED job => SyncExact'
  BY <1>4
<1> QED
  BY <1>5, <1>6, <1>7, <1>8, <1>9, JobEffect

-----------------------------------------------------------------------------
(* The inductive invariant, and what follows from it.                      *)

LEMMA InitIInv == Init => IInv
<1> SUFFICES ASSUME Init PROVE IInv
  OBVIOUS
<1>1. /\ job = [status |-> Pending(FirstPhase), owner |-> None, leased |-> FALSE,
                saved |-> 0, checked |-> 0, added |-> 0, synced |-> 0, sync_failed |-> 0,
                failures |-> 0]
      /\ result = [i \in Items |-> "none"] /\ gate = [i \in Items |-> "idle"]
      /\ accounts \in SUBSET Managed /\ worker = [w \in Workers |-> AtRest]
      /\ spent = {} /\ events = 0
  BY DEF Init
<1>2. Pending(FirstPhase) \in {"queued", "refresh_pending"} /\ Pending(FirstPhase) \in Statuses
  BY PhaseNames DEF Phases
<1>3. JobType
  BY <1>1, <1>2, Constants DEF JobType
<1>4. ResultType /\ GateType
  BY <1>1 DEF ResultType, GateType
<1>5. AccountsType
  BY <1>1, IngestAssumption DEF AccountsType
<1>6. WorkersType
  BY <1>1, AtRestType DEF WorkersType
<1>7. HistoryType
  BY <1>1, Constants DEF HistoryType
<1>8. \A w \in Workers : worker[w].pc = "idle" /\ DOMAIN worker[w].flight = {}
  BY <1>1, AtRestType
<1>9. Batches /\ Exchanges
  BY <1>8 DEF Batches, Exchanges
<1>10. Gates
  BY <1>1, <1>8 DEF Gates, InFlight
<1>11. Progress
  BY <1>1, <1>2, Constants DEF Progress
<1>12. SavedMeansStored
  BY <1>1 DEF SavedMeansStored
<1>13. SyncExact
  <2>i. \A i \in Items : i \in Nat /\ 0 < i
    BY Constants
  <2>b. \A i : i \notin Batch(0, 0)
    BY <2>i DEF Batch
  <2>1. Usable(Batch(0, 0)) = {}
    BY <2>b DEF Usable
  <2>2. Cardinality({}) = 0
    BY FS_EmptySet
  <2> QED
    BY <1>1, <2>1, <2>2 DEF SyncExact
<1> QED
  BY <1>3, <1>4, <1>5, <1>6, <1>7, <1>9, <1>10, <1>11, <1>12, <1>13 DEF IInv, Types

LEMMA StepIInv == IInv /\ [Next]_vars => IInv'
<1> SUFFICES ASSUME IInv, [Next]_vars PROVE IInv'
  OBVIOUS
<1>1. Types' /\ Batches' /\ Exchanges'
  BY TypesStep, BatchesStep, ExchangesStep
<1>2. Progress' /\ Gates' /\ SavedMeansStored' /\ SyncExact'
  BY ProgressInduct, GatesStep, StoredStep, SyncStep
<1> QED
  BY <1>1, <1>2 DEF IInv

\* The inductive invariant holds in every state.
THEOREM IngestInvariant == Spec => []IInv
BY InitIInv, StepIInv, PTL DEF Spec

\* The counters of the job never exceed the items, whoever wrote them.
LEMMA IInvTypeOK == IInv => TypeOK
<1> SUFFICES ASSUME IInv PROVE TypeOK
  OBVIOUS
<1>1. Types /\ Progress /\ SyncExact
  BY DEF IInv
<1>2. job \in [status : Statuses, owner : Workers \cup {None}, leased : BOOLEAN,
               saved : 0..Total, checked : 0..Total, added : Nat,
               synced : Nat, sync_failed : Nat, failures : 0..MaxFailures]
  BY <1>1 DEF Types, JobType
<1>3. job.added \in 0..Total
  BY <1>1, <1>2, Constants DEF Progress
<1>4. job.synced \in 0..Total /\ job.sync_failed \in 0..Total
  <2>1. 0 \in 0..Total /\ job.checked \in 0..Total /\ 0 <= job.checked
    BY <1>2, Constants
  <2>2. Cardinality(Usable(Batch(0, job.checked))) \in 0..(job.checked - 0)
    BY <2>1, BatchSets
  <2>3. job.synced + job.sync_failed \in 0..(job.checked - 0)
    BY <1>1, <2>2 DEF SyncExact
  <2> QED
    BY <1>2, <2>1, <2>3, Constants
<1>5. job \in [status : Statuses, owner : Workers \cup {None}, leased : BOOLEAN,
               saved : 0..Total, checked : 0..Total, added : 0..Total,
               synced : 0..Total, sync_failed : 0..Total, failures : 0..MaxFailures]
  BY <1>2, <1>3, <1>4
<1>6. job.leased => job.owner # None
  BY <1>1 DEF Progress
<1>7. ASSUME NEW w \in Workers
      PROVE  /\ worker[w].pc \in {"idle", "ready", "exchange", "save", "sync", "failing", "lost"}
             /\ worker[w].phase \in Phases
             /\ worker[w].start \in 0..Total /\ worker[w].end \in 0..Total
             /\ DOMAIN worker[w].flight \subseteq RTs
             /\ worker[w].flight \in [DOMAIN worker[w].flight ->
                  {"new", "known", "sent", "ok", "error", "stored", "over"}]
  <2>1. worker[w] \in WorkerRec /\ worker[w].flight \in Flights
    BY <1>1 DEF Types, WorkersType, WorkerRec
  <2>2. PICK D \in SUBSET RTs : worker[w].flight \in [D -> FlightStates]
    BY <2>1 DEF Flights
  <2>3. DOMAIN worker[w].flight = D
    BY <2>2
  <2>4. DOMAIN worker[w].flight \subseteq RTs
        /\ worker[w].flight \in [DOMAIN worker[w].flight -> FlightStates]
    BY <2>2, <2>3
  <2> QED
    BY <2>1, <2>4 DEF WorkerRec, WorkerPC, FlightStates
<1> QED
  BY <1>1, <1>5, <1>6, <1>7
  DEF TypeOK, Types, ResultType, GateType, AccountsType, HistoryType

\* Every state of the job, its workers and its gates is of its type; the
\* counters of the row stay within the items of the job.
THEOREM IngestTypeTheorem == Spec => []TypeOK
BY IngestInvariant, IInvTypeOK, PTL

\* save_batch: an item behind the checkpoint has its account, or an exchange
\* that failed, whichever worker moved the checkpoint.
THEOREM SavedMeansStoredTheorem == Spec => []SavedMeansStored
<1>1. IInv => SavedMeansStored
  BY DEF IInv
<1> QED
  BY <1>1, IngestInvariant, PTL

\* A job says that it is completed only after every item was saved and, where
\* the job asks for it, looked up.
THEOREM CompletedExactTheorem == Spec => []CompletedExact
<1>1. IInv => CompletedExact
  BY Constants DEF IInv, Progress, CompletedExact
<1> QED
  BY <1>1, IngestInvariant, PTL

\* _finish_sync: the counters of the lookups are those of the items with an
\* account behind the second checkpoint, however the leases were lost.
THEOREM SyncExactTheorem == Spec => []SyncExact
<1>1. IInv => SyncExact
  BY DEF IInv
<1> QED
  BY <1>1, IngestInvariant, PTL

\* Neither checkpoint of the row moves back, whoever writes it.
THEOREM CheckpointsAdvanceTheorem == Spec => CheckpointsAdvance
<1>1. IInv /\ [Next]_vars => [job'.saved >= job.saved /\ job'.checked >= job.checked]_<<job>>
  <2> SUFFICES ASSUME IInv, [Next]_vars
               PROVE  job'.saved >= job.saved /\ job'.checked >= job.checked
    OBVIOUS
  <2>1. Types /\ Batches /\ Progress
    BY DEF IInv
  <2>2. job.saved \in Nat /\ job.checked \in Nat
    BY <2>1, Constants DEF Types, JobType
  <2>3. ASSUME NEW w \in Workers, Claim(w)
        PROVE  job'.saved = job.saved /\ job'.checked = job.checked
    BY <2>1, <2>3, ClaimEffect
  <2>4. ASSUME NEW w \in Workers, Saves(w)
        PROVE  job'.saved >= job.saved /\ job'.checked = job.checked
    <3>1. PICK e \in 0..Total : e = worker[w].end
      BY <2>1, <2>4, SavesEffect
    <3>2. job'.saved = e /\ job.saved < e /\ job'.checked = job.checked
      BY <2>1, <2>4, <3>1, SavesEffect
    <3> QED
      BY <2>2, <3>2, Constants
  <2>5. ASSUME NEW w \in Workers, Syncs(w)
        PROVE  job'.saved = job.saved /\ job'.checked >= job.checked
    <3>1. PICK e \in 0..Total : e = worker[w].end
      BY <2>1, <2>5, SyncsEffect
    <3>2. job'.saved = job.saved /\ job.checked < e /\ job'.checked = e
      BY <2>1, <2>5, <3>1, SyncsEffect
    <3> QED
      BY <2>2, <3>2, Constants
  <2>6. ASSUME (\E w \in Workers : Fail(w)) \/ LeaseRunsOut \/ Retry
        PROVE  job'.saved = job.saved /\ job'.checked = job.checked
    BY <2>1, <2>6, FailEffect
  <2> QED
    BY <2>2, <2>3, <2>4, <2>5, <2>6, JobEffect
<1> QED
  BY <1>1, IngestInvariant, PTL DEF Spec, CheckpointsAdvance

\* The stored result of an exchange is never written again: the owner has in
\* flight only what has no result, and nobody else stores one.
THEOREM ResultsStandTheorem == Spec => ResultsStand
<1>1. IInv /\ [Next]_vars =>
        [\A i \in Items : result[i] # "none" => result'[i] = result[i]]_<<result>>
  BY ResultsKept
<1> QED
  BY <1>1, IngestInvariant, PTL DEF Spec, ResultsStand

\* begin_refresh: a refresh token that an exchange spent, or may have, is not
\* sent again, because its gate is idle for no one.
THEOREM NoSecondExchangeTheorem == Spec => NoSecondExchange
<1>1. IInv /\ [Next]_vars =>
        [\A i \in RTs : gate[i] # "sent" /\ gate'[i] = "sent" => i \notin spent]_<<gate>>
  <2> SUFFICES ASSUME IInv, [Next]_vars, NEW i \in RTs, gate[i] # "sent", gate'[i] = "sent"
               PROVE  i \notin spent
    OBVIOUS
  <2>1. Types /\ Gates
    BY DEF IInv
  <2>2. i \in Items
    BY Constants
  <2>3. ASSUME NEW w \in Workers, Loads(w) \/ Exchanged(w) PROVE UNCHANGED gate
    BY <2>1, <2>3, LoadsEffect, ExchangedEffect
  <2>4. ASSUME NEW w \in Workers, NEW k \in RTs, Stores(w, k) PROVE UNCHANGED gate
    BY <2>1, <2>4, StoresEffect
  <2>5. ASSUME NEW w \in Workers, NEW k \in RTs, Begin(w, k) \/ Answer(w, k) \/ Finish(w, k)
        PROVE  k = i /\ gate[i] = "idle"
    <3>1. k = i
      BY <2>1, <2>2, <2>5, GateEffect
    <3>2. CASE Begin(w, k)
      BY <2>1, <3>1, <3>2, GateEffect
    <3>3. CASE Answer(w, k)
      BY <2>1, <3>1, <3>3, GateEffect
    <3>4. CASE Finish(w, k)
      BY <2>1, <3>1, <3>4, GateEffect
    <3> QED
      BY <2>5, <3>1, <3>2, <3>3, <3>4
  <2>6. gate[i] = "idle"
    BY <2>1, <2>3, <2>4, <2>5, WorkerEffect
  <2> QED
    BY <2>1, <2>6 DEF Gates
<1> QED
  BY <1>1, IngestInvariant, PTL DEF Spec, NoSecondExchange

=============================================================================
