-------------------------- MODULE AccountPoolProofs --------------------------
(***************************************************************************)
(* Proofs about AccountPool, for any number of replicas and accounts, any  *)
(* number of attempts and of events.                                       *)
(***************************************************************************)
EXTENDS AccountPool, FiniteSetTheorems, TLAPS

Rows    == Row \cup {Absent}
Marks   == UNION {[D -> Nat] : D \in SUBSET Tokens}
Entry   == [at : Nat, row : Rows]
Journal == UNION {[D -> Entry] : D \in SUBSET Tokens}
Writer  == [pc : {"idle", "commit", "failed", "publish"}, kind : Kinds, keys : SUBSET Tokens,
            before : Pool, intent : Pool, baseline : Pool, desired : Pool,
            marks : Marks, tries : 0..MaxAttempts, outcome : Outcomes]
Reader  == [pc : {"idle", "loaded"}, loaded : Pool, at : Nat]

(* TypeOK, one conjunct for each group of variables. *)
StoredType  == db \in Pool /\ ver \in Nat \ {0}
ViewType    == /\ live \in [Replicas -> Pool] /\ base \in [Replicas -> Pool]
               /\ rev \in [Replicas -> Nat \ {0}]
QueueType   == /\ queue \in [Replicas -> SUBSET Tokens] /\ due \in [Replicas -> BOOLEAN]
               /\ \A r \in Replicas : due[r] => queue[r] # {}
WriterType  == writer \in [Replicas -> Writer]
ReaderType  == reader \in [Replicas -> Reader] /\ journal \in [Replicas -> Journal]
HistoryType == /\ events \in 0..MaxEvents /\ issued \in 1..(events + 1)
               /\ gone \in SUBSET Tokens /\ done \in [Tokens -> Nat]

Types == StoredType /\ ViewType /\ QueueType /\ WriterType /\ ReaderType /\ HistoryType

\* x is y, or y with image results added.
Follows(x, y) == x.at = y.at /\ x.rt = y.rt /\ x.used >= y.used

\* What a save of this kind may make of a row: only an edit and a renewal give
\* it another credential, only an import stores it where there is none, and
\* nothing but a deletion takes results away.
Saves(kind, old, new) ==
  /\ kind = "flush" => Follows(new, old)
  /\ kind \in {"edit", "renew"} => /\ (old = Absent => new = Absent)
                                   /\ (new # Absent => new.used >= old.used)
  /\ kind = "delete" => new = Absent
  /\ kind = "import" /\ old # Absent => new = old

\* A view is what was last known to be stored, ahead of it by image results.
View(r) == \A t \in Tokens : Follows(live[r][t], base[r][t])

\* A save in progress: the view has what it had, and more results; what is
\* intended is a change of the rows known to be stored, and what is about to be
\* written one of those that the write expects to find.
Work(r) ==
  LET w == writer[r]
  IN w.pc # "idle" =>
       /\ \A t \in w.keys :
            /\ Follows(live[r][t], w.before[t])
            /\ Saves(w.kind, base[r][t], w.intent[t])
            /\ (base[r][t] = Absent) = (w.kind = "import")
       /\ w.pc = "commit" =>
            /\ w.tries < MaxAttempts
            /\ \A t \in w.keys :
                 /\ Saves(w.kind, w.baseline[t], w.desired[t])
                 /\ w.kind = "renew" => Generation(w.before[t]) = Generation(w.baseline[t])

\* Revisions are not ahead of the stored one, and one that is the stored one
\* belongs to the stored rows: in a view, in what a reader has loaded, in what
\* a save expects to find, and in what it is about to publish.
Known(r) ==
  /\ rev[r] <= ver
  /\ rev[r] = ver => base[r] = db
  /\ reader[r].pc = "loaded" => 0 < reader[r].at /\ reader[r].at <= ver
  /\ reader[r].pc = "loaded" /\ reader[r].at = ver => reader[r].loaded = db
  /\ \A t \in DOMAIN journal[r] : journal[r][t].at <= ver
  /\ \A t \in DOMAIN writer[r].marks : writer[r].marks[t] <= ver
  /\ writer[r].pc = "commit" /\ rev[r] = ver =>
       \A t \in writer[r].keys : writer[r].baseline[t] = base[r][t]
  /\ writer[r].pc = "publish" /\ rev[r] = ver =>
       \A t \in writer[r].keys : writer[r].desired[t] = db[t]

IInv == Types /\ \A r \in Replicas : View(r) /\ Work(r) /\ Known(r)

-----------------------------------------------------------------------------
(* Rows, pools and receipts.                                               *)

LEMMA RowIs ==
  ASSUME NEW x \in Rows
  PROVE  /\ x.used \in Nat /\ x.rt \in Nat /\ x.at \in Nat
         /\ (x = Absent) = (x.at = 0)
         /\ x = Absent => x.used = 0 /\ x.rt = 0
         /\ x # Absent => x \in Row /\ x.rt # 0
BY DEF Rows, Row, Absent

LEMMA RowMade ==
  ASSUME NEW u \in Nat, NEW c \in Nat \ {0}, NEW a \in Nat \ {0}
  PROVE  [used |-> u, rt |-> c, at |-> a] \in Row
BY DEF Row

LEMMA FollowsRow ==
  ASSUME NEW x \in Rows, NEW y \in Rows, Follows(x, y)
  PROVE  (x = Absent) = (y = Absent) /\ Generation(x) = Generation(y)
BY RowIs DEF Follows, Generation

LEMMA FollowsSelf ==
  ASSUME NEW x \in Rows
  PROVE  Follows(x, x)
BY RowIs DEF Follows

LEMMA FollowsTwice ==
  ASSUME NEW x \in Rows, NEW y \in Rows, NEW z \in Rows, Follows(x, y), Follows(y, z)
  PROVE  Follows(x, z)
BY RowIs DEF Follows

LEMMA MergeFieldsIs ==
  ASSUME NEW b \in Rows, NEW l \in Row, NEW m \in Row
  PROVE  /\ MergeFields(b, l, m) \in Row
         /\ MergeFields(b, l, m).used =
              IF m.used + l.used - b.used < 0 THEN 0 ELSE m.used + l.used - b.used
         /\ MergeFields(b, l, m).rt = IF l.rt = b.rt THEN m.rt ELSE l.rt
         /\ MergeFields(b, l, m).at = IF l.at = b.at THEN m.at ELSE l.at
<1>1. /\ l.used \in Nat /\ m.used \in Nat /\ b.used \in Nat
      /\ l.rt \in Nat \ {0} /\ m.rt \in Nat \ {0} /\ l.at \in Nat \ {0} /\ m.at \in Nat \ {0}
  BY RowIs DEF Row
<1>2. PICK u \in Nat :
        u = IF m.used + l.used - b.used < 0 THEN 0 ELSE m.used + l.used - b.used
  BY <1>1
<1>3. PICK c \in Nat \ {0} : c = IF l.rt = b.rt THEN m.rt ELSE l.rt
  BY <1>1
<1>4. PICK a \in Nat \ {0} : a = IF l.at = b.at THEN m.at ELSE l.at
  BY <1>1
<1>5. MergeFields(b, l, m) = [used |-> u, rt |-> c, at |-> a]
  BY <1>2, <1>3, <1>4 DEF MergeFields
<1> QED
  BY <1>2, <1>3, <1>4, <1>5, RowMade

\* A row that is merged with another one that was stored meanwhile is a change
\* of the stored one that its kind of save may make.
LEMMA MergeSaves ==
  ASSUME NEW kind \in Kinds, NEW b \in Rows, NEW l \in Rows, NEW m \in Rows,
         Saves(kind, b, l), (b = Absent) = (kind = "import")
  PROVE  Merge(b, l, m) \in Rows /\ Saves(kind, m, Merge(b, l, m))
<1>0. Absent \in Rows
  BY DEF Rows
<1>1. CASE l = b
  <2>1. Merge(b, l, m) = m
    BY <1>1 DEF Merge
  <2>2. kind # "delete"
    BY <1>1 DEF Saves
  <2> QED
    BY <2>1, <2>2, RowIs DEF Saves, Follows
<1>2. CASE l # b /\ l = Absent
  <2>1. Merge(b, l, m) = Absent
    BY <1>2 DEF Merge
  <2>2. kind \in {"edit", "renew", "delete"}
    BY <1>2, RowIs DEF Saves, Follows, Kinds
  <2> QED
    BY <1>0, <2>1, <2>2 DEF Saves
<1>3. CASE l # Absent /\ b = Absent
  <2>1. Merge(b, l, m) = IF m = Absent THEN l ELSE m
    BY <1>3 DEF Merge
  <2>2. kind = "import"
    BY <1>3
  <2> QED
    BY <2>1, <2>2 DEF Saves
<1>4. CASE l # b /\ l # Absent /\ b # Absent
  <2>1. Merge(b, l, m) = IF m = Absent THEN Absent ELSE MergeFields(b, l, m)
    BY <1>4 DEF Merge
  <2>2. kind \in {"flush", "edit", "renew"}
    BY <1>4 DEF Saves, Kinds
  <2>3. CASE m = Absent
    BY <1>0, <2>1, <2>2, <2>3, RowIs DEF Saves, Follows
  <2>4. CASE m # Absent
    <3> DEFINE n == MergeFields(b, l, m)
    <3>1. b \in Row /\ l \in Row /\ m \in Row
      BY <1>4, <2>4, RowIs
    <3>2. b.used \in Nat /\ l.used \in Nat /\ m.used \in Nat /\ l.used >= b.used
      BY <1>4, <2>2, RowIs DEF Saves, Follows
    <3>3. /\ n \in Row /\ n.rt = (IF l.rt = b.rt THEN m.rt ELSE l.rt)
          /\ n.at = IF l.at = b.at THEN m.at ELSE l.at
      BY <3>1, MergeFieldsIs DEF Rows
    <3>4. n.used = IF m.used + l.used - b.used < 0 THEN 0 ELSE m.used + l.used - b.used
      BY <3>1, MergeFieldsIs DEF Rows
    <3> HIDE DEF n
    <3>5. n.used >= m.used
      BY <3>2, <3>4
    <3>6. n \in Rows /\ n # Absent
      BY <3>3 DEF Rows, Row, Absent
    <3>7. kind = "flush" => n.at = m.at /\ n.rt = m.rt
      BY <3>3 DEF Saves, Follows
    <3>8. Saves(kind, m, n)
      BY <2>2, <2>4, <3>5, <3>7 DEF Saves, Follows
    <3> QED
      BY <2>1, <2>4, <3>6, <3>8 DEF n
  <2> QED
    BY <2>3, <2>4
<1> QED
  BY <1>1, <1>2, <1>3, <1>4

\* A row that is published keeps the results the view has got meanwhile.
LEMMA ShownIs ==
  ASSUME NEW outcome, NEW before \in Rows, NEW now \in Rows, NEW row \in Rows,
         Follows(now, before)
  PROVE  Shown(outcome, before, now, row) \in Rows /\ Follows(Shown(outcome, before, now, row), row)
<1>1. CASE Shown(outcome, before, now, row) = row
  BY <1>1, FollowsSelf
<1>2. CASE Shown(outcome, before, now, row) # row
  <2>1. /\ row # Absent /\ before # Absent
        /\ Shown(outcome, before, now, row) =
             [row EXCEPT !.used = MergeFields(before, now, row).used]
    BY <1>2 DEF Shown
  <2>2. row \in Row /\ now \in Row
    BY <2>1, RowIs, FollowsRow
  <2>3. /\ before.used \in Nat /\ now.used \in Nat /\ row.used \in Nat
        /\ now.used >= before.used
    BY RowIs DEF Follows
  <2>4. PICK u \in Nat : u = MergeFields(before, now, row).used /\ u >= row.used
    BY <2>2, <2>3, MergeFieldsIs
  <2>5. Shown(outcome, before, now, row) = [row EXCEPT !.used = u]
    BY <2>1, <2>4
  <2> QED
    BY <2>2, <2>4, <2>5 DEF Rows, Row, Follows
<1> QED
  BY <1>1, <1>2

LEMMA RefreshedIs ==
  ASSUME NEW baseline \in Rows, NEW local \in Rows, NEW remote \in Rows, Follows(local, baseline)
  PROVE  /\ Refreshed(baseline, local, remote) \in Rows
         /\ Follows(Refreshed(baseline, local, remote), remote)
<1>1. CASE Refreshed(baseline, local, remote) = remote
  BY <1>1, FollowsSelf
<1>2. CASE Refreshed(baseline, local, remote) # remote
  <2> DEFINE known == [f \in DOMAIN baseline |-> IF remote[f] = local[f] THEN local[f]
                                                 ELSE baseline[f]]
  <2>1. /\ baseline # Absent /\ local # Absent /\ remote # Absent
        /\ Generation(local) = Generation(remote)
        /\ Refreshed(baseline, local, remote) = MergeFields(known, local, remote)
    BY <1>2 DEF Refreshed
  <2>2. baseline \in Row /\ local \in Row /\ remote \in Row
    BY <2>1, RowIs
  <2>3. local.at = remote.at /\ local.rt = remote.rt
    BY <2>1 DEF Generation
  <2>4. baseline.used \in Nat /\ local.used \in Nat /\ remote.used \in Nat
        /\ local.used >= baseline.used
    BY RowIs DEF Follows
  <2>5. DOMAIN baseline = {"used", "rt", "at"}
    BY <2>2 DEF Row
  <2>6. known.used = IF remote.used = local.used THEN local.used ELSE baseline.used
    BY <2>5
  <2> HIDE DEF known
  <2>7. PICK u \in Nat : u = MergeFields(known, local, remote).used /\ u >= remote.used
    BY <2>4, <2>6 DEF MergeFields
  <2>8. MergeFields(known, local, remote) = [used |-> u, rt |-> remote.rt, at |-> remote.at]
    BY <2>3, <2>7 DEF MergeFields
  <2>9. remote.rt \in Nat \ {0} /\ remote.at \in Nat \ {0}
    BY <2>2 DEF Row
  <2> QED
    BY <2>1, <2>7, <2>8, <2>9, RowMade DEF Rows, Follows
<1> QED
  BY <1>1, <1>2

LEMMA OnlyIs ==
  ASSUME NEW keys \in SUBSET Tokens, NEW rows \in Pool
  PROVE  Only(keys, rows) \in Pool /\ \A t \in keys : Only(keys, rows)[t] = rows[t]
BY DEF Only, Pool

LEMMA MarksMade ==
  ASSUME NEW D \in SUBSET Tokens, NEW f \in [D -> Nat]
  PROVE  f \in Marks
BY DEF Marks

LEMMA NoMarks == <<>> \in Marks /\ <<>> \in Journal /\ DOMAIN <<>> = {}
<1>1. <<>> = [t \in {} |-> 0] /\ DOMAIN <<>> = {}
  OBVIOUS
<1>2. <<>> \in [{} -> Nat] /\ <<>> \in [{} -> Entry]
  BY <1>1
<1>3. {} \in SUBSET Tokens
  OBVIOUS
<1> QED
  BY <1>1, <1>2, <1>3 DEF Marks, Journal

\* A receipt says the same of every row that was written.
LEMMA MarksOver ==
  ASSUME NEW C \in SUBSET Tokens, NEW v \in Nat, NEW g \in Marks
  PROVE  LET m == Over([t \in C |-> v], g)
         IN  m \in Marks /\ \A t \in DOMAIN m : m[t] = v \/ (t \in DOMAIN g /\ m[t] = g[t])
<1> DEFINE f == [t \in C |-> v]
<1>1. PICK D \in SUBSET Tokens : g \in [D -> Nat]
  BY DEF Marks
<1>2. f \in [C -> Nat] /\ \A t \in C : f[t] = v
  OBVIOUS
<1> HIDE DEF f
<1>3. /\ Over(f, g) \in [C \cup D -> Nat] /\ DOMAIN Over(f, g) = C \cup D
      /\ C \cup D \in SUBSET Tokens
      /\ \A t \in C \cup D :
           (t \in C /\ Over(f, g)[t] = f[t]) \/ (t \in D /\ Over(f, g)[t] = g[t])
  BY <1>1, <1>2 DEF Over
<1>4. Over(f, g) \in Marks
  BY <1>3, MarksMade
<1> QED
  BY <1>1, <1>2, <1>3, <1>4 DEF f

LEMMA JournalOver ==
  ASSUME NEW C \in SUBSET Tokens, NEW f \in [C -> Entry], NEW g \in Journal
  PROVE  LET j == Over(f, g)
         IN  /\ j \in Journal
             /\ \A t \in DOMAIN j : (t \in C /\ j[t] = f[t]) \/ (t \in DOMAIN g /\ j[t] = g[t])
<1>1. PICK D \in SUBSET Tokens : g \in [D -> Entry]
  BY DEF Journal
<1>2. /\ Over(f, g) \in [C \cup D -> Entry] /\ DOMAIN Over(f, g) = C \cup D
      /\ C \cup D \in SUBSET Tokens
      /\ \A t \in C \cup D :
           (t \in C /\ Over(f, g)[t] = f[t]) \/ (t \in D /\ Over(f, g)[t] = g[t])
  BY <1>1 DEF Over
<1>3. Over(f, g) \in Journal
  BY <1>2 DEF Journal
<1> QED
  BY <1>1, <1>2, <1>3

LEMMA AtRestIs == AtRest \in Writer /\ AtRest.pc = "idle" /\ DOMAIN AtRest.marks = {}
<1>1. Nothing \in Pool
  BY DEF Nothing, Pool
<1>2. 0 \in 0..MaxAttempts
  BY PoolAssumption
<1>3. AtRest.marks = <<>>
  BY DEF AtRest
<1> QED
  BY <1>1, <1>2, <1>3, NoMarks DEF AtRest, Writer, Kinds, Outcomes

LEMMA NoReadIs == NoRead \in Reader /\ NoRead.pc = "idle"
BY DEF NoRead, Reader, Nothing, Pool, Unordered

-----------------------------------------------------------------------------
(* A step of one replica.                                                  *)

Others(r) ==
  \A q \in Replicas : q # r =>
    /\ live'[q] = live[q] /\ base'[q] = base[q] /\ rev'[q] = rev[q]
    /\ writer'[q] = writer[q] /\ reader'[q] = reader[q] /\ journal'[q] = journal[q]

\* Every write has a revision of its own.
Moves == UNCHANGED stored \/ ver' = ver + 1

\* What a step of r has to show.
Good(r) == Types' /\ Others(r) /\ Moves /\ View(r)' /\ Work(r)' /\ Known(r)'

LEMMA Frame ==
  ASSUME IInv, NEW r \in Replicas, Good(r)
  PROVE  IInv'
<1>1. ASSUME NEW q \in Replicas, q # r PROVE View(q)' /\ Work(q)'
  <2>1. live'[q] = live[q] /\ base'[q] = base[q] /\ writer'[q] = writer[q]
    BY <1>1 DEF Good, Others
  <2>2. View(q) /\ Work(q)
    BY DEF IInv
  <2>3. View(q)'
    BY <2>1, <2>2 DEF View
  <2>4. Work(q)'
    BY <2>1, <2>2 DEF Work
  <2> QED
    BY <2>3, <2>4
<1>2. ASSUME NEW q \in Replicas, q # r PROVE Known(q)'
  <2>1. /\ base'[q] = base[q] /\ rev'[q] = rev[q]
        /\ writer'[q] = writer[q] /\ reader'[q] = reader[q] /\ journal'[q] = journal[q]
    BY <1>2 DEF Good, Others
  <2>2. Known(q)
    BY DEF IInv
  <2>3. CASE UNCHANGED stored
    BY <2>1, <2>2, <2>3 DEF Known, stored
  <2>4. CASE ver' = ver + 1
    <3>1. ver \in Nat /\ rev[q] \in Nat /\ reader[q] \in Reader
          /\ journal[q] \in Journal /\ writer[q].marks \in Marks
      BY DEF IInv, Types, StoredType, ViewType, ReaderType, WriterType, Writer
    <3>2. reader[q].at \in Nat
      BY <3>1 DEF Reader
    <3>3. \A t \in DOMAIN journal[q] : journal[q][t].at \in Nat
      BY <3>1 DEF Journal, Entry
    <3>4. \A t \in DOMAIN writer[q].marks : writer[q].marks[t] \in Nat
      BY <3>1 DEF Marks
    <3> QED
      BY <2>1, <2>2, <2>4, <3>1, <3>2, <3>3, <3>4 DEF Known
  <2> QED
    BY <2>3, <2>4 DEF Good, Moves
<1> QED
  BY <1>1, <1>2 DEF Good, IInv

LEMMA WriterUpdate ==
  ASSUME WriterType, NEW r \in Replicas, NEW rec \in Writer,
         writer' = [writer EXCEPT ![r] = rec]
  PROVE  /\ WriterType' /\ writer'[r] = rec
         /\ \A q \in Replicas : q # r => writer'[q] = writer[q]
BY DEF WriterType

LEMMA ReaderUpdate ==
  ASSUME ReaderType, NEW r \in Replicas, NEW x \in Reader, NEW j \in Journal,
         reader' = [reader EXCEPT ![r] = x], journal' = [journal EXCEPT ![r] = j]
  PROVE  /\ ReaderType' /\ reader'[r] = x /\ journal'[r] = j
         /\ \A q \in Replicas : q # r => reader'[q] = reader[q] /\ journal'[q] = journal[q]
BY DEF ReaderType

\* The types of one replica.
LEMMA Locals ==
  ASSUME Types, NEW r \in Replicas
  PROVE  /\ db \in Pool /\ live[r] \in Pool /\ base[r] \in Pool /\ rev[r] \in Nat
         /\ ver \in Nat /\ writer[r] \in Writer /\ reader[r] \in Reader
         /\ journal[r] \in Journal /\ queue[r] \in SUBSET Tokens /\ due[r] \in BOOLEAN
         /\ \A t \in Tokens : db[t] \in Rows /\ live[r][t] \in Rows /\ base[r][t] \in Rows
<1>1. /\ db \in Pool /\ live[r] \in Pool /\ base[r] \in Pool /\ rev[r] \in Nat
      /\ ver \in Nat /\ writer[r] \in Writer /\ reader[r] \in Reader
      /\ journal[r] \in Journal /\ queue[r] \in SUBSET Tokens /\ due[r] \in BOOLEAN
  BY DEF Types, StoredType, ViewType, QueueType, WriterType, ReaderType
<1> QED
  BY <1>1 DEF Pool, Rows

LEMMA WriterRows ==
  ASSUME NEW w \in Writer
  PROVE  /\ w.keys \in SUBSET Tokens /\ w.kind \in Kinds /\ w.outcome \in Outcomes
         /\ w.marks \in Marks /\ w.tries \in 0..MaxAttempts
         /\ w.before \in Pool /\ w.intent \in Pool /\ w.baseline \in Pool /\ w.desired \in Pool
         /\ \A t \in Tokens : /\ w.before[t] \in Rows /\ w.intent[t] \in Rows
                              /\ w.baseline[t] \in Rows /\ w.desired[t] \in Rows
BY DEF Writer, Pool, Rows

LEMMA InRange ==
  ASSUME NEW a \in Nat, NEW b \in Nat, 1 <= a, a <= b + 1
  PROVE  a \in 1..(b + 1)
OBVIOUS

LEMMA HistoryKept ==
  ASSUME HistoryType, events' = events \/ Event,
         issued' = issued \/ (Event /\ issued' = issued + 1),
         gone' \in SUBSET Tokens, done' \in [Tokens -> Nat]
  PROVE  HistoryType'
<1>1. /\ events \in Nat /\ events <= MaxEvents /\ issued \in Nat
      /\ 1 <= issued /\ issued <= events + 1 /\ MaxEvents \in Nat
  BY PoolAssumption DEF HistoryType
<1>2. events' \in Nat /\ events' <= MaxEvents /\ events <= events'
  BY <1>1 DEF Event
<1>3. issued' \in Nat /\ 1 <= issued' /\ issued' <= events' + 1
  BY <1>1, <1>2 DEF Event
<1>4. events' \in 0..MaxEvents
  BY <1>1, <1>2
<1>5. issued' \in 1..(events' + 1)
  BY <1>2, <1>3, InRange, Zenon
<1> QED
  BY <1>4, <1>5 DEF HistoryType

LEMMA CompleteStep ==
  ASSUME IInv, NEW r \in Replicas, NEW t \in Tokens, Complete(r, t)
  PROVE  Good(r)
<1>0. Types /\ View(r) /\ Work(r) /\ Known(r)
  BY DEF IInv
<1>1. live[r] \in Pool /\ live[r][t] \in Row /\ live[r][t] \in Rows
  BY <1>0, Locals, RowIs DEF Complete
<1>2. PICK u \in Nat : u = live[r][t].used + 1
  BY <1>1 DEF Row
<1> DEFINE row  == [live[r][t] EXCEPT !.used = u]
           pool == [live[r] EXCEPT ![t] = row]
<1>3. live' = [live EXCEPT ![r] = pool]
  BY <1>2 DEF Complete
<1>4. row \in Row /\ Follows(row, live[r][t])
  BY <1>1, <1>2 DEF Row, Follows
<1> HIDE DEF row
<1>5. pool \in Pool /\ pool[t] = row /\ \A k \in Tokens : k # t => pool[k] = live[r][k]
  BY <1>1, <1>4 DEF Pool
<1> HIDE DEF pool
<1>6. /\ live' \in [Replicas -> Pool] /\ live'[r] = pool
      /\ \A q \in Replicas : q # r => live'[q] = live[q]
  BY <1>0, <1>3, <1>5 DEF Types, ViewType
<1>7. \A k \in Tokens : Follows(live'[r][k], live[r][k]) /\ live'[r][k] \in Rows
  BY <1>0, <1>4, <1>5, <1>6, Locals, FollowsSelf DEF Rows
<1>8. UNCHANGED <<stored, base, rev, writer, reading, asked>>
  BY DEF Complete
<1>9. QueueType'
  BY <1>0 DEF Complete, Types, QueueType
<1>10. HistoryType'
  <2>1. done \in [Tokens -> Nat] /\ gone \in SUBSET Tokens
    BY <1>0 DEF Types, HistoryType
  <2>2. Event /\ UNCHANGED asked /\ done' = [done EXCEPT ![t] = done[t] + 1]
    BY DEF Complete
  <2>3. done' \in [Tokens -> Nat]
    BY <2>1, <2>2
  <2> QED
    BY <1>0, <2>1, <2>2, <2>3, HistoryKept DEF Types, asked
<1>11. Types'
  BY <1>0, <1>6, <1>8, <1>9, <1>10
  DEF Types, StoredType, ViewType, WriterType, ReaderType, stored, reading
<1>12. View(r)'
  BY <1>0, <1>7, <1>8, Locals, FollowsTwice DEF View
<1>13. Work(r)'
  <2>1. writer[r] \in Writer
    BY <1>0, Locals
  <2>2. ASSUME NEW k \in Tokens, Follows(live[r][k], writer[r].before[k])
        PROVE  Follows(live'[r][k], writer[r].before[k])
    BY <1>0, <1>7, <2>1, <2>2, Locals, WriterRows, FollowsTwice
  <2>3. writer[r].keys \in SUBSET Tokens
    BY <2>1, WriterRows
  <2> QED
    BY <1>0, <1>8, <2>2, <2>3 DEF Work
<1>14. Known(r)'
  BY <1>0, <1>8 DEF Known, stored, reading
<1>15. Others(r) /\ Moves
  BY <1>6, <1>8 DEF Others, Moves, reading
<1> QED
  BY <1>11, <1>12, <1>13, <1>14, <1>15 DEF Good

-----------------------------------------------------------------------------
(* The beginning of a save.                                                *)

\* What is staged for a save of this kind.
Staged(r, kind, keys, staged) ==
  \A t \in keys : /\ Saves(kind, base[r][t], staged[t])
                  /\ (base[r][t] = Absent) = (kind = "import")

LEMMA SaveStep ==
  ASSUME IInv, NEW r \in Replicas, NEW kind \in Kinds, NEW keys \in SUBSET Tokens,
         NEW staged \in Pool, Save(r, kind, keys, staged), Staged(r, kind, keys, staged)
  PROVE  /\ WriterType' /\ Others(r) /\ Moves /\ View(r)' /\ Work(r)' /\ Known(r)'
         /\ UNCHANGED <<stored, live, base, rev, reading, done>>
<1>0. Types /\ View(r) /\ Known(r)
  BY DEF IInv
<1>1. live[r] \in Pool /\ base[r] \in Pool
  BY <1>0, Locals
<1> DEFINE b4  == Only(keys, live[r])
           was == Only(keys, base[r])
           new == Only(keys, staged)
           rec == [AtRest EXCEPT !.pc = "commit", !.kind = kind, !.keys = keys,
                                 !.before = b4, !.baseline = was, !.intent = new,
                                 !.desired = new]
<1>2. /\ b4 \in Pool /\ was \in Pool /\ new \in Pool
      /\ \A t \in keys : b4[t] = live[r][t] /\ was[t] = base[r][t] /\ new[t] = staged[t]
  BY <1>1, OnlyIs
<1>3. writer' = [writer EXCEPT ![r] = rec]
      /\ UNCHANGED <<stored, live, base, rev, reading, done>>
  BY DEF Save
<1> HIDE DEF b4, was, new
<1>4. /\ rec \in Writer /\ rec.pc = "commit" /\ rec.kind = kind /\ rec.keys = keys
      /\ rec.before = b4 /\ rec.baseline = was /\ rec.intent = new /\ rec.desired = new
      /\ rec.marks = AtRest.marks /\ rec.tries = 0
  BY <1>2, AtRestIs DEF Writer, AtRest
<1> HIDE DEF rec
<1>5. /\ WriterType' /\ writer'[r] = rec
      /\ \A q \in Replicas : q # r => writer'[q] = writer[q]
  BY <1>0, <1>3, <1>4, WriterUpdate DEF Types
<1>6. Others(r) /\ Moves
  BY <1>3, <1>5 DEF Others, Moves, reading
<1>7. View(r)'
  BY <1>0, <1>3 DEF View
<1>8. Work(r)'
  <2>1. 0 < MaxAttempts
    BY PoolAssumption
  <2>2. ASSUME NEW t \in keys
        PROVE  /\ Follows(live[r][t], b4[t]) /\ Saves(kind, base[r][t], new[t])
               /\ (base[r][t] = Absent) = (kind = "import")
               /\ Saves(kind, was[t], new[t]) /\ Generation(b4[t]) = Generation(was[t])
    <3>1. live[r][t] \in Rows /\ base[r][t] \in Rows /\ Follows(live[r][t], base[r][t])
      BY <1>0, Locals DEF View
    <3>2. Generation(live[r][t]) = Generation(base[r][t]) /\ Follows(live[r][t], live[r][t])
      BY <3>1, FollowsRow, FollowsSelf
    <3> QED
      BY <1>2, <3>2 DEF Staged
  <2> QED
    BY <1>3, <1>4, <1>5, <2>1, <2>2 DEF Work
<1>9. Known(r)'
  <2>1. DOMAIN rec.marks = {} /\ rec.pc # "publish"
    BY <1>4, AtRestIs
  <2> QED
    BY <1>0, <1>2, <1>3, <1>4, <1>5, <2>1 DEF Known, stored, reading
<1> QED
  BY <1>3, <1>5, <1>6, <1>7, <1>8, <1>9

\* The rest of a step that begins a save.
LEMMA SaveGood ==
  ASSUME IInv, NEW r \in Replicas, NEW kind \in Kinds, NEW keys \in SUBSET Tokens,
         NEW staged \in Pool, Save(r, kind, keys, staged), Staged(r, kind, keys, staged),
         QueueType', events' = events \/ Event,
         issued' = issued \/ (Event /\ issued' = issued + 1), gone' \in SUBSET Tokens
  PROVE  Good(r)
<1>1. /\ WriterType' /\ Others(r) /\ Moves /\ View(r)' /\ Work(r)' /\ Known(r)'
      /\ UNCHANGED <<stored, live, base, rev, reading, done>>
  BY SaveStep
<1>2. Types
  BY DEF IInv
<1>3. HistoryType'
  <2>1. done' \in [Tokens -> Nat] /\ HistoryType
    BY <1>1, <1>2 DEF Types, HistoryType
  <2> QED
    BY <2>1, HistoryKept
<1>4. Types'
  BY <1>1, <1>2, <1>3 DEF Types, StoredType, ViewType, ReaderType, stored, reading
<1> QED
  BY <1>1, <1>4 DEF Good

LEMMA QueueKept ==
  ASSUME Types, UNCHANGED results
  PROVE  QueueType'
BY DEF Types, QueueType, results

LEMMA FlushStep ==
  ASSUME IInv, NEW r \in Replicas, Flush(r)
  PROVE  Good(r)
<1>0. Types /\ View(r) /\ Work(r) /\ Known(r)
  BY DEF IInv
<1>1. /\ queue' = [queue EXCEPT ![r] = {}] /\ due' = [due EXCEPT ![r] = FALSE]
      /\ UNCHANGED asked
  BY DEF Flush, TakeQueue
<1>2. QueueType'
  BY <1>0, <1>1 DEF Types, QueueType
<1> DEFINE keys == {t \in queue[r] : live[r][t] # Absent}
<1>3. keys \in SUBSET Tokens /\ live[r] \in Pool /\ "flush" \in Kinds
  BY <1>0, Locals DEF Kinds
<1>4. Staged(r, "flush", keys, live[r])
  <2>1. ASSUME NEW t \in keys
        PROVE  Follows(live[r][t], base[r][t]) /\ live[r][t] # Absent
               /\ live[r][t] \in Rows /\ base[r][t] \in Rows
    BY <1>0, <1>3, Locals DEF View
  <2>2. ASSUME NEW t \in keys PROVE base[r][t] # Absent
    BY <2>1, FollowsRow
  <2> QED
    BY <2>1, <2>2 DEF Staged, Saves
<1>5. CASE Save(r, "flush", keys, live[r]) /\ UNCHANGED events
  <2>1. gone' \in SUBSET Tokens /\ issued' = issued
    BY <1>0, <1>1 DEF Types, HistoryType, asked
  <2> HIDE DEF keys
  <2> QED
    BY <1>2, <1>3, <1>4, <1>5, <2>1, SaveGood
<1>6. CASE UNCHANGED <<stored, live, base, rev, reading, done, events, writer>>
  <2>1. Types'
    BY <1>0, <1>1, <1>2, <1>6
    DEF Types, StoredType, ViewType, WriterType, ReaderType, HistoryType, stored, reading, asked
  <2>2. View(r)' /\ Work(r)' /\ Known(r)'
    BY <1>0, <1>6 DEF View, Work, Known, stored, reading
  <2> QED
    BY <1>6, <2>1, <2>2 DEF Good, Others, Moves, reading
<1> QED
  BY <1>5, <1>6 DEF Flush

LEMMA EditStep ==
  ASSUME IInv, NEW r \in Replicas, NEW t \in Tokens, Edit(r, t)
  PROVE  Good(r)
<1>0. Types /\ View(r)
  BY DEF IInv
<1>1. /\ live[r][t] \in Row /\ live[r] \in Pool /\ live[r][t] # Absent
      /\ base[r][t] \in Rows /\ live[r][t] \in Rows /\ Follows(live[r][t], base[r][t])
  BY <1>0, Locals, RowIs DEF Edit, View
<1>2. PICK c \in Nat \ {0} : c = issued + 1
  BY <1>0 DEF Types, HistoryType
<1> DEFINE row    == [live[r][t] EXCEPT !.rt = c]
           staged == [live[r] EXCEPT ![t] = row]
<1>3. row \in Row /\ row.used = live[r][t].used /\ row # Absent
  BY <1>1 DEF Row, Absent
<1>4. Save(r, "edit", {t}, staged) /\ Event /\ issued' = issued + 1 /\ UNCHANGED <<results, gone>>
  BY <1>2 DEF Edit
<1> HIDE DEF row
<1>5. staged \in Pool /\ staged[t] = row
  BY <1>1, <1>3 DEF Pool
<1> HIDE DEF staged
<1>6. Staged(r, "edit", {t}, staged)
  <2>1. base[r][t] # Absent /\ row.used >= base[r][t].used
    BY <1>1, <1>3, FollowsRow DEF Follows
  <2> QED
    BY <1>5, <2>1 DEF Staged, Saves
<1>7. QueueType' /\ gone' \in SUBSET Tokens /\ "edit" \in Kinds /\ {t} \in SUBSET Tokens
  BY <1>0, <1>4, QueueKept DEF Types, HistoryType, Kinds
<1> QED
  BY <1>4, <1>5, <1>6, <1>7, SaveGood

LEMMA RenewStep ==
  ASSUME IInv, NEW r \in Replicas, NEW t \in Tokens, Renew(r, t)
  PROVE  Good(r)
<1>0. Types /\ View(r)
  BY DEF IInv
<1>1. /\ live[r][t] \in Row /\ live[r] \in Pool /\ live[r][t] # Absent
      /\ base[r][t] \in Rows /\ live[r][t] \in Rows /\ Follows(live[r][t], base[r][t])
  BY <1>0, Locals, RowIs DEF Renew, View
<1>2. PICK c \in Nat \ {0} : c = issued + 1
  BY <1>0 DEF Types, HistoryType
<1>3. PICK a \in {live[r][t].at, c} :
        Save(r, "renew", {t}, [live[r] EXCEPT ![t].rt = c, ![t].at = a])
  BY <1>2 DEF Renew
<1> DEFINE row    == [live[r][t] EXCEPT !.rt = c, !.at = a]
           staged == [live[r] EXCEPT ![t] = row]
<1>4. row \in Row /\ row.used = live[r][t].used /\ row # Absent
  BY <1>1, <1>3 DEF Row, Absent
<1>5. [live[r] EXCEPT ![t].rt = c, ![t].at = a] = staged
  BY <1>1 DEF Pool
<1>6. Save(r, "renew", {t}, staged) /\ Event /\ issued' = issued + 1 /\ UNCHANGED <<results, gone>>
  BY <1>3, <1>5 DEF Renew
<1> HIDE DEF row
<1>7. staged \in Pool /\ staged[t] = row
  BY <1>1, <1>4 DEF Pool
<1> HIDE DEF staged
<1>8. Staged(r, "renew", {t}, staged)
  <2>1. base[r][t] # Absent /\ row.used >= base[r][t].used
    BY <1>1, <1>4, FollowsRow DEF Follows
  <2> QED
    BY <1>7, <2>1 DEF Staged, Saves
<1>9. QueueType' /\ gone' \in SUBSET Tokens /\ "renew" \in Kinds /\ {t} \in SUBSET Tokens
  BY <1>0, <1>6, QueueKept DEF Types, HistoryType, Kinds
<1> QED
  BY <1>6, <1>7, <1>8, <1>9, SaveGood

LEMMA DeleteStep ==
  ASSUME IInv, NEW r \in Replicas, NEW t \in Tokens, Delete(r, t)
  PROVE  Good(r)
<1>0. Types /\ View(r)
  BY DEF IInv
<1>1. /\ live[r] \in Pool /\ live[r][t] # Absent
      /\ base[r][t] \in Rows /\ live[r][t] \in Rows /\ Follows(live[r][t], base[r][t])
  BY <1>0, Locals DEF Delete, View
<1> DEFINE staged == [live[r] EXCEPT ![t] = Absent]
<1>2. Save(r, "delete", {t}, staged) /\ Event /\ gone' = gone \cup {t}
      /\ UNCHANGED <<results, issued>>
  BY DEF Delete
<1>3. staged \in Pool /\ staged[t] = Absent
  BY <1>1 DEF Pool
<1> HIDE DEF staged
<1>4. Staged(r, "delete", {t}, staged)
  <2>1. base[r][t] # Absent
    BY <1>1, FollowsRow
  <2> QED
    BY <1>3, <2>1 DEF Staged, Saves
<1>5. QueueType' /\ gone' \in SUBSET Tokens /\ "delete" \in Kinds /\ {t} \in SUBSET Tokens
  BY <1>0, <1>2, QueueKept DEF Types, HistoryType, Kinds
<1> QED
  BY <1>2, <1>3, <1>4, <1>5, SaveGood

LEMMA ImportStep ==
  ASSUME IInv, NEW r \in Replicas, NEW t \in Tokens, Import(r, t)
  PROVE  Good(r)
<1>0. Types /\ View(r)
  BY DEF IInv
<1>1. /\ live[r] \in Pool /\ live[r][t] = Absent
      /\ base[r][t] \in Rows /\ live[r][t] \in Rows /\ Follows(live[r][t], base[r][t])
  BY <1>0, Locals DEF Import, View
<1>2. PICK c \in Nat \ {0} : c = issued + 1
  BY <1>0 DEF Types, HistoryType
<1> DEFINE staged == [live[r] EXCEPT ![t] = New(c)]
<1>3. Save(r, "import", {t}, staged) /\ Event /\ issued' = issued + 1 /\ UNCHANGED <<results, gone>>
  BY <1>2 DEF Import
<1>4. New(c) \in Row
  BY RowMade DEF New
<1>5. staged \in Pool
  BY <1>1, <1>4 DEF Pool
<1> HIDE DEF staged
<1>6. Staged(r, "import", {t}, staged)
  <2>1. base[r][t] = Absent
    BY <1>1, FollowsRow
  <2> QED
    BY <2>1 DEF Staged, Saves
<1>7. QueueType' /\ gone' \in SUBSET Tokens /\ "import" \in Kinds /\ {t} \in SUBSET Tokens
  BY <1>0, <1>3, QueueKept DEF Types, HistoryType, Kinds
<1> QED
  BY <1>3, <1>5, <1>6, <1>7, SaveGood

-----------------------------------------------------------------------------
(* The writer.                                                             *)

\* A write makes of every row what a save of its kind may make of it.
LEMMA WriteEffect ==
  ASSUME Types, NEW r \in Replicas, Write(writer[r])
  PROVE  /\ StoredType' /\ ver' = ver + 1
         /\ \A t \in Tokens : db'[t] = db[t]
              \/ (/\ t \in writer[r].keys /\ db[t] = writer[r].baseline[t]
                  /\ db'[t] = writer[r].desired[t])
<1>1. writer[r] \in Writer /\ db \in Pool /\ ver \in Nat \ {0}
  BY Locals DEF Types, StoredType
<1>2. writer[r].desired \in Pool
  BY <1>1, WriterRows
<1>3. /\ db' = [t \in Tokens |-> IF t \in Changed(writer[r]) THEN writer[r].desired[t] ELSE db[t]]
      /\ ver' = ver + 1 /\ Matches(writer[r])
  BY DEF Write
<1>4. db' \in Pool
  BY <1>1, <1>2, <1>3 DEF Pool
<1> QED
  BY <1>1, <1>3, <1>4 DEF StoredType, Matches, Changed

\* A save that is over but for its publication.
LEMMA WriterGood ==
  ASSUME IInv, NEW r \in Replicas, NEW rec \in Writer,
         writer' = [writer EXCEPT ![r] = rec],
         UNCHANGED <<live, base, rev, results, reading, asked, done>>,
         events' = events \/ Event, StoredType', Moves,
         writer[r].pc # "idle", rec.pc # "idle",
         rec.keys = writer[r].keys, rec.kind = writer[r].kind,
         rec.before = writer[r].before, rec.intent = writer[r].intent,
         rec.pc = "commit" =>
           /\ rec.tries < MaxAttempts
           /\ \A t \in rec.keys :
                /\ Saves(rec.kind, rec.baseline[t], rec.desired[t])
                /\ rec.kind = "renew" => Generation(rec.before[t]) = Generation(rec.baseline[t]),
         Known(r)'
  PROVE  Good(r)
<1>0. Types /\ View(r) /\ Work(r)
  BY DEF IInv
<1>1. /\ WriterType' /\ writer'[r] = rec
      /\ \A q \in Replicas : q # r => writer'[q] = writer[q]
  BY <1>0, WriterUpdate DEF Types
<1>2. HistoryType'
  <2>1. HistoryType /\ done' \in [Tokens -> Nat] /\ gone' \in SUBSET Tokens /\ issued' = issued
    BY <1>0 DEF Types, HistoryType, asked
  <2> QED
    BY <2>1, HistoryKept
<1>3. QueueType' /\ ViewType' /\ ReaderType'
  BY <1>0, QueueKept DEF Types, ViewType, ReaderType, reading
<1>4. Types'
  BY <1>1, <1>2, <1>3 DEF Types
<1>5. Others(r)
  BY <1>1 DEF Others, reading
<1>6. View(r)'
  BY <1>0 DEF View
<1>7. Work(r)'
  BY <1>0, <1>1 DEF Work
<1> QED
  BY <1>4, <1>5, <1>6, <1>7 DEF Good

\* After a write, no revision that was known is the stored one.
LEMMA WriteKnown ==
  ASSUME Types, NEW r \in Replicas, Known(r), ver' = ver + 1, UNCHANGED <<rev, reading>>,
         \A t \in DOMAIN writer'[r].marks : writer'[r].marks[t] <= ver'
  PROVE  Known(r)'
<1>1. ver \in Nat /\ rev[r] \in Nat /\ reader[r].at \in Nat
  BY Locals DEF Reader
<1>2. \A t \in DOMAIN journal'[r] : journal'[r][t].at <= ver'
  <2>1. journal[r] \in Journal
    BY Locals
  <2>2. \A t \in DOMAIN journal[r] : journal[r][t].at \in Nat /\ journal[r][t].at <= ver
    BY <2>1 DEF Known, Journal, Entry
  <2> QED
    BY <1>1, <2>2 DEF reading
<1>3. rev'[r] < ver' /\ (reader'[r].pc = "loaded" => 0 < reader'[r].at /\ reader'[r].at < ver')
  BY <1>1 DEF Known, reading
<1>4. rev'[r] \in Nat /\ reader'[r].at \in Nat /\ ver' \in Nat
  BY <1>1 DEF reading
<1>5. rev'[r] # ver' /\ rev'[r] <= ver'
      /\ (reader'[r].pc = "loaded" => /\ 0 < reader'[r].at
                                      /\ reader'[r].at # ver' /\ reader'[r].at <= ver')
  BY <1>3, <1>4
<1> QED
  BY <1>2, <1>5 DEF Known

LEMMA CommitStep ==
  ASSUME IInv, NEW r \in Replicas, Commit(r)
  PROVE  Good(r)
<1>0. Types /\ Known(r)
  BY DEF IInv
<1> DEFINE w    == writer[r]
           m    == Over([t \in Changed(w) |-> ver'], w.marks)
           rec  == [w EXCEPT !.pc = "publish", !.marks = m]
<1>1. /\ w.pc = "commit" /\ Write(w)
      /\ UNCHANGED <<live, base, rev, results, reading, asked, done, events>>
      /\ writer' = [writer EXCEPT ![r].pc = "publish", ![r].marks = m]
  BY DEF Commit
<1>2. w \in Writer /\ writer \in [Replicas -> Writer] /\ ver \in Nat
  BY <1>0, Locals DEF Types, WriterType
<1>3. writer' = [writer EXCEPT ![r] = rec]
  BY <1>1, <1>2
<1>4. StoredType' /\ ver' = ver + 1
  BY <1>0, <1>1, WriteEffect
<1>5. Changed(w) \in SUBSET Tokens /\ ver' \in Nat /\ w.marks \in Marks
  BY <1>2, <1>4, WriterRows DEF Changed
<1>7. m \in Marks /\ \A t \in DOMAIN m : m[t] = ver' \/ (t \in DOMAIN w.marks /\ m[t] = w.marks[t])
  BY <1>5, MarksOver
<1> HIDE DEF m
<1>8. \A t \in DOMAIN w.marks : w.marks[t] \in Nat
  BY <1>5 DEF Marks
<1>9. /\ rec \in Writer /\ rec.pc = "publish" /\ rec.marks = m
      /\ rec.keys = w.keys /\ rec.kind = w.kind
      /\ rec.before = w.before /\ rec.intent = w.intent
  BY <1>2, <1>7 DEF Writer
<1> HIDE DEF rec
<1>10. writer'[r] = rec
  BY <1>0, <1>3, <1>9, WriterUpdate DEF Types
<1>11. Known(r)'
  <2>1. \A t \in DOMAIN m : m[t] <= ver'
    <3>1. \A t \in DOMAIN w.marks : w.marks[t] <= ver /\ w.marks[t] \in Nat
      BY <1>0, <1>8 DEF Known
    <3> QED
      BY <1>2, <1>4, <1>7, <3>1
  <2> QED
    BY <1>0, <1>1, <1>4, <1>9, <1>10, <2>1, WriteKnown
<1>12. Moves
  BY <1>4 DEF Moves
<1> HIDE DEF w
<1> QED
  BY <1>1, <1>3, <1>4, <1>9, <1>11, <1>12, WriterGood DEF w

LEMMA LoseConnectionStep ==
  ASSUME IInv, NEW r \in Replicas, LoseConnection(r)
  PROVE  Good(r)
<1>0. Types /\ Known(r)
  BY DEF IInv
<1> DEFINE w   == writer[r]
           rec == [w EXCEPT !.pc = "failed"]
<1>1. /\ w.pc = "commit" /\ (UNCHANGED stored \/ Write(w)) /\ Event
      /\ UNCHANGED <<live, base, rev, results, reading, asked, done>>
      /\ writer' = [writer EXCEPT ![r].pc = "failed"]
  BY DEF LoseConnection
<1>2. w \in Writer /\ writer \in [Replicas -> Writer] /\ ver \in Nat /\ w.marks \in Marks
  BY <1>0, Locals, WriterRows DEF Types, WriterType
<1>3. writer' = [writer EXCEPT ![r] = rec]
  BY <1>1, <1>2
<1>4. /\ rec \in Writer /\ rec.pc = "failed" /\ rec.marks = w.marks
      /\ rec.keys = w.keys /\ rec.kind = w.kind
      /\ rec.before = w.before /\ rec.intent = w.intent
  BY <1>2 DEF Writer
<1> HIDE DEF rec
<1>5. writer'[r] = rec
  BY <1>0, <1>3, <1>4, WriterUpdate DEF Types
<1>6. CASE UNCHANGED stored
  <2>1. StoredType'
    BY <1>0, <1>6 DEF Types, StoredType, stored
  <2>2. Known(r)'
    BY <1>0, <1>1, <1>4, <1>5, <1>6 DEF Known, stored, reading
  <2>3. Moves
    BY <1>6 DEF Moves
  <2> HIDE DEF w
  <2> QED
    BY <1>1, <1>3, <1>4, <2>1, <2>2, <2>3, WriterGood DEF w
<1>7. CASE Write(w)
  <2>1. StoredType' /\ ver' = ver + 1
    BY <1>0, <1>7, WriteEffect
  <2>2. \A t \in DOMAIN w.marks : w.marks[t] <= ver /\ w.marks[t] \in Nat
    BY <1>0, <1>2 DEF Known, Marks
  <2>3. \A t \in DOMAIN writer'[r].marks : writer'[r].marks[t] <= ver'
    BY <1>2, <1>4, <1>5, <2>1, <2>2
  <2>4. Known(r)'
    BY <1>0, <1>1, <2>1, <2>3, WriteKnown
  <2>5. Moves
    BY <2>1 DEF Moves
  <2> HIDE DEF w
  <2> QED
    BY <1>1, <1>3, <1>4, <2>1, <2>4, <2>5, WriterGood DEF w
<1> QED
  BY <1>1, <1>6, <1>7

\* A receipt with the revision that is stored, or with none.
LEMMA MarksKnown ==
  ASSUME Types, NEW K \in SUBSET Tokens, NEW v \in {ver, Unordered}
  PROVE  /\ [t \in K |-> v] \in Marks
         /\ \A t \in DOMAIN [k \in K |-> v] : [k \in K |-> v][t] <= ver
<1>1. ver \in Nat /\ v \in Nat /\ v <= ver
  BY DEF Types, StoredType, Unordered
<1>2. [t \in K |-> v] \in [K -> Nat]
  BY <1>1
<1>3. [t \in K |-> v] \in Marks
  BY <1>2, MarksMade
<1> QED
  BY <1>1, <1>3

\* Rows that were found changed are not the known ones: the revision moved.
LEMMA NotMatching ==
  ASSUME IInv, NEW r \in Replicas, writer[r].pc = "commit", ~Matches(writer[r])
  PROVE  rev[r] # ver
<1>0. Types /\ Known(r)
  BY DEF IInv
<1>1. PICK t \in Changed(writer[r]) : db[t] # writer[r].baseline[t]
  BY DEF Matches
<1>2. t \in writer[r].keys
  BY DEF Changed
<1> QED
  BY <1>0, <1>1, <1>2 DEF Known

LEMMA GiveUpStep ==
  ASSUME IInv, NEW r \in Replicas, GiveUp(r)
  PROVE  Good(r)
<1>0. Types /\ Known(r)
  BY DEF IInv
<1> DEFINE w   == writer[r]
           row == Only(w.keys, db)
           m   == [t \in w.keys |-> ver]
           rec == [w EXCEPT !.pc = "publish", !.outcome = "overtaken", !.desired = row,
                            !.marks = m]
<1>1. /\ w.pc = "commit" /\ ~Matches(w)
      /\ UNCHANGED <<stored, live, base, rev, results, reading, asked, done, events>>
      /\ writer' = [writer EXCEPT ![r].pc = "publish", ![r].outcome = "overtaken",
                                  ![r].desired = row, ![r].marks = m]
  BY DEF GiveUp
<1>2. w \in Writer /\ writer \in [Replicas -> Writer] /\ w.keys \in SUBSET Tokens /\ db \in Pool
  BY <1>0, Locals, WriterRows DEF Types, WriterType
<1>3. writer' = [writer EXCEPT ![r] = rec]
  BY <1>1, <1>2
<1>4. row \in Pool
  BY <1>2, OnlyIs
<1>5. m \in Marks /\ \A t \in DOMAIN m : m[t] <= ver
  BY <1>0, <1>2, MarksKnown
<1> HIDE DEF row, m
<1>6. /\ rec \in Writer /\ rec.pc = "publish" /\ rec.marks = m
      /\ rec.keys = w.keys /\ rec.kind = w.kind
      /\ rec.before = w.before /\ rec.intent = w.intent
  BY <1>2, <1>4, <1>5 DEF Writer, Outcomes
<1> HIDE DEF rec
<1>7. writer'[r] = rec
  BY <1>0, <1>3, <1>6, WriterUpdate DEF Types
<1>8. rev[r] # ver
  BY <1>1, NotMatching
<1>9. Known(r)'
  BY <1>0, <1>1, <1>5, <1>6, <1>7, <1>8 DEF Known, stored, reading
<1>10. StoredType' /\ Moves
  BY <1>0, <1>1 DEF Types, StoredType, Moves, stored
<1> HIDE DEF w
<1> QED
  BY <1>1, <1>3, <1>6, <1>9, <1>10, WriterGood DEF w

LEMMA RemergeStep ==
  ASSUME IInv, NEW r \in Replicas, Remerge(r)
  PROVE  Good(r)
<1>0. Types /\ Known(r) /\ Work(r)
  BY DEF IInv
<1> DEFINE w      == writer[r]
           rows   == [t \in Tokens |-> Merge(base[r][t], w.intent[t], db[t])]
           merged == Only(w.keys, rows)
           now    == Only(w.keys, db)
           m      == [t \in w.keys |-> ver]
           p      == IF w.tries + 1 = MaxAttempts THEN "failed"
                     ELSE IF merged = now THEN "publish" ELSE "commit"
           rec    == [w EXCEPT !.pc = p, !.tries = w.tries + 1, !.marks = m,
                               !.baseline = now, !.desired = merged]
<1>1. /\ w.pc = "commit" /\ ~Matches(w) /\ ~Overtaken(w)
      /\ UNCHANGED <<stored, live, base, rev, results, reading, asked, done, events>>
      /\ writer' = [writer EXCEPT ![r] = rec]
  BY DEF Remerge
<1>2. w \in Writer /\ w.keys \in SUBSET Tokens /\ db \in Pool /\ w.kind \in Kinds
  BY <1>0, Locals, WriterRows
<1>3. /\ w.tries \in Nat /\ w.tries < MaxAttempts /\ MaxAttempts \in Nat
      /\ \A t \in w.keys : /\ Saves(w.kind, base[r][t], w.intent[t])
                           /\ (base[r][t] = Absent) = (w.kind = "import")
  BY <1>0, <1>1, <1>2, WriterRows, PoolAssumption DEF Work
<1>4. ASSUME NEW t \in w.keys
      PROVE  rows[t] \in Rows /\ Saves(w.kind, db[t], rows[t])
  <2>1. /\ base[r][t] \in Rows /\ w.intent[t] \in Rows /\ db[t] \in Rows /\ t \in Tokens
    BY <1>0, <1>2, Locals, WriterRows
  <2>2. rows[t] = Merge(base[r][t], w.intent[t], db[t])
    BY <2>1
  <2> QED
    BY <1>2, <1>3, <2>1, <2>2, MergeSaves
<1>5. /\ now \in Pool /\ merged \in Pool
      /\ \A t \in w.keys : now[t] = db[t] /\ merged[t] = rows[t]
  <2>1. now \in Pool /\ \A t \in w.keys : now[t] = db[t]
    BY <1>2, OnlyIs
  <2> HIDE DEF rows
  <2>2. merged \in Pool /\ \A t \in w.keys : merged[t] = rows[t]
    BY <1>2, <1>4 DEF Only, Pool, Rows
  <2> QED
    BY <2>1, <2>2
<1>6. m \in Marks /\ \A t \in DOMAIN m : m[t] <= ver
  BY <1>0, <1>2, MarksKnown
<1>7. w.kind = "renew" => \A t \in w.keys : Generation(w.before[t]) = Generation(db[t])
  BY <1>1 DEF Overtaken
<1> HIDE DEF rows, merged, now, m
<1>8. p \in {"failed", "publish", "commit"} /\ (p = "commit" => w.tries + 1 < MaxAttempts)
      /\ w.tries + 1 \in 0..MaxAttempts
  BY <1>3
<1> HIDE DEF p
<1>9. /\ rec \in Writer /\ rec.pc = p /\ rec.marks = m /\ rec.tries = w.tries + 1
      /\ rec.keys = w.keys /\ rec.kind = w.kind /\ rec.baseline = now /\ rec.desired = merged
      /\ rec.before = w.before /\ rec.intent = w.intent
  BY <1>2, <1>5, <1>6, <1>8 DEF Writer
<1> HIDE DEF rec
<1>10. writer'[r] = rec
  BY <1>0, <1>1, <1>9, WriterUpdate DEF Types
<1>11. rev[r] # ver
  BY <1>1, NotMatching
<1>12. Known(r)'
  BY <1>0, <1>1, <1>6, <1>9, <1>10, <1>11 DEF Known, stored, reading
<1>13. StoredType' /\ Moves
  BY <1>0, <1>1 DEF Types, StoredType, Moves, stored
<1>14. rec.pc = "commit" =>
         /\ rec.tries < MaxAttempts
         /\ \A t \in rec.keys :
              /\ Saves(rec.kind, rec.baseline[t], rec.desired[t])
              /\ rec.kind = "renew" => Generation(rec.before[t]) = Generation(rec.baseline[t])
  BY <1>4, <1>5, <1>7, <1>8, <1>9
<1>15. rec.pc # "idle"
  BY <1>8, <1>9
<1> HIDE DEF w
<1> QED
  BY <1>1, <1>9, <1>12, <1>13, <1>14, <1>15, WriterGood DEF w

LEMMA RecoverStep ==
  ASSUME IInv, NEW r \in Replicas, Recover(r)
  PROVE  Good(r)
<1>0. Types /\ Known(r)
  BY DEF IInv
<1>1. PICK read \in BOOLEAN :
        /\ IF read THEN UNCHANGED events ELSE Event
        /\ writer' = [writer EXCEPT
             ![r].pc = "publish", ![r].outcome = "raised",
             ![r].marks = [t \in writer[r].keys |-> IF read THEN ver ELSE Unordered],
             ![r].desired = Only(writer[r].keys,
                                 IF read THEN Found(writer[r], base[r]) ELSE base[r])]
  BY DEF Recover
<1> DEFINE w    == writer[r]
           v    == IF read THEN ver ELSE Unordered
           rows == IF read THEN Found(w, base[r]) ELSE base[r]
           row  == Only(w.keys, rows)
           m    == [t \in w.keys |-> v]
           rec  == [w EXCEPT !.pc = "publish", !.outcome = "raised", !.marks = m, !.desired = row]
<1>2. /\ w \in Writer /\ writer \in [Replicas -> Writer] /\ w.keys \in SUBSET Tokens
      /\ db \in Pool /\ base[r] \in Pool
  BY <1>0, Locals, WriterRows DEF Types, WriterType
<1>3. writer' = [writer EXCEPT ![r] = rec]
  BY <1>1, <1>2
<1>4. /\ w.pc = "failed" /\ (events' = events \/ Event)
      /\ UNCHANGED <<stored, live, base, rev, results, reading, asked, done>>
  BY <1>1 DEF Recover
<1>5. rows \in Pool
  BY <1>2 DEF Found, Pool
<1>6. base[r] = db => \A t \in Tokens : rows[t] = db[t]
  BY DEF Found
<1>7. v \in {ver, Unordered}
  OBVIOUS
<1> HIDE DEF rows, v
<1>8. row \in Pool /\ \A t \in w.keys : row[t] = rows[t]
  BY <1>2, <1>5, OnlyIs
<1>9. m \in Marks /\ \A t \in DOMAIN m : m[t] <= ver
  BY <1>0, <1>2, <1>7, MarksKnown
<1> HIDE DEF row, m
<1>10. /\ rec \in Writer /\ rec.pc = "publish" /\ rec.marks = m /\ rec.desired = row
       /\ rec.keys = w.keys /\ rec.kind = w.kind
       /\ rec.before = w.before /\ rec.intent = w.intent
  BY <1>2, <1>8, <1>9 DEF Writer, Outcomes
<1> HIDE DEF rec
<1>11. writer'[r] = rec
  BY <1>0, <1>3, <1>10, WriterUpdate DEF Types
<1>12. Known(r)'
  BY <1>0, <1>2, <1>4, <1>6, <1>8, <1>9, <1>10, <1>11 DEF Known, stored, reading
<1>13. StoredType' /\ Moves
  BY <1>0, <1>4 DEF Types, StoredType, Moves, stored
<1> HIDE DEF w
<1> QED
  BY <1>3, <1>4, <1>10, <1>12, <1>13, WriterGood DEF w

\* A view and the rows known to be stored that one replica gets anew.
LEMMA ViewUpdate ==
  ASSUME ViewType, NEW r \in Replicas, NEW l \in Pool, NEW b \in Pool,
         live' = [live EXCEPT ![r] = l], base' = [base EXCEPT ![r] = b]
  PROVE  /\ live' \in [Replicas -> Pool] /\ base' \in [Replicas -> Pool]
         /\ live'[r] = l /\ base'[r] = b
         /\ \A q \in Replicas : q # r => live'[q] = live[q] /\ base'[q] = base[q]
BY DEF ViewType

LEMMA PublishStep ==
  ASSUME IInv, NEW r \in Replicas, Publish(r)
  PROVE  Good(r)
<1>0. Types /\ View(r) /\ Work(r) /\ Known(r)
  BY DEF IInv
<1> DEFINE w      == writer[r]
           raised == w.kind = "flush" /\ w.outcome = "raised"
           f      == [t \in DOMAIN w.marks |-> [at |-> w.marks[t], row |-> w.desired[t]]]
           l      == [t \in Tokens |-> IF t \in w.keys
                                       THEN Shown(w.outcome, w.before[t], live[r][t], w.desired[t])
                                       ELSE live[r][t]]
           b      == [t \in Tokens |-> IF t \in w.keys THEN w.desired[t] ELSE base[r][t]]
<1>1. /\ w.pc = "publish"
      /\ journal' = IF reader[r].pc = "idle" THEN journal
                    ELSE [journal EXCEPT ![r] = Over(f, journal[r])]
      /\ live' = [live EXCEPT ![r] = l] /\ base' = [base EXCEPT ![r] = b]
      /\ queue' = [queue EXCEPT ![r] = IF raised THEN queue[r] \cup w.keys ELSE queue[r]]
      /\ due' = [due EXCEPT ![r] = due[r] /\ ~raised]
      /\ writer' = [writer EXCEPT ![r] = AtRest]
      /\ UNCHANGED <<stored, rev, reader, asked, done, events>>
  BY DEF Publish
<1>2. /\ w \in Writer /\ w.keys \in SUBSET Tokens /\ w.marks \in Marks /\ w.desired \in Pool
      /\ \A t \in Tokens : /\ w.before[t] \in Rows /\ w.desired[t] \in Rows
                           /\ live[r][t] \in Rows /\ base[r][t] \in Rows
      /\ journal[r] \in Journal /\ queue[r] \in SUBSET Tokens /\ due[r] \in BOOLEAN
  BY <1>0, Locals, WriterRows
<1>3. ASSUME NEW t \in Tokens
      PROVE  /\ l[t] \in Rows /\ b[t] \in Rows /\ Follows(l[t], b[t])
  <2>1. CASE t \in w.keys
    <3>1. Follows(live[r][t], w.before[t])
      BY <1>0, <1>1, <2>1 DEF Work
    <3>2. /\ Shown(w.outcome, w.before[t], live[r][t], w.desired[t]) \in Rows
          /\ Follows(Shown(w.outcome, w.before[t], live[r][t], w.desired[t]), w.desired[t])
      BY <1>2, <3>1, ShownIs
    <3> QED
      BY <1>2, <2>1, <3>2
  <2>2. CASE t \notin w.keys
    BY <1>0, <1>2, <2>2 DEF View
  <2> QED
    BY <2>1, <2>2
<1>4. rev[r] = ver => \A t \in Tokens : b[t] = db[t]
  BY <1>0, <1>1 DEF Known
<1> HIDE DEF l
<1>5. l \in Pool
  <2>1. l = [t \in Tokens |-> l[t]]
    BY DEF l
  <2> QED
    BY <1>3, <2>1 DEF Pool, Rows
<1>6. b \in Pool /\ (rev[r] = ver => b = db)
  <2>1. b = [t \in Tokens |-> b[t]]
    OBVIOUS
  <2>2. db = [t \in Tokens |-> db[t]]
    BY <1>0, Locals DEF Pool
  <2> HIDE DEF b
  <2>3. b \in Pool
    BY <1>3, <2>1 DEF Pool, Rows
  <2> QED
    BY <1>4, <2>1, <2>2, <2>3
<1> HIDE DEF b
<1>7. /\ live' \in [Replicas -> Pool] /\ base' \in [Replicas -> Pool]
      /\ live'[r] = l /\ base'[r] = b
      /\ \A q \in Replicas : q # r => live'[q] = live[q] /\ base'[q] = base[q]
  BY <1>0, <1>1, <1>5, <1>6, ViewUpdate DEF Types
<1>8. /\ WriterType' /\ writer'[r] = AtRest
      /\ \A q \in Replicas : q # r => writer'[q] = writer[q]
  BY <1>0, <1>1, AtRestIs, WriterUpdate DEF Types
<1>9. /\ journal' \in [Replicas -> Journal]
      /\ \A q \in Replicas : q # r => journal'[q] = journal[q]
      /\ \A t \in DOMAIN journal'[r] : journal'[r][t].at <= ver
  <2>1. PICK D \in SUBSET Tokens : w.marks \in [D -> Nat]
    BY <1>2 DEF Marks
  <2>2. D = DOMAIN w.marks /\ \A t \in D : w.marks[t] \in Nat /\ w.marks[t] <= ver
    BY <1>0, <2>1 DEF Known
  <2>3. \A t \in D : f[t] = [at |-> w.marks[t], row |-> w.desired[t]] /\ f[t] \in Entry
    BY <1>2, <2>2 DEF Entry
  <2>4. f \in [D -> Entry] /\ \A t \in D : f[t].at <= ver
    BY <2>2, <2>3
  <2>5. \A t \in DOMAIN journal[r] : journal[r][t].at <= ver
    BY <1>0 DEF Known
  <2>6. journal \in [Replicas -> Journal]
    BY <1>0 DEF Types, ReaderType
  <2> HIDE DEF f
  <2>7. /\ Over(f, journal[r]) \in Journal
        /\ \A t \in DOMAIN Over(f, journal[r]) : Over(f, journal[r])[t].at <= ver
    <3>1. /\ Over(f, journal[r]) \in Journal
          /\ \A t \in DOMAIN Over(f, journal[r]) :
               \/ (t \in D /\ Over(f, journal[r])[t] = f[t])
               \/ (t \in DOMAIN journal[r] /\ Over(f, journal[r])[t] = journal[r][t])
      BY <1>2, <2>4, JournalOver
    <3> QED
      BY <2>4, <2>5, <3>1
  <2>8. CASE reader[r].pc = "idle"
    BY <1>1, <2>5, <2>6, <2>8
  <2>9. CASE reader[r].pc # "idle"
    <3>1. journal' = [journal EXCEPT ![r] = Over(f, journal[r])]
      BY <1>1, <2>9
    <3> QED
      BY <2>6, <2>7, <3>1
  <2> QED
    BY <2>8, <2>9
<1>10. QueueType'
  BY <1>0, <1>1, <1>2 DEF Types, QueueType
<1>11. Types'
  BY <1>0, <1>1, <1>7, <1>8, <1>9, <1>10
  DEF Types, StoredType, ViewType, ReaderType, HistoryType, stored, asked
<1>12. View(r)'
  BY <1>3, <1>7 DEF View
<1>13. Work(r)'
  BY <1>8, AtRestIs DEF Work
<1>14. Known(r)'
  BY <1>0, <1>1, <1>6, <1>7, <1>8, <1>9, AtRestIs DEF Known, stored
<1>15. Others(r) /\ Moves
  BY <1>1, <1>7, <1>8, <1>9 DEF Others, Moves
<1> QED
  BY <1>11, <1>12, <1>13, <1>14, <1>15 DEF Good

-----------------------------------------------------------------------------
(* The reader, and a restart.                                              *)

LEMMA ReadStep ==
  ASSUME IInv, NEW r \in Replicas, Read(r)
  PROVE  Good(r)
<1>0. Types /\ View(r) /\ Work(r) /\ Known(r)
  BY DEF IInv
<1> DEFINE x == [pc |-> "loaded", loaded |-> db, at |-> ver]
<1>1. /\ reader' = [reader EXCEPT ![r] = x] /\ journal' = [journal EXCEPT ![r] = <<>>]
      /\ UNCHANGED <<stored, live, base, rev, results, writer, asked, done, events>>
  BY DEF Read
<1>2. x \in Reader /\ x.at = ver /\ x.loaded = db
  BY <1>0, Locals DEF Reader
<1> HIDE DEF x
<1>3. /\ ReaderType' /\ reader'[r] = x /\ journal'[r] = <<>>
      /\ \A q \in Replicas : q # r => reader'[q] = reader[q] /\ journal'[q] = journal[q]
  BY <1>0, <1>1, <1>2, NoMarks, ReaderUpdate DEF Types
<1>4. Types'
  BY <1>0, <1>1, <1>3, QueueKept DEF Types, StoredType, ViewType, WriterType, HistoryType, stored, asked
<1>5. View(r)' /\ Work(r)'
  BY <1>0, <1>1 DEF View, Work
<1>6. Known(r)'
  <2>1. ver \in Nat \ {0}
    BY <1>0 DEF Types, StoredType
  <2> QED
    BY <1>0, <1>1, <1>2, <1>3, <2>1, NoMarks DEF Known, stored
<1>7. Others(r) /\ Moves
  BY <1>1, <1>3 DEF Others, Moves
<1> QED
  BY <1>4, <1>5, <1>6, <1>7 DEF Good

LEMMA SkipRefreshStep ==
  ASSUME IInv, NEW r \in Replicas, SkipRefresh(r)
  PROVE  Good(r)
<1>0. Types /\ View(r) /\ Work(r) /\ Known(r)
  BY DEF IInv
<1>1. /\ reader' = [reader EXCEPT ![r] = NoRead] /\ journal' = [journal EXCEPT ![r] = <<>>]
      /\ UNCHANGED <<stored, live, base, rev, results, writer, asked, done, events>>
  BY DEF SkipRefresh, EndRead
<1>2. /\ ReaderType' /\ reader'[r] = NoRead /\ journal'[r] = <<>>
      /\ \A q \in Replicas : q # r => reader'[q] = reader[q] /\ journal'[q] = journal[q]
  BY <1>0, <1>1, NoReadIs, NoMarks, ReaderUpdate DEF Types
<1>3. Types'
  BY <1>0, <1>1, <1>2, QueueKept DEF Types, StoredType, ViewType, WriterType, HistoryType, stored, asked
<1>4. View(r)' /\ Work(r)'
  BY <1>0, <1>1 DEF View, Work
<1>5. Known(r)'
  BY <1>0, <1>1, <1>2, NoReadIs, NoMarks DEF Known, stored
<1>6. Others(r) /\ Moves
  BY <1>1, <1>2 DEF Others, Moves
<1> QED
  BY <1>3, <1>4, <1>5, <1>6 DEF Good

LEMMA RefreshStep ==
  ASSUME IInv, NEW r \in Replicas, Refresh(r)
  PROVE  Good(r)
<1>0. Types /\ View(r) /\ Work(r) /\ Known(r)
  BY DEF IInv
<1>1. /\ reader' = [reader EXCEPT ![r] = NoRead] /\ journal' = [journal EXCEPT ![r] = <<>>]
      /\ UNCHANGED <<stored, results, writer, asked, done, events>>
      /\ reader[r].pc = "loaded" /\ writer[r].pc = "idle"
  BY DEF Refresh, EndRead, NoWriter
<1>2. /\ ReaderType' /\ reader'[r] = NoRead /\ journal'[r] = <<>>
      /\ \A q \in Replicas : q # r => reader'[q] = reader[q] /\ journal'[q] = journal[q]
  BY <1>0, <1>1, NoReadIs, NoMarks, ReaderUpdate DEF Types
<1>3. StoredType' /\ QueueType' /\ WriterType' /\ HistoryType'
  BY <1>0, <1>1, QueueKept DEF Types, StoredType, WriterType, HistoryType, stored, asked
<1>4. CASE UNCHANGED <<live, base, rev>>
  <2>1. Types'
    BY <1>0, <1>2, <1>3, <1>4 DEF Types, ViewType
  <2>2. View(r)' /\ Work(r)'
    BY <1>0, <1>1, <1>4 DEF View, Work
  <2>3. Known(r)'
    BY <1>0, <1>1, <1>2, <1>4, NoReadIs, NoMarks DEF Known, stored
  <2>4. Others(r) /\ Moves
    BY <1>1, <1>2, <1>4 DEF Others, Moves
  <2> QED
    BY <2>1, <2>2, <2>3, <2>4 DEF Good
<1> DEFINE b == Overlaid(r)
           l == [t \in Tokens |-> Refreshed(base[r][t], live[r][t], b[t])]
<1>5. CASE /\ live' = [live EXCEPT ![r] = l] /\ base' = [base EXCEPT ![r] = b]
           /\ rev' = [rev EXCEPT ![r] = SnapshotRevision(r)]
  <2>1. /\ reader[r] \in Reader /\ journal[r] \in Journal /\ rev[r] \in Nat /\ ver \in Nat
        /\ \A t \in Tokens : live[r][t] \in Rows /\ base[r][t] \in Rows
    BY <1>0, Locals
  <2>2. reader[r].loaded \in Pool /\ reader[r].at \in Nat
    BY <2>1 DEF Reader
  <2>3. \A t \in DOMAIN journal[r] : journal[r][t].row \in Rows /\ journal[r][t].at \in Nat
    BY <2>1 DEF Journal, Entry
  <2>4. b \in Pool
    BY <2>2, <2>3 DEF Overlaid, Pool, Rows
  <2>5. reader[r].at = ver => b = db
    <3> SUFFICES ASSUME reader[r].at = ver PROVE b = db
      OBVIOUS
    <3>1. reader[r].loaded = db
      BY <1>0, <1>1 DEF Known
    <3>2. \A t \in DOMAIN journal[r] : ~(journal[r][t].at > reader[r].at)
      BY <1>0, <2>1, <2>3 DEF Known
    <3>3. db = [t \in Tokens |-> db[t]]
      BY <1>0, Locals DEF Pool
    <3> QED
      BY <3>1, <3>2, <3>3 DEF Overlaid
  <2> HIDE DEF b
  <2>6. ASSUME NEW t \in Tokens PROVE l[t] \in Rows /\ Follows(l[t], b[t])
    <3>1. b[t] \in Rows /\ Follows(live[r][t], base[r][t])
      BY <1>0, <2>4 DEF View, Pool, Rows
    <3>2. l[t] = Refreshed(base[r][t], live[r][t], b[t])
      OBVIOUS
    <3> QED
      BY <2>1, <3>1, <3>2, RefreshedIs
  <2>7. l = [t \in Tokens |-> l[t]]
    OBVIOUS
  <2> HIDE DEF l
  <2>8. l \in Pool
    BY <2>6, <2>7 DEF Pool, Rows
  <2>9. /\ live' \in [Replicas -> Pool] /\ base' \in [Replicas -> Pool]
        /\ live'[r] = l /\ base'[r] = b
        /\ \A q \in Replicas : q # r => live'[q] = live[q] /\ base'[q] = base[q]
    BY <1>0, <1>5, <2>4, <2>8, ViewUpdate DEF Types
  <2>10. reader[r].at <= ver /\ reader[r].at \in Nat \ {0}
    BY <1>0, <1>1, <2>2 DEF Known
  <2>11. /\ rev' \in [Replicas -> Nat \ {0}] /\ rev'[r] = reader[r].at
         /\ \A q \in Replicas : q # r => rev'[q] = rev[q]
    BY <1>0, <1>5, <2>10 DEF SnapshotRevision, Types, ViewType
  <2>12. Types'
    BY <1>2, <1>3, <2>9, <2>11 DEF Types, ViewType
  <2>13. View(r)' /\ Work(r)'
    BY <1>1, <2>6, <2>9 DEF View, Work
  <2>14. Known(r)'
    BY <1>0, <1>1, <1>2, <2>5, <2>9, <2>10, <2>11, NoReadIs, NoMarks DEF Known, stored
  <2>15. Others(r) /\ Moves
    BY <1>1, <1>2, <2>9, <2>11 DEF Others, Moves
  <2> QED
    BY <2>12, <2>13, <2>14, <2>15 DEF Good
<1> QED
  BY <1>4, <1>5 DEF Refresh

LEMMA RestartStep ==
  ASSUME IInv, NEW r \in Replicas, Restart(r)
  PROVE  Good(r)
<1>0. Types
  BY DEF IInv
<1>1. /\ live' = [live EXCEPT ![r] = db] /\ base' = [base EXCEPT ![r] = db]
      /\ rev' = [rev EXCEPT ![r] = ver]
      /\ queue' = [queue EXCEPT ![r] = {}] /\ due' = [due EXCEPT ![r] = FALSE]
      /\ writer' = [writer EXCEPT ![r] = AtRest]
      /\ reader' = [reader EXCEPT ![r] = NoRead] /\ journal' = [journal EXCEPT ![r] = <<>>]
      /\ Event /\ UNCHANGED <<stored, asked, done>>
  BY DEF Restart, EndRead
<1>2. db \in Pool /\ ver \in Nat \ {0} /\ \A t \in Tokens : db[t] \in Rows
  BY <1>0, Locals DEF Types, StoredType
<1>3. /\ live' \in [Replicas -> Pool] /\ base' \in [Replicas -> Pool]
      /\ live'[r] = db /\ base'[r] = db
      /\ \A q \in Replicas : q # r => live'[q] = live[q] /\ base'[q] = base[q]
  BY <1>0, <1>1, <1>2, ViewUpdate DEF Types
<1>4. /\ rev' \in [Replicas -> Nat \ {0}] /\ rev'[r] = ver
      /\ \A q \in Replicas : q # r => rev'[q] = rev[q]
  BY <1>0, <1>1, <1>2 DEF Types, ViewType
<1>5. /\ WriterType' /\ writer'[r] = AtRest
      /\ \A q \in Replicas : q # r => writer'[q] = writer[q]
  BY <1>0, <1>1, AtRestIs, WriterUpdate DEF Types
<1>6. /\ ReaderType' /\ reader'[r] = NoRead /\ journal'[r] = <<>>
      /\ \A q \in Replicas : q # r => reader'[q] = reader[q] /\ journal'[q] = journal[q]
  BY <1>0, <1>1, NoReadIs, NoMarks, ReaderUpdate DEF Types
<1>7. QueueType'
  BY <1>0, <1>1 DEF Types, QueueType
<1>8. HistoryType'
  <2>1. HistoryType /\ done' \in [Tokens -> Nat] /\ gone' \in SUBSET Tokens /\ issued' = issued
    BY <1>0, <1>1 DEF Types, HistoryType, asked
  <2> QED
    BY <1>1, <2>1, HistoryKept
<1>9. Types'
  BY <1>0, <1>1, <1>3, <1>4, <1>5, <1>6, <1>7, <1>8 DEF Types, StoredType, ViewType, stored
<1>10. View(r)'
  BY <1>2, <1>3, FollowsSelf DEF View
<1>11. Work(r)' /\ Known(r)'
  BY <1>1, <1>2, <1>3, <1>4, <1>5, <1>6, AtRestIs, NoReadIs, NoMarks DEF Work, Known, stored
<1>12. Others(r) /\ Moves
  BY <1>1, <1>3, <1>4, <1>5, <1>6 DEF Others, Moves
<1> QED
  BY <1>9, <1>10, <1>11, <1>12 DEF Good

-----------------------------------------------------------------------------
(* The inductive invariant, and what follows from it.                      *)

LEMMA InitIInv == Init => IInv
<1> SUFFICES ASSUME Init PROVE IInv
  OBVIOUS
<1>1. /\ db \in [Tokens -> {Absent, New(1)}] /\ ver = 1
      /\ live = [r \in Replicas |-> db] /\ base = [r \in Replicas |-> db]
      /\ rev = [r \in Replicas |-> ver]
      /\ queue = [r \in Replicas |-> {}] /\ due = [r \in Replicas |-> FALSE]
      /\ writer = [r \in Replicas |-> AtRest] /\ reader = [r \in Replicas |-> NoRead]
      /\ journal = [r \in Replicas |-> <<>>]
      /\ issued = 1 /\ gone = {} /\ done = [t \in Tokens |-> 0] /\ events = 0
  BY DEF Init
<1>2. New(1) \in Row
  BY RowMade DEF New
<1>3. db \in Pool /\ \A t \in Tokens : db[t] \in Rows
  BY <1>1, <1>2 DEF Pool, Rows
<1>4. StoredType /\ ViewType
  BY <1>1, <1>3 DEF StoredType, ViewType
<1>5. QueueType
  BY <1>1 DEF QueueType
<1>6. WriterType /\ ReaderType
  BY <1>1, AtRestIs, NoReadIs, NoMarks DEF WriterType, ReaderType
<1>7. HistoryType
  <2>1. 0 \in 0..MaxEvents /\ 1 \in 1..(0 + 1)
    BY PoolAssumption
  <2> QED
    BY <1>1, <2>1 DEF HistoryType
<1>8. ASSUME NEW r \in Replicas PROVE View(r) /\ Work(r) /\ Known(r)
  <2>1. live[r] = db /\ base[r] = db /\ rev[r] = ver
        /\ writer[r] = AtRest /\ reader[r] = NoRead /\ journal[r] = <<>>
    BY <1>1
  <2>2. View(r)
    BY <1>3, <2>1, FollowsSelf DEF View
  <2>3. Work(r)
    BY <2>1, AtRestIs DEF Work
  <2>4. Known(r)
    BY <1>1, <2>1, AtRestIs, NoReadIs, NoMarks DEF Known
  <2> QED
    BY <2>2, <2>3, <2>4
<1> QED
  BY <1>4, <1>5, <1>6, <1>7, <1>8 DEF IInv, Types

LEMMA StepIInv == IInv /\ [Next]_vars => IInv'
<1> SUFFICES ASSUME IInv, [Next]_vars PROVE IInv'
  OBVIOUS
<1>1. ASSUME NEW r \in Replicas, NEW t \in Tokens,
             Complete(r, t) \/ Edit(r, t) \/ Renew(r, t) \/ Delete(r, t) \/ Import(r, t)
      PROVE  Good(r)
  BY <1>1, CompleteStep, EditStep, RenewStep, DeleteStep, ImportStep
<1>2. ASSUME NEW r \in Replicas, Flush(r) \/ Commit(r) \/ GiveUp(r) \/ Remerge(r)
      PROVE  Good(r)
  BY <1>2, FlushStep, CommitStep, GiveUpStep, RemergeStep
<1>3. ASSUME NEW r \in Replicas, LoseConnection(r) \/ Recover(r) \/ Publish(r)
      PROVE  Good(r)
  BY <1>3, LoseConnectionStep, RecoverStep, PublishStep
<1>4. ASSUME NEW r \in Replicas, Read(r) \/ Refresh(r) \/ SkipRefresh(r) \/ Restart(r)
      PROVE  Good(r)
  BY <1>4, ReadStep, RefreshStep, SkipRefreshStep, RestartStep
<1>5. (\E r \in Replicas : Good(r)) \/ UNCHANGED vars
  BY <1>1, <1>2, <1>3, <1>4 DEF Next
<1>6. CASE UNCHANGED vars
  <2>1. /\ UNCHANGED <<db, ver, live, base, rev, queue, due, writer, reader, journal>>
        /\ UNCHANGED <<issued, gone, done, events>>
    BY <1>6 DEF vars, stored, results, reading, asked
  <2>2. Types'
    BY <2>1 DEF IInv, Types, StoredType, ViewType, QueueType, WriterType, ReaderType, HistoryType
  <2>3. ASSUME NEW r \in Replicas PROVE View(r)' /\ Work(r)' /\ Known(r)'
    BY <2>1 DEF IInv, View, Work, Known
  <2> QED
    BY <2>2, <2>3 DEF IInv
<1> QED
  BY <1>5, <1>6, Frame

\* The inductive invariant holds in every state.
THEOREM PoolInvariant == Spec => []IInv
BY InitIInv, StepIInv, PTL DEF Spec

LEMMA IInvTypeOK == IInv => TypeOK
<1> SUFFICES ASSUME IInv PROVE TypeOK
  OBVIOUS
<1>1. Types
  BY DEF IInv
<1>2. ASSUME NEW r \in Replicas
      PROVE  /\ writer[r].pc \in {"idle", "commit", "failed", "publish"}
             /\ writer[r].kind \in Kinds /\ writer[r].keys \subseteq Tokens
             /\ writer[r].before \in Pool /\ writer[r].intent \in Pool
             /\ writer[r].baseline \in Pool /\ writer[r].desired \in Pool
             /\ Partial(writer[r].marks, Nat) /\ writer[r].outcome \in Outcomes
             /\ writer[r].tries \in 0..MaxAttempts
             /\ reader[r].pc \in {"idle", "loaded"}
             /\ reader[r].loaded \in Pool /\ reader[r].at \in Nat
             /\ Partial(journal[r], [at : Nat, row : Row \cup {Absent}])
  <2>1. writer[r] \in Writer /\ reader[r] \in Reader /\ journal[r] \in Journal
    BY <1>1, Locals
  <2>2. writer[r].marks \in Marks
    BY <2>1, WriterRows
  <2>3. Partial(writer[r].marks, Nat)
    <3>1. PICK D \in SUBSET Tokens : writer[r].marks \in [D -> Nat]
      BY <2>2 DEF Marks
    <3> QED
      BY <3>1 DEF Partial
  <2>4. Partial(journal[r], [at : Nat, row : Row \cup {Absent}])
    <3>1. PICK D \in SUBSET Tokens : journal[r] \in [D -> Entry]
      BY <2>1 DEF Journal
    <3>2. DOMAIN journal[r] = D
      BY <3>1
    <3>3. journal[r] \in [DOMAIN journal[r] -> Entry]
      BY <3>1, <3>2
    <3> QED
      BY <3>2, <3>3 DEF Partial, Entry, Rows
  <2> QED
    BY <2>1, <2>3, <2>4 DEF Writer, Reader
<1>3. issued \in 1..(MaxEvents + 1)
  <2>1. PICK e \in Nat, c \in Nat, m \in Nat :
          e = events /\ c = issued /\ m = MaxEvents /\ e <= m /\ 1 <= c /\ c <= e + 1
    BY <1>1, PoolAssumption DEF Types, HistoryType
  <2> QED
    BY <2>1
<1> QED
  BY <1>1, <1>2, <1>3 DEF TypeOK, Types, StoredType, ViewType, QueueType, HistoryType

\* Every row, view, save and receipt is of its type, and no save tries more
\* often than it may.
THEOREM PoolTypeTheorem == Spec => []TypeOK
BY PoolInvariant, IInvTypeOK, PTL

\* A replica whose revision is the stored one knows the stored rows: neither a
\* receipt nor a snapshot acknowledges rows that it has not seen.
THEOREM RevisionHonestTheorem == Spec => []RevisionHonest
<1>1. IInv => RevisionHonest
  BY DEF IInv, Known, RevisionHonest
<1> QED
  BY <1>1, PoolInvariant, PTL

\* The database changes by writes alone.
LEMMA StoredEffect ==
  ASSUME IInv, [Next]_vars
  PROVE  \/ UNCHANGED db
         \/ \E r \in Replicas : /\ writer[r].pc = "commit" /\ writer'[r].pc # "commit"
                                /\ Write(writer[r])
<1>1. ASSUME NEW r \in Replicas, Commit(r)
      PROVE  /\ writer[r].pc = "commit" /\ writer'[r].pc # "commit" /\ Write(writer[r])
  <2>1. writer \in [Replicas -> Writer]
    BY DEF IInv, Types, WriterType
  <2> QED
    BY <1>1, <2>1 DEF Commit, Writer
<1>2. ASSUME NEW r \in Replicas, LoseConnection(r)
      PROVE  /\ writer[r].pc = "commit" /\ writer'[r].pc # "commit"
             /\ (UNCHANGED stored \/ Write(writer[r]))
  <2>1. writer \in [Replicas -> Writer]
    BY DEF IInv, Types, WriterType
  <2> QED
    BY <1>2, <2>1 DEF LoseConnection, Writer
<1>3. ASSUME NEW r \in Replicas, NEW t \in Tokens,
             Complete(r, t) \/ Edit(r, t) \/ Renew(r, t) \/ Delete(r, t) \/ Import(r, t)
      PROVE  UNCHANGED stored
  BY <1>3 DEF Complete, Edit, Renew, Delete, Import, Save
<1>4. ASSUME NEW r \in Replicas, Flush(r) PROVE UNCHANGED stored
  BY <1>4 DEF Flush, Save
<1>5. ASSUME NEW r \in Replicas,
             GiveUp(r) \/ Remerge(r) \/ Recover(r) \/ Publish(r) \/ Read(r) \/ Refresh(r)
               \/ SkipRefresh(r) \/ Restart(r)
      PROVE  UNCHANGED stored
  BY <1>5 DEF GiveUp, Remerge, Recover, Publish, Read, Refresh, SkipRefresh, Restart
<1>6. UNCHANGED vars => UNCHANGED stored
  BY DEF vars
<1>7. UNCHANGED stored => UNCHANGED db
  BY DEF stored
<1> QED
  BY <1>1, <1>2, <1>3, <1>4, <1>5, <1>6, <1>7 DEF Next

\* A row that a write changes is changed as its kind of save may.
LEMMA RowEffect ==
  ASSUME IInv, [Next]_vars, NEW t \in Tokens, db'[t] # db[t]
  PROVE  \E r \in Replicas :
           /\ writer[r].pc = "commit" /\ writer'[r].pc # "commit" /\ t \in writer[r].keys
           /\ writer[r].kind \in Kinds /\ Saves(writer[r].kind, db[t], db'[t])
           /\ (writer[r].kind = "renew" => Generation(writer[r].before[t]) = Generation(db[t]))
           /\ db[t] \in Rows /\ db'[t] \in Rows
<1>0. Types
  BY DEF IInv
<1>1. PICK r \in Replicas : /\ writer[r].pc = "commit" /\ writer'[r].pc # "commit"
                            /\ Write(writer[r])
  BY StoredEffect
<1>2. /\ t \in writer[r].keys /\ db[t] = writer[r].baseline[t] /\ db'[t] = writer[r].desired[t]
  BY <1>0, <1>1, WriteEffect
<1>3. /\ Saves(writer[r].kind, writer[r].baseline[t], writer[r].desired[t])
      /\ (writer[r].kind = "renew" =>
            Generation(writer[r].before[t]) = Generation(writer[r].baseline[t]))
  BY <1>1, <1>2 DEF IInv, Work
<1>4. writer[r] \in Writer
  BY <1>0, Locals
<1>5. writer[r].kind \in Kinds /\ writer[r].baseline[t] \in Rows /\ writer[r].desired[t] \in Rows
  BY <1>4, WriterRows
<1> QED
  BY <1>1, <1>2, <1>3, <1>5

\* mutate_accounts_checked and the merge after a conflict: no save takes back
\* image results that are stored.
THEOREM ResultsNeverDropTheorem == Spec => ResultsNeverDrop
<1>1. ASSUME IInv, [Next]_vars, NEW t \in Tokens, db[t] # Absent, db'[t] # Absent
      PROVE  db'[t].used >= db[t].used
  <2>1. CASE db'[t] = db[t]
    <3>1. db[t] \in Rows
      BY <1>1, WriterRows DEF IInv, Types, StoredType, Pool, Rows
    <3> QED
      BY <2>1, <3>1, RowIs
  <2>2. CASE db'[t] # db[t]
    <3>1. PICK r \in Replicas : writer[r].kind \in Kinds /\ Saves(writer[r].kind, db[t], db'[t])
      BY <1>1, <2>2, RowEffect
    <3> QED
      BY <1>1, <2>2, <3>1 DEF Saves, Follows, Kinds
  <2> QED
    BY <2>1, <2>2
<1>2. IInv /\ [Next]_vars =>
        [\A t \in Tokens : db[t] # Absent /\ db'[t] # Absent => db'[t].used >= db[t].used]_vars
  BY <1>1
<1> QED
  BY <1>2, PoolInvariant, PTL DEF Spec, ResultsNeverDrop

\* A deleted account is not stored again but by an import of it.
THEOREM NoResurrectionTheorem == Spec => NoResurrection
<1>1. ASSUME IInv, [Next]_vars, NEW t \in Tokens, db[t] = Absent, db'[t] # Absent
      PROVE  \E r \in Replicas : writer[r].kind = "import" /\ t \in writer[r].keys
  <2>1. PICK r \in Replicas : /\ writer[r].kind \in Kinds /\ t \in writer[r].keys
                              /\ Saves(writer[r].kind, db[t], db'[t])
                              /\ db[t] \in Rows /\ db'[t] \in Rows
    BY <1>1, RowEffect
  <2>2. ~Follows(db'[t], db[t])
    BY <1>1, <2>1, FollowsRow
  <2>3. writer[r].kind = "import"
    BY <1>1, <2>1, <2>2 DEF Saves, Kinds
  <2> QED
    BY <2>1, <2>3
<1>2. IInv /\ [Next]_vars =>
        [\A t \in Tokens : db[t] = Absent /\ db'[t] # Absent =>
           \E r \in Replicas : writer[r].kind = "import" /\ t \in writer[r].keys]_vars
  BY <1>1
<1> QED
  BY <1>2, PoolInvariant, PTL DEF Spec, NoResurrection

\* _load_credential_conflict: a renewal replaces no credential but the one it
\* renewed, and of the other saves only an operator's edit replaces one.
THEOREM CredentialsMoveTheorem == Spec => CredentialsMove
<1>1. ASSUME IInv, [Next]_vars, NEW t \in Tokens, db[t] # Absent, db'[t] # Absent,
             Generation(db'[t]) # Generation(db[t])
      PROVE  \E r \in Replicas :
               /\ writer[r].pc = "commit" /\ writer'[r].pc # "commit" /\ t \in writer[r].keys
               /\ \/ writer[r].kind = "edit"
                  \/ /\ writer[r].kind = "renew"
                     /\ Generation(writer[r].before[t]) = Generation(db[t])
  <2>1. PICK r \in Replicas :
          /\ writer[r].pc = "commit" /\ writer'[r].pc # "commit" /\ t \in writer[r].keys
          /\ writer[r].kind \in Kinds /\ Saves(writer[r].kind, db[t], db'[t])
          /\ (writer[r].kind = "renew" => Generation(writer[r].before[t]) = Generation(db[t]))
          /\ db[t] \in Rows /\ db'[t] \in Rows
    BY <1>1, RowEffect
  <2>2. ~Follows(db'[t], db[t])
    BY <1>1, <2>1, FollowsRow
  <2>3. writer[r].kind \in {"edit", "renew"}
    BY <1>1, <2>1, <2>2 DEF Saves, Kinds
  <2> QED
    BY <2>1, <2>3
<1>2. IInv /\ [Next]_vars =>
        [\A t \in Tokens : db[t] # Absent /\ db'[t] # Absent /\ Generation(db'[t]) # Generation(db[t]) =>
           \E r \in Replicas :
             /\ writer[r].pc = "commit" /\ writer'[r].pc # "commit" /\ t \in writer[r].keys
             /\ \/ writer[r].kind = "edit"
                \/ writer[r].kind = "renew" /\ Generation(writer[r].before[t]) = Generation(db[t])]_vars
  BY <1>1
<1> QED
  BY <1>2, PoolInvariant, PTL DEF Spec, CredentialsMove

-----------------------------------------------------------------------------
(* Sums over the replicas, as cardinalities.                               *)

Units(f, S) == UNION {{q} \X (1..f[q]) : q \in S}
Sum(f)      == Cardinality(Units(f, Replicas))

LEMMA UnitsFinite ==
  ASSUME NEW f \in [Replicas -> Nat], NEW S \in SUBSET Replicas
  PROVE  IsFiniteSet(Units(f, S))
<1> DEFINE piece  == [q \in S |-> {q} \X (1..f[q])]
           pieces == {piece[q] : q \in S}
<1>1. IsFiniteSet(S)
  BY PoolAssumption, FS_Subset
<1>2. piece \in Surjection(S, pieces)
  BY DEF Surjection
<1>3. IsFiniteSet(pieces)
  <2> HIDE DEF pieces, piece
  <2> QED
    BY <1>1, <1>2, FS_Surjection
<1>4. ASSUME NEW p \in pieces PROVE IsFiniteSet(p)
  <2>1. PICK q \in S : p = {q} \X (1..f[q])
    OBVIOUS
  <2>2. f[q] \in Nat
    OBVIOUS
  <2>3. IsFiniteSet({q})
    BY FS_Singleton
  <2>4. IsFiniteSet(1..f[q])
    BY <2>2, FS_Interval
  <2> QED
    BY <2>1, <2>3, <2>4, FS_Product
<1>5. Units(f, S) = UNION pieces
  BY DEF Units
<1> QED
  BY <1>3, <1>4, <1>5, FS_UNION

\* One replica's part of a sum.
LEMMA SumSplit ==
  ASSUME NEW f \in [Replicas -> Nat], NEW r \in Replicas
  PROVE  /\ Cardinality(Units(f, Replicas \ {r})) \in Nat
         /\ Sum(f) = Cardinality(Units(f, Replicas \ {r})) + f[r]
<1> DEFINE rest == Units(f, Replicas \ {r})
           own  == {r} \X (1..f[r])
<1>1. f[r] \in Nat
  OBVIOUS
<1>2. IsFiniteSet(rest)
  BY UnitsFinite
<1>3. IsFiniteSet({r}) /\ Cardinality({r}) = 1
  BY FS_Singleton
<1>4. IsFiniteSet(1..f[r]) /\ Cardinality(1..f[r]) = f[r]
  BY <1>1, FS_Interval
<1>5. IsFiniteSet(own) /\ Cardinality(own) = Cardinality({r}) * Cardinality(1..f[r])
  BY <1>3, <1>4, FS_Product
<1>6. Cardinality(own) = f[r]
  BY <1>1, <1>3, <1>4, <1>5
<1>7. Units(f, Replicas) = rest \cup own
  BY DEF Units
<1>8. rest \cap own = {}
  BY DEF Units
<1>9. Cardinality(rest) \in Nat
  BY <1>2, FS_CardinalityType
<1> HIDE DEF rest, own
<1>10. Cardinality(rest \cup own) = Cardinality(rest) + Cardinality(own) - Cardinality(rest \cap own)
  BY <1>2, <1>5, FS_Union
<1>11. Cardinality(rest \cap own) = 0
  BY <1>8, FS_EmptySet
<1> QED
  BY <1>1, <1>6, <1>7, <1>9, <1>10, <1>11 DEF Sum, rest

\* A sum moves by what one of its parts does.
LEMMA SumMove ==
  ASSUME NEW f \in [Replicas -> Nat], NEW g \in [Replicas -> Nat], NEW r \in Replicas,
         \A q \in Replicas : q # r => g[q] = f[q]
  PROVE  Sum(f) \in Nat /\ f[r] <= Sum(f) /\ Sum(g) - g[r] = Sum(f) - f[r]
<1>1. f[r] \in Nat /\ g[r] \in Nat
  OBVIOUS
<1>2. Units(f, Replicas \ {r}) = Units(g, Replicas \ {r})
  BY DEF Units
<1>3. PICK n \in Nat : n = Cardinality(Units(f, Replicas \ {r}))
  BY SumSplit
<1>4. Sum(f) = n + f[r] /\ Sum(g) = n + g[r]
  BY <1>2, <1>3, SumSplit
<1> QED
  BY <1>1, <1>3, <1>4

LEMMA SumZero ==
  ASSUME NEW f, \A q \in Replicas : f[q] = 0
  PROVE  Sum(f) = 0
<1>1. 1..0 = {}
  OBVIOUS
<1>2. Units(f, Replicas) = {}
  BY <1>1 DEF Units
<1> QED
  BY <1>2, FS_EmptySet DEF Sum

-----------------------------------------------------------------------------
(* Image results are counted once.                                         *)

\* What a save of w adds to the row of t, which was b when it began.
Intended(w, b, t) ==
  IF w.intent[t].used > b.used THEN w.intent[t].used - b.used ELSE 0

\* The results that are in a view, with the save w in progress, and may still be
\* added to the stored row: those of the save until it is written, and those
\* since it began.
Gain(w, l, b, t) ==
  IF w.pc = "idle" \/ t \notin w.keys THEN l.used - b.used
  ELSE IF w.pc = "commit" THEN l.used - w.before[t].used + Intended(w, b, t)
  ELSE l.used - w.before[t].used

Unsaved(r, t) == Gain(writer[r], live[r][t], base[r][t], t)
Gains(t)      == [r \in Replicas |-> Unsaved(r, t)]

\* No row that anyone takes for stored has counted more than that.
Ceiling(t) == done[t] - Sum(Gains(t))

\* The rows that a replica takes for stored, or will: those it knows, those it
\* has loaded, those its save expects to find or publishes, and receipts.
Below(b, x, w, j, t, c) ==
  /\ b[t].used <= c /\ x.loaded[t].used <= c /\ w.baseline[t].used <= c
  /\ (w.pc = "publish" \/ t \notin w.keys => w.desired[t].used <= c)
  /\ (t \in DOMAIN j => j[t].row.used <= c)

\* A save adds what it was to add, whatever it was merged with.
Adds(w, b, t) ==
  w.pc = "commit" /\ t \in w.keys =>
    w.desired[t].used <= w.baseline[t].used + Intended(w, b, t)

Counting ==
  \A t \in Tokens :
    /\ db[t].used <= Ceiling(t)
    /\ \A r \in Replicas :
         /\ Below(base[r], reader[r], writer[r], journal[r], t, Ceiling(t))
         /\ Adds(writer[r], base[r][t], t)
         /\ live[r][t].used <= done[t]

\* What a step of r has to show.
Steady(r, t) ==
  LET more == (done'[t] - Unsaved(r, t)') - (done[t] - Unsaved(r, t))
  IN /\ 0 <= more /\ done[t] <= done'[t]
     /\ db'[t].used <= Ceiling(t) + more
     /\ Below(base'[r], reader'[r], writer'[r], journal'[r], t, Ceiling(t) + more)
     /\ Adds(writer'[r], base'[r][t], t)
     /\ live'[r][t].used <= done'[t]

LEMMA GainNat ==
  ASSUME NEW w \in Writer, NEW l \in Rows, NEW b \in Rows, NEW t \in Tokens, Follows(l, b),
         w.pc # "idle" /\ t \in w.keys => Follows(l, w.before[t])
  PROVE  Gain(w, l, b, t) \in Nat
<1>1. /\ l.used \in Nat /\ b.used \in Nat /\ l.used >= b.used
      /\ w.before[t].used \in Nat /\ w.intent[t].used \in Nat
      /\ (w.pc # "idle" /\ t \in w.keys => l.used >= w.before[t].used)
  BY WriterRows, RowIs DEF Follows
<1>2. Intended(w, b, t) \in Nat
  BY <1>1 DEF Intended
<1> QED
  BY <1>1, <1>2 DEF Gain

LEMMA GainsType == IInv => \A t \in Tokens : Gains(t) \in [Replicas -> Nat]
<1> SUFFICES ASSUME IInv, NEW t \in Tokens, NEW r \in Replicas PROVE Unsaved(r, t) \in Nat
  BY DEF Gains
<1>1. /\ writer[r] \in Writer /\ live[r][t] \in Rows /\ base[r][t] \in Rows
      /\ Follows(live[r][t], base[r][t])
  BY Locals DEF IInv, View
<1>2. writer[r].pc # "idle" /\ t \in writer[r].keys => Follows(live[r][t], writer[r].before[t])
  BY DEF IInv, Work
<1> QED
  BY <1>1, <1>2, GainNat DEF Unsaved

LEMMA GainsTypeNext == IInv' => \A t \in Tokens : Gains(t)' \in [Replicas -> Nat]
<1> SUFFICES ASSUME IInv', NEW t \in Tokens, NEW r \in Replicas PROVE Unsaved(r, t)' \in Nat
  BY DEF Gains
<1>1. /\ writer'[r] \in Writer /\ live'[r][t] \in Rows /\ base'[r][t] \in Rows
      /\ Follows(live'[r][t], base'[r][t])
  BY DEF IInv, View, Types, WriterType, ViewType, Pool, Rows
<1>2. writer'[r].pc # "idle" /\ t \in writer'[r].keys =>
        Follows(live'[r][t], writer'[r].before[t])
  BY DEF IInv, Work
<1> QED
  BY <1>1, <1>2, GainNat DEF Unsaved

\* The numbers of one replica and one account.
LEMMA Numbers ==
  ASSUME IInv, Counting, NEW r \in Replicas, NEW t \in Tokens
  PROVE  /\ Unsaved(r, t) \in Nat /\ Ceiling(t) \in Nat /\ done[t] \in Nat
         /\ Ceiling(t) + Unsaved(r, t) <= done[t]
         /\ live[r][t].used \in Nat /\ base[r][t].used \in Nat /\ db[t].used \in Nat
         /\ base[r][t].used <= live[r][t].used
         /\ writer[r].before[t].used \in Nat /\ writer[r].intent[t].used \in Nat
         /\ writer[r].baseline[t].used \in Nat /\ writer[r].desired[t].used \in Nat
         /\ (writer[r].pc # "idle" /\ t \in writer[r].keys =>
               writer[r].before[t].used <= live[r][t].used)
         /\ Intended(writer[r], base[r][t], t) \in Nat
<1>1. /\ Types /\ View(r) /\ Work(r)
  BY DEF IInv
<1>2. /\ live[r][t] \in Rows /\ base[r][t] \in Rows /\ db[t] \in Rows /\ writer[r] \in Writer
      /\ Follows(live[r][t], base[r][t])
  BY <1>1, Locals DEF View
<1>3. /\ writer[r].before[t] \in Rows /\ writer[r].intent[t] \in Rows
      /\ writer[r].baseline[t] \in Rows /\ writer[r].desired[t] \in Rows
  BY <1>2, WriterRows
<1>4. /\ live[r][t].used \in Nat /\ base[r][t].used \in Nat /\ db[t].used \in Nat
      /\ base[r][t].used <= live[r][t].used
      /\ writer[r].before[t].used \in Nat /\ writer[r].intent[t].used \in Nat
      /\ writer[r].baseline[t].used \in Nat /\ writer[r].desired[t].used \in Nat
  BY <1>2, <1>3, RowIs DEF Follows
<1>5. writer[r].pc # "idle" /\ t \in writer[r].keys =>
        writer[r].before[t].used <= live[r][t].used
  BY <1>1, <1>4 DEF Work, Follows
<1>6. done[t] \in Nat
  BY <1>1 DEF Types, HistoryType
<1>7. /\ Gains(t) \in [Replicas -> Nat] /\ Gains(t)[r] = Unsaved(r, t)
  BY GainsType DEF Gains
<1>8. Unsaved(r, t) \in Nat
  BY <1>7
<1>9. Sum(Gains(t)) \in Nat /\ Unsaved(r, t) <= Sum(Gains(t))
  BY <1>7, SumMove
<1>10. db[t].used <= Ceiling(t)
  BY DEF Counting
<1>11. Ceiling(t) \in Nat /\ Ceiling(t) + Unsaved(r, t) <= done[t]
  BY <1>4, <1>6, <1>8, <1>9, <1>10 DEF Ceiling
<1>12. Intended(writer[r], base[r][t], t) \in Nat
  BY <1>4 DEF Intended
<1> QED
  BY <1>4, <1>5, <1>6, <1>8, <1>11, <1>12

\* The rows that a replica takes for stored are rows.
LEMMA RowsAre ==
  ASSUME IInv, NEW r \in Replicas, NEW t \in Tokens
  PROVE  /\ base[r][t].used \in Nat /\ reader[r].loaded[t].used \in Nat
         /\ writer[r].baseline[t].used \in Nat /\ writer[r].desired[t].used \in Nat
         /\ (t \in DOMAIN journal[r] => journal[r][t].row.used \in Nat)
<1>1. /\ base[r][t] \in Rows /\ writer[r] \in Writer /\ reader[r] \in Reader
      /\ journal[r] \in Journal
  BY Locals DEF IInv
<1>2. reader[r].loaded[t] \in Rows
  BY <1>1 DEF Reader, Pool, Rows
<1>3. writer[r].baseline[t] \in Rows /\ writer[r].desired[t] \in Rows
  BY <1>1, WriterRows
<1>4. t \in DOMAIN journal[r] => journal[r][t].row \in Rows
  BY <1>1 DEF Journal, Entry
<1> QED
  BY <1>1, <1>2, <1>3, <1>4, RowIs

LEMMA RowsAreNext ==
  ASSUME IInv', NEW r \in Replicas, NEW t \in Tokens
  PROVE  /\ base'[r][t].used \in Nat /\ reader'[r].loaded[t].used \in Nat
         /\ writer'[r].baseline[t].used \in Nat /\ writer'[r].desired[t].used \in Nat
         /\ (t \in DOMAIN journal'[r] => journal'[r][t].row.used \in Nat)
<1>1. /\ base'[r] \in Pool /\ writer'[r] \in Writer /\ reader'[r] \in Reader
      /\ journal'[r] \in Journal
  BY DEF IInv, Types, ViewType, WriterType, ReaderType
<1>2. base'[r][t] \in Rows /\ reader'[r].loaded[t] \in Rows
  BY <1>1 DEF Reader, Pool, Rows
<1>3. writer'[r].baseline[t] \in Rows /\ writer'[r].desired[t] \in Rows
  BY <1>1, WriterRows
<1>4. t \in DOMAIN journal'[r] => journal'[r][t].row \in Rows
  BY <1>1 DEF Journal, Entry
<1> QED
  BY <1>2, <1>3, <1>4, RowIs

LEMMA SteadyFrame ==
  ASSUME IInv, IInv', Counting, NEW r \in Replicas, Others(r), \A t \in Tokens : Steady(r, t)
  PROVE  Counting'
<1> SUFFICES ASSUME NEW t \in Tokens
             PROVE  /\ db'[t].used <= Ceiling(t)'
                    /\ \A q \in Replicas :
                         /\ Below(base'[q], reader'[q], writer'[q], journal'[q], t, Ceiling(t)')
                         /\ Adds(writer'[q], base'[q][t], t)
                         /\ live'[q][t].used <= done'[t]
  BY DEF Counting
<1>1. PICK more \in Int : more = (done'[t] - Unsaved(r, t)') - (done[t] - Unsaved(r, t))
  <2>1. done[t] \in Nat /\ done'[t] \in Nat
    BY DEF IInv, Types, HistoryType
  <2>2. Unsaved(r, t) \in Nat /\ Unsaved(r, t)' \in Nat
    BY GainsType, GainsTypeNext DEF Gains
  <2> QED
    BY <2>1, <2>2
<1>2. Ceiling(t)' = Ceiling(t) + more
  <2>1. Gains(t) \in [Replicas -> Nat] /\ Gains(t)' \in [Replicas -> Nat]
    BY GainsType, GainsTypeNext
  <2>2. /\ Gains(t)[r] = Unsaved(r, t) /\ Gains(t)'[r] = Unsaved(r, t)'
        /\ \A q \in Replicas : q # r => Gains(t)'[q] = Gains(t)[q]
    BY DEF Gains, Unsaved, Others
  <2>3. PICK f, g : f = Gains(t) /\ g = Gains(t)'
    OBVIOUS
  <2>4. Sum(f) \in Nat /\ Sum(g) - g[r] = Sum(f) - f[r] /\ Sum(g) \in Nat
    BY <2>1, <2>2, <2>3, SumMove
  <2>5. done[t] \in Nat /\ done'[t] \in Nat /\ f[r] \in Nat /\ g[r] \in Nat
    BY <2>1, <2>3 DEF IInv, Types, HistoryType
  <2>6. Ceiling(t) = done[t] - Sum(f) /\ Ceiling(t)' = done'[t] - Sum(g)
    BY <2>3 DEF Ceiling
  <2> QED
    BY <1>1, <2>2, <2>3, <2>4, <2>5, <2>6
<1>3. /\ 0 <= more /\ done[t] <= done'[t] /\ db'[t].used <= Ceiling(t) + more
      /\ Below(base'[r], reader'[r], writer'[r], journal'[r], t, Ceiling(t) + more)
      /\ Adds(writer'[r], base'[r][t], t) /\ live'[r][t].used <= done'[t]
  BY <1>1 DEF Steady
<1>4. ASSUME NEW q \in Replicas, q # r
      PROVE  /\ Below(base'[q], reader'[q], writer'[q], journal'[q], t, Ceiling(t) + more)
             /\ Adds(writer'[q], base'[q][t], t) /\ live'[q][t].used <= done'[t]
  <2>1. /\ live'[q] = live[q] /\ base'[q] = base[q]
        /\ writer'[q] = writer[q] /\ reader'[q] = reader[q] /\ journal'[q] = journal[q]
    BY <1>4 DEF Others
  <2>2. /\ Below(base[q], reader[q], writer[q], journal[q], t, Ceiling(t))
        /\ Adds(writer[q], base[q][t], t) /\ live[q][t].used <= done[t]
    BY DEF Counting
  <2>3. Ceiling(t) \in Nat /\ live[q][t].used \in Nat /\ done[t] \in Nat
    BY Numbers
  <2>4. done'[t] \in Nat
    BY DEF IInv, Types, HistoryType
  <2>5. /\ base[q][t].used \in Nat /\ reader[q].loaded[t].used \in Nat
        /\ writer[q].baseline[t].used \in Nat /\ writer[q].desired[t].used \in Nat
        /\ (t \in DOMAIN journal[q] => journal[q][t].row.used \in Nat)
    BY RowsAre
  <2> QED
    BY <1>3, <2>1, <2>2, <2>3, <2>4, <2>5 DEF Below
<1> QED
  BY <1>2, <1>3, <1>4

-----------------------------------------------------------------------------
(* What merges add, and what they leave in a view.                         *)

LEMMA MergeAdds ==
  ASSUME NEW b \in Rows, NEW l \in Rows, NEW m \in Rows
  PROVE  Merge(b, l, m).used <= m.used + (IF l.used > b.used THEN l.used - b.used ELSE 0)
<1>1. b.used \in Nat /\ l.used \in Nat /\ m.used \in Nat /\ Absent.used = 0
      /\ (b = Absent => b.used = 0) /\ (m = Absent => m.used = 0)
  BY RowIs DEF Absent
<1>2. CASE l = b
  BY <1>1, <1>2 DEF Merge
<1>3. CASE l # b /\ l = Absent
  BY <1>1, <1>3 DEF Merge
<1>4. CASE l # Absent /\ b = Absent
  BY <1>1, <1>4 DEF Merge
<1>5. CASE l # b /\ l # Absent /\ b # Absent
  <2>1. MergeFields(b, l, m).used =
          IF m.used + l.used - b.used < 0 THEN 0 ELSE m.used + l.used - b.used
    BY DEF MergeFields
  <2>2. Merge(b, l, m) = IF m = Absent THEN Absent ELSE MergeFields(b, l, m)
    BY <1>5 DEF Merge
  <2> QED
    BY <1>1, <2>1, <2>2
<1> QED
  BY <1>2, <1>3, <1>4, <1>5

LEMMA ShownAdds ==
  ASSUME NEW outcome, NEW before \in Rows, NEW now \in Rows, NEW row \in Rows, Follows(now, before)
  PROVE  Shown(outcome, before, now, row).used <= row.used + now.used - before.used
<1>1. /\ before.used \in Nat /\ now.used \in Nat /\ row.used \in Nat
      /\ now.used >= before.used
  BY RowIs DEF Follows
<1>2. CASE Shown(outcome, before, now, row) = row
  BY <1>1, <1>2
<1>3. CASE Shown(outcome, before, now, row) # row
  <2>1. /\ row # Absent
        /\ Shown(outcome, before, now, row) = [row EXCEPT !.used = MergeFields(before, now, row).used]
    BY <1>3 DEF Shown
  <2>2. row \in Row
    BY <2>1, RowIs
  <2>3. Shown(outcome, before, now, row).used = MergeFields(before, now, row).used
    BY <2>1, <2>2 DEF Row
  <2>4. MergeFields(before, now, row).used = row.used + now.used - before.used
    BY <1>1 DEF MergeFields
  <2> QED
    BY <1>1, <2>3, <2>4
<1> QED
  BY <1>2, <1>3

LEMMA RefreshedAdds ==
  ASSUME NEW b \in Rows, NEW l \in Rows, NEW m \in Rows, Follows(l, b)
  PROVE  Refreshed(b, l, m).used <= m.used + l.used - b.used
<1>1. b.used \in Nat /\ l.used \in Nat /\ m.used \in Nat /\ l.used >= b.used
  BY RowIs DEF Follows
<1>2. CASE Refreshed(b, l, m) = m
  BY <1>1, <1>2
<1>3. CASE Refreshed(b, l, m) # m
  <2> DEFINE known == [f \in DOMAIN b |-> IF m[f] = l[f] THEN l[f] ELSE b[f]]
  <2>1. b # Absent /\ Refreshed(b, l, m) = MergeFields(known, l, m)
    BY <1>3 DEF Refreshed
  <2>2. "used" \in DOMAIN b
    BY <2>1, RowIs DEF Row
  <2>3. known.used = IF m.used = l.used THEN l.used ELSE b.used
    BY <2>2
  <2> HIDE DEF known
  <2>4. MergeFields(known, l, m).used =
          IF m.used + l.used - known.used < 0 THEN 0 ELSE m.used + l.used - known.used
    BY DEF MergeFields
  <2> QED
    BY <1>1, <2>1, <2>3, <2>4
<1> QED
  BY <1>2, <1>3

-----------------------------------------------------------------------------
(* The steps.                                                              *)

\* A step that changes nothing of the account.
LEMMA SteadyIdle ==
  ASSUME IInv, Counting, NEW r \in Replicas, NEW t \in Tokens,
         db'[t] = db[t], done'[t] = done[t], live'[r][t] = live[r][t], base'[r] = base[r],
         writer'[r] = writer[r],
         reader'[r].loaded[t].used <= Ceiling(t),
         t \in DOMAIN journal'[r] => journal'[r][t].row.used <= Ceiling(t)
  PROVE  Steady(r, t)
<1>1. /\ Unsaved(r, t) \in Nat /\ Ceiling(t) \in Nat /\ done[t] \in Nat
  BY Numbers
<1>2. Unsaved(r, t)' = Unsaved(r, t)
  BY DEF Unsaved
<1>3. PICK more \in Int : more = (done'[t] - Unsaved(r, t)') - (done[t] - Unsaved(r, t)) /\ more = 0
  BY <1>1, <1>2
<1>4. Ceiling(t) + more = Ceiling(t)
  BY <1>1, <1>3
<1>5. /\ db[t].used <= Ceiling(t) /\ live[r][t].used <= done[t]
      /\ Below(base[r], reader[r], writer[r], journal[r], t, Ceiling(t))
      /\ Adds(writer[r], base[r][t], t)
  BY DEF Counting
<1>6. Below(base'[r], reader'[r], writer'[r], journal'[r], t, Ceiling(t) + more)
  BY <1>4, <1>5 DEF Below
<1> QED
  BY <1>1, <1>3, <1>4, <1>5, <1>6 DEF Steady

\* A step that lets no result become unsaved that was not, and stores none.
LEMMA SteadyLess ==
  ASSUME IInv, Counting, NEW r \in Replicas, NEW t \in Tokens,
         db'[t] = db[t], done'[t] = done[t],
         Unsaved(r, t)' <= Unsaved(r, t), live'[r][t].used <= done[t],
         IInv', Below(base'[r], reader'[r], writer'[r], journal'[r], t, Ceiling(t)),
         Adds(writer'[r], base'[r][t], t)
  PROVE  Steady(r, t)
<1>1. /\ Unsaved(r, t) \in Nat /\ Ceiling(t) \in Nat /\ done[t] \in Nat /\ db[t].used \in Nat
  BY Numbers
<1>2. PICK more \in Nat : more = (done'[t] - Unsaved(r, t)') - (done[t] - Unsaved(r, t))
  <2>1. Unsaved(r, t)' \in Nat
    BY GainsTypeNext DEF Gains
  <2> QED
    BY <1>1, <2>1
<1>3. db[t].used <= Ceiling(t)
  BY DEF Counting
<1>4. Below(base'[r], reader'[r], writer'[r], journal'[r], t, Ceiling(t) + more)
  <2>1. /\ base'[r][t].used \in Nat /\ reader'[r].loaded[t].used \in Nat
        /\ writer'[r].baseline[t].used \in Nat /\ writer'[r].desired[t].used \in Nat
        /\ (t \in DOMAIN journal'[r] => journal'[r][t].row.used \in Nat)
    BY RowsAreNext
  <2> QED
    BY <1>1, <1>2, <2>1 DEF Below
<1> QED
  BY <1>1, <1>2, <1>3, <1>4 DEF Steady

LEMMA CompleteSteady ==
  ASSUME IInv, IInv', Counting, NEW r \in Replicas, NEW k \in Tokens, Complete(r, k),
         NEW t \in Tokens
  PROVE  Steady(r, t)
<1>1. /\ UNCHANGED <<stored, base, rev, writer, reading, asked>>
      /\ live' = [live EXCEPT ![r][k].used = live[r][k].used + 1]
      /\ done' = [done EXCEPT ![k] = done[k] + 1]
      /\ live[r][k] # Absent
  BY DEF Complete
<1>2. /\ Types /\ live \in [Replicas -> Pool] /\ done \in [Tokens -> Nat]
  BY DEF IInv, Types, ViewType, HistoryType
<1>3. /\ db[t].used <= Ceiling(t) /\ live[r][t].used <= done[t]
      /\ Below(base[r], reader[r], writer[r], journal[r], t, Ceiling(t))
      /\ Adds(writer[r], base[r][t], t)
  BY DEF Counting
<1>4. CASE t # k
  <2>1. live'[r][t] = live[r][t] /\ done'[t] = done[t]
    BY <1>1, <1>2, <1>4 DEF Pool
  <2> QED
    BY <1>1, <1>3, <2>1, SteadyIdle DEF Below, stored, reading
<1>5. CASE t = k
  <2>1. live[r][t] \in Row /\ live[r] \in Pool
    BY <1>1, <1>2, <1>5, Locals, RowIs
  <2>2. live'[r][t].used = live[r][t].used + 1 /\ done'[t] = done[t] + 1
    BY <1>1, <1>2, <1>5, <2>1 DEF Pool, Row
  <2>3. /\ Unsaved(r, t) \in Nat /\ Ceiling(t) \in Nat /\ done[t] \in Nat
        /\ live[r][t].used \in Nat /\ base[r][t].used \in Nat
        /\ writer[r].before[t].used \in Nat /\ Intended(writer[r], base[r][t], t) \in Nat
    BY Numbers
  <2>4. Unsaved(r, t)' = Unsaved(r, t) + 1
    BY <1>1, <2>2, <2>3 DEF Unsaved, Gain
  <2>5. PICK more \in Int : more = (done'[t] - Unsaved(r, t)') - (done[t] - Unsaved(r, t)) /\ more = 0
    BY <2>2, <2>3, <2>4
  <2>6. Ceiling(t) + more = Ceiling(t)
    BY <2>3, <2>5
  <2>7. Below(base'[r], reader'[r], writer'[r], journal'[r], t, Ceiling(t) + more)
        /\ Adds(writer'[r], base'[r][t], t)
    BY <1>1, <1>3, <2>6 DEF Below, reading
  <2>8. live'[r][t].used <= done'[t] /\ done[t] <= done'[t]
    BY <1>3, <2>2, <2>3
  <2> QED
    BY <1>1, <1>3, <2>5, <2>6, <2>7, <2>8 DEF Steady, stored
<1> QED
  BY <1>4, <1>5

\* What is staged is not ahead of the view.
LEMMA SaveSteady ==
  ASSUME IInv, IInv', Counting, NEW r \in Replicas, NEW kind \in Kinds,
         NEW keys \in SUBSET Tokens, NEW staged \in Pool, Save(r, kind, keys, staged),
         \A k \in keys : staged[k].used <= live[r][k].used,
         NEW t \in Tokens
  PROVE  Steady(r, t)
<1>0. Types /\ live[r] \in Pool /\ base[r] \in Pool /\ writer \in [Replicas -> Writer]
  BY Locals DEF IInv, Types, WriterType
<1> DEFINE rec == [AtRest EXCEPT !.pc = "commit", !.kind = kind, !.keys = keys,
                      !.before = Only(keys, live[r]), !.baseline = Only(keys, base[r]),
                      !.intent = Only(keys, staged), !.desired = Only(keys, staged)]
<1>1. /\ writer[r].pc = "idle" /\ writer' = [writer EXCEPT ![r] = rec]
      /\ UNCHANGED <<stored, live, base, rev, reading, done>>
  BY DEF Save
<1>2. /\ rec.pc = "commit" /\ rec.keys = keys /\ rec.before = Only(keys, live[r])
      /\ rec.baseline = Only(keys, base[r])
      /\ rec.intent = Only(keys, staged) /\ rec.desired = Only(keys, staged)
  BY DEF AtRest
<1> HIDE DEF rec
<1>3. writer'[r] = rec
  BY <1>0, <1>1
<1>4. /\ Unsaved(r, t) \in Nat /\ Ceiling(t) \in Nat /\ done[t] \in Nat
      /\ live[r][t].used \in Nat /\ base[r][t].used \in Nat
      /\ base[r][t].used <= live[r][t].used
  BY Numbers
<1>5. Unsaved(r, t) = live[r][t].used - base[r][t].used
  BY <1>1 DEF Unsaved, Gain
<1>6. Absent.used = 0
  BY DEF Absent
<1>7. staged[t].used \in Nat
  BY RowIs DEF Pool, Rows
<1>8. CASE t \in keys
  <2>1. /\ rec.before[t] = live[r][t] /\ rec.baseline[t] = base[r][t]
        /\ rec.intent[t] = staged[t] /\ rec.desired[t] = staged[t]
    BY <1>2, <1>8 DEF Only
  <2>2. Intended(rec, base[r][t], t) =
          IF staged[t].used > base[r][t].used THEN staged[t].used - base[r][t].used ELSE 0
    BY <2>1 DEF Intended
  <2>3. Unsaved(r, t)' = live[r][t].used - live[r][t].used + Intended(rec, base[r][t], t)
    BY <1>1, <1>2, <1>3, <1>8, <2>1 DEF Unsaved, Gain
  <2>4. staged[t].used <= live[r][t].used
    BY <1>8
  <2>5. Unsaved(r, t)' <= Unsaved(r, t)
    BY <1>4, <1>5, <1>7, <2>2, <2>3, <2>4
  <2>6. Adds(writer'[r], base'[r][t], t)
    BY <1>1, <1>3, <1>4, <1>7, <2>1, <2>2 DEF Adds
  <2>7. Below(base'[r], reader'[r], writer'[r], journal'[r], t, Ceiling(t))
    BY <1>1, <1>2, <1>3, <1>8, <2>1 DEF Counting, Below, reading
  <2> QED
    BY <1>1, <2>5, <2>6, <2>7, SteadyLess DEF Counting, stored
<1>9. CASE t \notin keys
  <2>1. rec.baseline[t] = Absent /\ rec.desired[t] = Absent
    BY <1>2, <1>9 DEF Only
  <2>2. Unsaved(r, t)' = Unsaved(r, t)
    BY <1>1, <1>2, <1>3, <1>5, <1>9 DEF Unsaved, Gain
  <2>3. Adds(writer'[r], base'[r][t], t)
    BY <1>2, <1>3, <1>9 DEF Adds
  <2>4. Below(base'[r], reader'[r], writer'[r], journal'[r], t, Ceiling(t))
    BY <1>1, <1>3, <1>4, <1>6, <2>1 DEF Counting, Below, reading
  <2> QED
    BY <1>1, <1>4, <2>2, <2>3, <2>4, SteadyLess DEF Counting, stored
<1> QED
  BY <1>8, <1>9

\* The steps of a save in progress that write nothing.
LEMMA WriterSteady ==
  ASSUME IInv, IInv', Counting, NEW r \in Replicas, NEW rec \in Writer, NEW t \in Tokens,
         writer' = [writer EXCEPT ![r] = rec],
         UNCHANGED <<stored, live, base, reading, done>>,
         writer[r].pc # "idle", rec.pc # "idle", rec.pc = "commit" => writer[r].pc = "commit",
         rec.keys = writer[r].keys, rec.before = writer[r].before, rec.intent = writer[r].intent,
         rec.baseline[t].used <= Ceiling(t),
         rec.pc = "publish" \/ t \notin rec.keys => rec.desired[t].used <= Ceiling(t),
         Adds(rec, base[r][t], t)
  PROVE  Steady(r, t)
<1>1. writer'[r] = rec
  BY DEF IInv, Types, WriterType
<1>2. /\ Unsaved(r, t) \in Nat
      /\ live[r][t].used \in Nat /\ base[r][t].used \in Nat
      /\ writer[r].before[t].used \in Nat /\ Intended(writer[r], base[r][t], t) \in Nat
  BY Numbers
<1>3. Intended(rec, base[r][t], t) = Intended(writer[r], base[r][t], t)
  BY DEF Intended
<1>4. Unsaved(r, t)' <= Unsaved(r, t)
  BY <1>1, <1>2, <1>3 DEF Unsaved, Gain
<1>5. Below(base'[r], reader'[r], writer'[r], journal'[r], t, Ceiling(t))
  BY <1>1 DEF Counting, Below, reading
<1>6. Adds(writer'[r], base'[r][t], t)
  BY <1>1
<1> QED
  BY <1>4, <1>5, <1>6, SteadyLess DEF Counting, stored

\* A write adds to the stored row what the save is ahead of it.
LEMMA WriteSteady ==
  ASSUME IInv, IInv', Counting, NEW r \in Replicas, NEW rec \in Writer, NEW t \in Tokens,
         writer[r].pc = "commit", Write(writer[r]),
         writer' = [writer EXCEPT ![r] = rec], UNCHANGED <<live, base, reading, done>>,
         rec.pc \in {"publish", "failed"},
         rec.keys = writer[r].keys, rec.before = writer[r].before, rec.intent = writer[r].intent,
         rec.baseline = writer[r].baseline, rec.desired = writer[r].desired
  PROVE  Steady(r, t)
<1> DEFINE w == writer[r]
           n == Intended(w, base[r][t], t)
<1>1. writer'[r] = rec
  BY DEF IInv, Types, WriterType
<1>2. /\ Unsaved(r, t) \in Nat /\ Ceiling(t) \in Nat /\ done[t] \in Nat
      /\ live[r][t].used \in Nat /\ base[r][t].used \in Nat /\ db[t].used \in Nat
      /\ w.before[t].used \in Nat /\ n \in Nat
      /\ w.baseline[t].used \in Nat /\ w.desired[t].used \in Nat
  BY Numbers
<1>3. /\ db[t].used <= Ceiling(t) /\ live[r][t].used <= done[t]
      /\ Below(base[r], reader[r], w, journal[r], t, Ceiling(t))
      /\ Adds(w, base[r][t], t)
  BY DEF Counting
<1>4. /\ Matches(w)
      /\ db' = [k \in Tokens |-> IF k \in Changed(w) THEN w.desired[k] ELSE db[k]]
  BY DEF Write
<1>5. PICK more \in Int :
        /\ more = (done'[t] - Unsaved(r, t)') - (done[t] - Unsaved(r, t))
        /\ more = (IF t \in w.keys THEN n ELSE 0)
  <2>1. Unsaved(r, t)' = Unsaved(r, t) - (IF t \in w.keys THEN n ELSE 0)
    BY <1>1, <1>2 DEF Unsaved, Gain
  <2> HIDE DEF n
  <2>2. Unsaved(r, t)' \in Int
    BY <1>2, <2>1
  <2> QED
    BY <1>2, <2>1, <2>2
<1> HIDE DEF n
<1>6. db'[t].used <= Ceiling(t) + more
  <2>1. CASE t \in Changed(w)
    <3>1. t \in w.keys /\ db[t] = w.baseline[t] /\ db'[t] = w.desired[t]
      BY <1>4, <2>1 DEF Matches, Changed
    <3>2. w.desired[t].used <= w.baseline[t].used + n
      BY <1>3, <3>1 DEF Adds, n
    <3> QED
      BY <1>2, <1>3, <1>5, <3>1, <3>2
  <2>2. CASE t \notin Changed(w)
    BY <1>2, <1>3, <1>4, <1>5, <2>2
  <2> QED
    BY <2>1, <2>2
<1>7. w.desired[t].used <= Ceiling(t) + more
  <2>1. CASE t \in w.keys
    <3>1. w.desired[t].used <= w.baseline[t].used + n /\ w.baseline[t].used <= Ceiling(t)
      BY <1>3, <2>1 DEF Adds, Below, n
    <3> QED
      BY <1>2, <1>5, <2>1, <3>1
  <2>2. CASE t \notin w.keys
    BY <1>2, <1>3, <1>5, <2>2 DEF Below
  <2> QED
    BY <2>1, <2>2
<1>8. Below(base'[r], reader'[r], rec, journal'[r], t, Ceiling(t) + more)
  <2>1. /\ reader[r].loaded[t].used \in Nat
        /\ (t \in DOMAIN journal[r] => journal[r][t].row.used \in Nat)
    BY RowsAre
  <2>2. more \in Nat
    BY <1>2, <1>5
  <2> QED
    BY <1>2, <1>3, <1>7, <2>1, <2>2 DEF Below, reading
<1>9. Adds(rec, base'[r][t], t)
  BY DEF Adds
<1>10. 0 <= more
  BY <1>2, <1>5
<1> QED
  BY <1>1, <1>2, <1>3, <1>5, <1>6, <1>8, <1>9, <1>10 DEF Steady

LEMMA FlushSteady ==
  ASSUME IInv, IInv', Counting, NEW r \in Replicas, Flush(r), NEW t \in Tokens
  PROVE  Steady(r, t)
<1> DEFINE keys == {k \in queue[r] : live[r][k] # Absent}
<1>1. keys \in SUBSET Tokens /\ live[r] \in Pool /\ "flush" \in Kinds
  BY Locals DEF IInv, Kinds
<1>2. \A k \in keys : live[r][k].used <= live[r][k].used
  <2>1. \A k \in Tokens : live[r][k].used \in Nat
    BY Numbers
  <2> QED
    BY <1>1, <2>1
<1>3. CASE Save(r, "flush", keys, live[r])
  <2> HIDE DEF keys
  <2> QED
    BY <1>1, <1>2, <1>3, SaveSteady
<1>4. CASE UNCHANGED <<stored, live, base, rev, reading, done, events, writer>>
  BY <1>4, SteadyIdle DEF stored, reading, Counting, Below
<1> QED
  BY <1>3, <1>4 DEF Flush

\* What an operator, a renewal or an import stages has the results of the view.
LEMMA ChangeSteady ==
  ASSUME IInv, IInv', Counting, NEW r \in Replicas, NEW k \in Tokens,
         Edit(r, k) \/ Renew(r, k) \/ Delete(r, k) \/ Import(r, k), NEW t \in Tokens
  PROVE  Steady(r, t)
<1>1. live[r] \in Pool /\ live[r][k].used \in Nat /\ issued \in Nat
  BY Locals, Numbers DEF IInv, Types, HistoryType
<1>2. \A kind \in Kinds, row \in Rows :
        /\ Save(r, kind, {k}, [live[r] EXCEPT ![k] = row]) /\ row.used <= live[r][k].used
        => Steady(r, t)
  <2> SUFFICES ASSUME NEW kind \in Kinds, NEW row \in Rows,
                      Save(r, kind, {k}, [live[r] EXCEPT ![k] = row]),
                      row.used <= live[r][k].used
               PROVE  Steady(r, t)
    OBVIOUS
  <2> DEFINE staged == [live[r] EXCEPT ![k] = row]
  <2>1. staged \in Pool /\ staged[k] = row
    BY <1>1 DEF Pool, Rows
  <2> HIDE DEF staged
  <2>2. {k} \in SUBSET Tokens /\ \A j \in {k} : staged[j].used <= live[r][j].used
    BY <2>1
  <2>3. Save(r, kind, {k}, staged)
    BY DEF staged
  <2> QED
    BY <2>1, <2>2, <2>3, SaveSteady
<1>3. CASE Edit(r, k)
  <2> DEFINE row == [live[r][k] EXCEPT !.rt = issued + 1]
  <2>1. live[r][k] \in Row /\ "edit" \in Kinds
    BY <1>3, Locals, RowIs DEF Edit, IInv, Kinds
  <2>2. row \in Rows /\ row.used = live[r][k].used
    BY <1>1, <2>1 DEF Row, Rows
  <2>3. Save(r, "edit", {k}, [live[r] EXCEPT ![k] = row])
    BY <1>3 DEF Edit
  <2> HIDE DEF row
  <2> QED
    BY <1>1, <1>2, <2>1, <2>2, <2>3
<1>4. CASE Renew(r, k)
  <2>1. PICK a \in {live[r][k].at, issued + 1} :
          Save(r, "renew", {k}, [live[r] EXCEPT ![k].rt = issued + 1, ![k].at = a])
    BY <1>4 DEF Renew
  <2> DEFINE row == [live[r][k] EXCEPT !.rt = issued + 1, !.at = a]
  <2>2. live[r][k] \in Row /\ "renew" \in Kinds
    BY <1>4, Locals, RowIs DEF Renew, IInv, Kinds
  <2>3. row \in Rows /\ row.used = live[r][k].used
    <3>1. a \in Nat \ {0} /\ issued + 1 \in Nat \ {0}
      BY <1>1, <2>1, <2>2 DEF Row
    <3> QED
      BY <2>2, <3>1 DEF Row, Rows
  <2>4. [live[r] EXCEPT ![k].rt = issued + 1, ![k].at = a] = [live[r] EXCEPT ![k] = row]
    BY <1>1 DEF Pool
  <2>5. Save(r, "renew", {k}, [live[r] EXCEPT ![k] = row])
    BY <2>1, <2>4
  <2> HIDE DEF row
  <2> QED
    BY <1>1, <1>2, <2>2, <2>3, <2>5
<1>5. CASE Delete(r, k)
  <2>1. Save(r, "delete", {k}, [live[r] EXCEPT ![k] = Absent])
    BY <1>5 DEF Delete
  <2>2. Absent \in Rows /\ Absent.used <= live[r][k].used /\ "delete" \in Kinds
    BY <1>1 DEF Rows, Absent, Kinds
  <2> QED
    BY <1>2, <2>1, <2>2
<1>6. CASE Import(r, k)
  <2>1. Save(r, "import", {k}, [live[r] EXCEPT ![k] = New(issued + 1)])
    BY <1>6 DEF Import
  <2>2. New(issued + 1) \in Rows /\ New(issued + 1).used <= live[r][k].used /\ "import" \in Kinds
    BY <1>1, RowMade DEF Rows, New, Kinds
  <2> QED
    BY <1>2, <2>1, <2>2
<1> QED
  BY <1>3, <1>4, <1>5, <1>6

LEMMA CommitSteady ==
  ASSUME IInv, IInv', Counting, NEW r \in Replicas, Commit(r) \/ LoseConnection(r),
         NEW t \in Tokens
  PROVE  Steady(r, t)
<1> DEFINE w == writer[r]
<1>1. writer \in [Replicas -> Writer] /\ writer' \in [Replicas -> Writer] /\ w \in Writer
  BY DEF IInv, Types, WriterType
<1>2. UNCHANGED <<live, base, reading, done>> /\ w.pc = "commit"
  BY DEF Commit, LoseConnection
<1>3. PICK rec \in Writer :
        /\ writer' = [writer EXCEPT ![r] = rec] /\ rec.pc \in {"publish", "failed"}
        /\ rec.keys = w.keys /\ rec.before = w.before /\ rec.intent = w.intent
        /\ rec.baseline = w.baseline /\ rec.desired = w.desired
        /\ (rec.pc = "publish" => Write(w))
        /\ (UNCHANGED stored \/ Write(w))
  <2>1. CASE Commit(r)
    <3>1. /\ Write(w)
          /\ writer' = [writer EXCEPT ![r].pc = "publish",
                          ![r].marks = Over([k \in Changed(w) |-> ver'], w.marks)]
      BY <2>1 DEF Commit
    <3>2. /\ writer'[r] \in Writer /\ writer' = [writer EXCEPT ![r] = writer'[r]]
          /\ writer'[r].pc = "publish" /\ writer'[r].keys = w.keys
          /\ writer'[r].before = w.before /\ writer'[r].intent = w.intent
          /\ writer'[r].baseline = w.baseline /\ writer'[r].desired = w.desired
      BY <1>1, <3>1 DEF Writer
    <3> QED
      BY <3>1, <3>2
  <2>2. CASE LoseConnection(r)
    <3>1. /\ UNCHANGED stored \/ Write(w)
          /\ writer' = [writer EXCEPT ![r].pc = "failed"]
      BY <2>2 DEF LoseConnection
    <3>2. /\ writer'[r] \in Writer /\ writer' = [writer EXCEPT ![r] = writer'[r]]
          /\ writer'[r].pc = "failed" /\ writer'[r].keys = w.keys
          /\ writer'[r].before = w.before /\ writer'[r].intent = w.intent
          /\ writer'[r].baseline = w.baseline /\ writer'[r].desired = w.desired
      BY <1>1, <3>1 DEF Writer
    <3> QED
      BY <3>1, <3>2
  <2> QED
    BY <2>1, <2>2
<1>4. CASE Write(w)
  BY <1>2, <1>3, <1>4, WriteSteady
<1>5. CASE UNCHANGED stored /\ ~Write(w)
  <2>1. rec.pc = "failed"
    BY <1>3, <1>5
  <2>2. Below(base[r], reader[r], w, journal[r], t, Ceiling(t))
    BY DEF Counting
  <2>3. rec.baseline[t].used <= Ceiling(t)
        /\ (t \notin rec.keys => rec.desired[t].used <= Ceiling(t))
    BY <1>3, <2>2 DEF Below
  <2>4. Adds(rec, base[r][t], t)
    BY <2>1 DEF Adds
  <2> QED
    BY <1>2, <1>3, <1>5, <2>1, <2>3, <2>4, WriterSteady
<1> QED
  BY <1>3, <1>4, <1>5

LEMMA GiveUpSteady ==
  ASSUME IInv, IInv', Counting, NEW r \in Replicas, GiveUp(r), NEW t \in Tokens
  PROVE  Steady(r, t)
<1> DEFINE w == writer[r]
<1>1. /\ writer \in [Replicas -> Writer] /\ writer' \in [Replicas -> Writer] /\ w \in Writer
      /\ w.keys \in SUBSET Tokens
  BY WriterRows DEF IInv, Types, WriterType
<1>2. /\ UNCHANGED <<stored, live, base, reading, done>> /\ w.pc = "commit"
      /\ writer' = [writer EXCEPT ![r].pc = "publish", ![r].outcome = "overtaken",
                                  ![r].desired = Only(w.keys, db),
                                  ![r].marks = [k \in w.keys |-> ver]]
  BY DEF GiveUp
<1>3. PICK rec \in Writer :
        /\ writer' = [writer EXCEPT ![r] = rec] /\ rec.pc = "publish"
        /\ rec.keys = w.keys /\ rec.before = w.before /\ rec.intent = w.intent
        /\ rec.baseline = w.baseline /\ rec.desired = Only(w.keys, db)
  <2>1. /\ writer'[r] \in Writer /\ writer' = [writer EXCEPT ![r] = writer'[r]]
        /\ writer'[r].pc = "publish" /\ writer'[r].keys = w.keys
        /\ writer'[r].before = w.before /\ writer'[r].intent = w.intent
        /\ writer'[r].baseline = w.baseline /\ writer'[r].desired = Only(w.keys, db)
    BY <1>1, <1>2 DEF Writer
  <2> QED
    BY <2>1
<1>4. rec.desired[t] = db[t] \/ rec.desired[t] = Absent
  BY <1>3 DEF Only
<1>5. rec.desired[t].used <= Ceiling(t) /\ rec.baseline[t].used <= Ceiling(t)
  <2>1. db[t].used <= Ceiling(t) /\ w.baseline[t].used <= Ceiling(t)
    BY DEF Counting, Below
  <2>2. Ceiling(t) \in Nat /\ Absent.used = 0
    BY Numbers DEF Absent
  <2> QED
    BY <1>3, <1>4, <2>1, <2>2
<1>6. Adds(rec, base[r][t], t)
  BY <1>3 DEF Adds
<1> QED
  BY <1>2, <1>3, <1>5, <1>6, WriterSteady

\* Merging again leaves what the save adds as it was.
LEMMA RemergeSteady ==
  ASSUME IInv, IInv', Counting, NEW r \in Replicas, Remerge(r), NEW t \in Tokens
  PROVE  Steady(r, t)
<1> DEFINE w      == writer[r]
           merged == Only(w.keys, [k \in Tokens |-> Merge(base[r][k], w.intent[k], db[k])])
           now    == Only(w.keys, db)
<1>1. /\ writer \in [Replicas -> Writer] /\ writer' \in [Replicas -> Writer] /\ w \in Writer
      /\ w.keys \in SUBSET Tokens
  BY WriterRows DEF IInv, Types, WriterType
<1>2. /\ UNCHANGED <<stored, live, base, reading, done>> /\ w.pc = "commit"
      /\ writer' = [writer EXCEPT ![r] =
           [w EXCEPT !.pc = IF w.tries + 1 = MaxAttempts THEN "failed"
                            ELSE IF merged = now THEN "publish" ELSE "commit",
                     !.tries = w.tries + 1,
                     !.marks = [k \in w.keys |-> ver],
                     !.baseline = now,
                     !.desired = merged]]
  BY DEF Remerge
<1>3. /\ merged[t] = (IF t \in w.keys THEN Merge(base[r][t], w.intent[t], db[t]) ELSE Absent)
      /\ now[t] = (IF t \in w.keys THEN db[t] ELSE Absent)
  BY DEF Only
<1> HIDE DEF merged, now
<1>4. PICK rec \in Writer :
        /\ writer' = [writer EXCEPT ![r] = rec]
        /\ rec.pc \in {"publish", "failed", "commit"} /\ (rec.pc = "publish" => merged = now)
        /\ rec.keys = w.keys /\ rec.before = w.before /\ rec.intent = w.intent
        /\ rec.baseline = now /\ rec.desired = merged
  <2>1. /\ writer'[r] \in Writer /\ writer' = [writer EXCEPT ![r] = writer'[r]]
        /\ writer'[r].pc = IF w.tries + 1 = MaxAttempts THEN "failed"
                           ELSE IF merged = now THEN "publish" ELSE "commit"
        /\ writer'[r].keys = w.keys
        /\ writer'[r].before = w.before /\ writer'[r].intent = w.intent
        /\ writer'[r].baseline = now /\ writer'[r].desired = merged
    BY <1>1, <1>2 DEF Writer
  <2> QED
    BY <2>1
<1>5. Ceiling(t) \in Nat /\ Absent.used = 0 /\ db[t].used <= Ceiling(t)
  BY Numbers DEF Absent, Counting
<1>6. now[t].used <= Ceiling(t)
  BY <1>3, <1>5
<1>7. rec.pc = "publish" \/ t \notin rec.keys => rec.desired[t].used <= Ceiling(t)
  BY <1>3, <1>4, <1>5, <1>6
<1>8. Adds(rec, base[r][t], t)
  <2>1. base[r][t] \in Rows /\ w.intent[t] \in Rows /\ db[t] \in Rows
    BY <1>1, Locals, WriterRows DEF IInv
  <2>2. Merge(base[r][t], w.intent[t], db[t]).used <=
          db[t].used + (IF w.intent[t].used > base[r][t].used
                        THEN w.intent[t].used - base[r][t].used ELSE 0)
    BY <2>1, MergeAdds
  <2> QED
    BY <1>3, <1>4, <2>2 DEF Adds, Intended
<1> QED
  BY <1>2, <1>4, <1>6, <1>7, <1>8, WriterSteady

LEMMA RecoverSteady ==
  ASSUME IInv, IInv', Counting, NEW r \in Replicas, Recover(r), NEW t \in Tokens
  PROVE  Steady(r, t)
<1> DEFINE w == writer[r]
<1>1. /\ writer \in [Replicas -> Writer] /\ writer' \in [Replicas -> Writer] /\ w \in Writer
      /\ w.keys \in SUBSET Tokens
  BY WriterRows DEF IInv, Types, WriterType
<1>2. UNCHANGED <<stored, live, base, reading, done>> /\ w.pc = "failed"
  BY DEF Recover
<1>3. PICK read \in BOOLEAN :
        writer' = [writer EXCEPT
             ![r].pc = "publish", ![r].outcome = "raised",
             ![r].marks = [k \in w.keys |-> IF read THEN ver ELSE Unordered],
             ![r].desired = Only(w.keys, IF read THEN Found(w, base[r]) ELSE base[r])]
  BY DEF Recover
<1> DEFINE rows == IF read THEN Found(w, base[r]) ELSE base[r]
<1>4. PICK rec \in Writer :
        /\ writer' = [writer EXCEPT ![r] = rec] /\ rec.pc = "publish"
        /\ rec.keys = w.keys /\ rec.before = w.before /\ rec.intent = w.intent
        /\ rec.baseline = w.baseline /\ rec.desired = Only(w.keys, rows)
  <2> HIDE DEF rows
  <2>0. writer' = [writer EXCEPT
             ![r].pc = "publish", ![r].outcome = "raised",
             ![r].marks = [k \in w.keys |-> IF read THEN ver ELSE Unordered],
             ![r].desired = Only(w.keys, rows)]
    BY <1>3 DEF rows
  <2>1. /\ writer'[r] \in Writer /\ writer' = [writer EXCEPT ![r] = writer'[r]]
        /\ writer'[r].pc = "publish" /\ writer'[r].keys = w.keys
        /\ writer'[r].before = w.before /\ writer'[r].intent = w.intent
        /\ writer'[r].baseline = w.baseline /\ writer'[r].desired = Only(w.keys, rows)
    BY <1>1, <2>0 DEF Writer
  <2> QED
    BY <2>1
<1>5. rows[t] = db[t] \/ rows[t] = Absent \/ rows[t] = base[r][t]
  BY DEF Found
<1> HIDE DEF rows
<1>6. rec.desired[t] = rows[t] \/ rec.desired[t] = Absent
  BY <1>4 DEF Only
<1>7. rec.desired[t].used <= Ceiling(t) /\ rec.baseline[t].used <= Ceiling(t)
  <2>1. /\ db[t].used <= Ceiling(t) /\ base[r][t].used <= Ceiling(t)
        /\ w.baseline[t].used <= Ceiling(t)
    BY DEF Counting, Below
  <2>2. Ceiling(t) \in Nat /\ Absent.used = 0
    BY Numbers DEF Absent
  <2> QED
    BY <1>4, <1>5, <1>6, <2>1, <2>2
<1>8. Adds(rec, base[r][t], t)
  BY <1>4 DEF Adds
<1> QED
  BY <1>2, <1>4, <1>7, <1>8, WriterSteady

\* What was left to add when the save was written is what the view keeps.
LEMMA PublishSteady ==
  ASSUME IInv, IInv', Counting, NEW r \in Replicas, Publish(r), NEW t \in Tokens
  PROVE  Steady(r, t)
<1> DEFINE w == writer[r]
           f == [k \in DOMAIN w.marks |-> [at |-> w.marks[k], row |-> w.desired[k]]]
<1>1. /\ w.pc = "publish"
      /\ journal' = IF reader[r].pc = "idle" THEN journal
                    ELSE [journal EXCEPT ![r] = Over(f, journal[r])]
      /\ live' = [live EXCEPT ![r] =
                   [k \in Tokens |-> IF k \in w.keys
                                     THEN Shown(w.outcome, w.before[k], live[r][k], w.desired[k])
                                     ELSE live[r][k]]]
      /\ base' = [base EXCEPT ![r] =
                   [k \in Tokens |-> IF k \in w.keys THEN w.desired[k] ELSE base[r][k]]]
      /\ writer' = [writer EXCEPT ![r] = AtRest]
      /\ UNCHANGED <<stored, reader, done>>
  BY DEF Publish
<1>2. /\ live \in [Replicas -> Pool] /\ base \in [Replicas -> Pool]
      /\ writer \in [Replicas -> Writer] /\ journal \in [Replicas -> Journal] /\ w \in Writer
      /\ live[r][t] \in Rows /\ base[r][t] \in Rows
  BY Locals DEF IInv, Types, ViewType, WriterType, ReaderType
<1>3. /\ writer'[r] = AtRest
      /\ live'[r][t] = (IF t \in w.keys
                        THEN Shown(w.outcome, w.before[t], live[r][t], w.desired[t])
                        ELSE live[r][t])
      /\ base'[r][t] = (IF t \in w.keys THEN w.desired[t] ELSE base[r][t])
  BY <1>1, <1>2
<1>4. /\ Unsaved(r, t) \in Nat /\ Ceiling(t) \in Nat /\ done[t] \in Nat
      /\ Ceiling(t) + Unsaved(r, t) <= done[t]
      /\ live[r][t].used \in Nat /\ base[r][t].used \in Nat
      /\ w.before[t].used \in Nat /\ w.desired[t].used \in Nat
  BY Numbers
<1>5. /\ Below(base[r], reader[r], w, journal[r], t, Ceiling(t))
      /\ w.desired[t].used <= Ceiling(t) /\ live[r][t].used <= done[t]
  BY <1>1 DEF Counting, Below
<1>6. /\ Unsaved(r, t) = (IF t \in w.keys THEN live[r][t].used - w.before[t].used
                          ELSE live[r][t].used - base[r][t].used)
      /\ Unsaved(r, t)' = live'[r][t].used - base'[r][t].used
  BY <1>1, <1>3, AtRestIs DEF Unsaved, Gain
<1>7. Unsaved(r, t)' <= Unsaved(r, t) /\ live'[r][t].used <= done[t]
  <2>1. CASE t \in w.keys
    <3>1. Follows(live[r][t], w.before[t]) /\ w.before[t] \in Rows /\ w.desired[t] \in Rows
      BY <1>1, <1>2, <2>1, WriterRows DEF IInv, Work
    <3>2. PICK s \in Rows : s = Shown(w.outcome, w.before[t], live[r][t], w.desired[t])
      BY <1>2, <3>1, ShownIs
    <3>3. s.used <= w.desired[t].used + live[r][t].used - w.before[t].used /\ s.used \in Nat
      BY <1>2, <3>1, <3>2, ShownAdds, RowIs
    <3>4. /\ live'[r][t].used = s.used /\ base'[r][t].used = w.desired[t].used
          /\ Unsaved(r, t) = live[r][t].used - w.before[t].used
          /\ Unsaved(r, t)' = s.used - w.desired[t].used
      BY <1>3, <1>6, <2>1, <3>2
    <3>5. Unsaved(r, t)' <= Unsaved(r, t)
      BY <1>4, <3>3, <3>4
    <3>6. s.used <= Ceiling(t) + Unsaved(r, t)
      BY <1>4, <1>5, <3>3, <3>4
    <3> QED
      BY <1>4, <3>3, <3>4, <3>5, <3>6
  <2>2. CASE t \notin w.keys
    BY <1>3, <1>4, <1>5, <1>6, <2>2
  <2> QED
    BY <2>1, <2>2
<1>8. t \in DOMAIN journal'[r] => journal'[r][t].row.used <= Ceiling(t)
  <2>1. CASE reader[r].pc = "idle"
    BY <1>1, <1>5, <2>1 DEF Below
  <2>2. CASE reader[r].pc # "idle"
    <3>1. journal'[r] = Over(f, journal[r])
      BY <1>1, <1>2, <2>2
    <3>2. t \in DOMAIN f => f[t].row = w.desired[t]
      OBVIOUS
    <3> HIDE DEF f
    <3>3. t \in DOMAIN Over(f, journal[r]) =>
            \/ t \in DOMAIN f /\ Over(f, journal[r])[t] = f[t]
            \/ t \in DOMAIN journal[r] /\ Over(f, journal[r])[t] = journal[r][t]
      BY DEF Over
    <3> QED
      BY <1>5, <3>1, <3>2, <3>3 DEF Below
  <2> QED
    BY <2>1, <2>2
<1>9. Below(base'[r], reader'[r], writer'[r], journal'[r], t, Ceiling(t))
  <2>1. AtRest.baseline[t].used = 0 /\ AtRest.desired[t].used = 0
    BY DEF AtRest, Nothing, Absent
  <2>2. base'[r][t].used <= Ceiling(t) /\ reader'[r].loaded[t].used <= Ceiling(t)
    BY <1>1, <1>3, <1>5 DEF Below
  <2> QED
    BY <1>3, <1>4, <1>8, <2>1, <2>2 DEF Below
<1>10. Adds(writer'[r], base'[r][t], t)
  BY <1>3, AtRestIs DEF Adds
<1> QED
  BY <1>1, <1>7, <1>9, <1>10, SteadyLess DEF stored

LEMMA ReaderSteady ==
  ASSUME IInv, IInv', Counting, NEW r \in Replicas, Read(r) \/ SkipRefresh(r), NEW t \in Tokens
  PROVE  Steady(r, t)
<1>1. /\ reader \in [Replicas -> Reader] /\ journal \in [Replicas -> Journal]
      /\ db[t].used <= Ceiling(t) /\ Ceiling(t) \in Nat
  BY Numbers DEF IInv, Types, ReaderType, Counting
<1>2. /\ UNCHANGED <<stored, live, base, writer, done>>
      /\ journal'[r] = <<>> /\ (reader'[r].loaded = db \/ reader'[r] = NoRead)
  BY <1>1 DEF Read, SkipRefresh, EndRead
<1>3. NoRead.loaded[t].used = 0
  BY DEF NoRead, Nothing, Absent
<1> QED
  BY <1>1, <1>2, <1>3, NoMarks, SteadyIdle DEF stored

LEMMA RefreshSteady ==
  ASSUME IInv, IInv', Counting, NEW r \in Replicas, Refresh(r), NEW t \in Tokens
  PROVE  Steady(r, t)
<1>1. /\ reader \in [Replicas -> Reader] /\ journal \in [Replicas -> Journal]
      /\ live \in [Replicas -> Pool] /\ base \in [Replicas -> Pool]
  BY DEF IInv, Types, ViewType, ReaderType
<1>2. /\ UNCHANGED <<stored, writer, done>> /\ writer[r].pc = "idle"
      /\ journal'[r] = <<>> /\ reader'[r] = NoRead
  BY <1>1 DEF Refresh, EndRead, NoWriter
<1>3. NoRead.loaded[t].used = 0
  BY DEF NoRead, Nothing, Absent
<1>4. /\ Unsaved(r, t) \in Nat /\ Ceiling(t) \in Nat /\ done[t] \in Nat
      /\ Ceiling(t) + Unsaved(r, t) <= done[t]
      /\ live[r][t].used \in Nat /\ base[r][t].used \in Nat
  BY Numbers
<1>5. CASE UNCHANGED <<live, base, rev>>
  BY <1>2, <1>3, <1>4, <1>5, NoMarks, SteadyIdle DEF stored
<1> DEFINE b == Overlaid(r)
<1>6. CASE /\ live' = [live EXCEPT ![r] =
                        [k \in Tokens |-> Refreshed(base[r][k], live[r][k], Overlaid(r)[k])]]
           /\ base' = [base EXCEPT ![r] = b]
  <2>1. /\ live[r][t] \in Rows /\ base[r][t] \in Rows /\ Follows(live[r][t], base[r][t])
    BY Locals DEF IInv, View
  <2>2. /\ reader[r].loaded[t] \in Rows
        /\ (t \in DOMAIN journal[r] => journal[r][t].row \in Rows)
    BY <1>1 DEF Reader, Journal, Entry, Pool, Rows
  <2>3. b[t] = reader[r].loaded[t] \/ (t \in DOMAIN journal[r] /\ b[t] = journal[r][t].row)
    BY DEF Overlaid
  <2> HIDE DEF b
  <2>4. b[t] \in Rows /\ b[t].used <= Ceiling(t)
    BY <2>2, <2>3 DEF Counting, Below
  <2>5. base'[r] = b /\ live'[r][t] = Refreshed(base[r][t], live[r][t], b[t])
    BY <1>1, <1>6 DEF b
  <2>6. PICK s \in Rows : s = Refreshed(base[r][t], live[r][t], b[t])
    BY <2>1, <2>4, RefreshedIs
  <2>7. s.used <= b[t].used + live[r][t].used - base[r][t].used
        /\ s.used \in Nat /\ b[t].used \in Nat
    BY <2>1, <2>4, <2>6, RefreshedAdds, RowIs
  <2>8. /\ Unsaved(r, t) = live[r][t].used - base[r][t].used
        /\ Unsaved(r, t)' = s.used - b[t].used /\ live'[r][t].used = s.used
    BY <1>2, <2>5, <2>6 DEF Unsaved, Gain
  <2>9. Unsaved(r, t)' <= Unsaved(r, t) /\ live'[r][t].used <= done[t]
    BY <1>4, <2>4, <2>7, <2>8
  <2>10. Below(base'[r], reader'[r], writer'[r], journal'[r], t, Ceiling(t))
    BY <1>2, <1>3, <1>4, <2>4, <2>5, NoMarks DEF Counting, Below
  <2>11. Adds(writer'[r], base'[r][t], t)
    BY <1>2 DEF Adds
  <2> QED
    BY <1>2, <2>9, <2>10, <2>11, SteadyLess DEF stored
<1> QED
  BY <1>5, <1>6 DEF Refresh

LEMMA RestartSteady ==
  ASSUME IInv, IInv', Counting, NEW r \in Replicas, Restart(r), NEW t \in Tokens
  PROVE  Steady(r, t)
<1>1. /\ reader \in [Replicas -> Reader] /\ journal \in [Replicas -> Journal]
      /\ live \in [Replicas -> Pool] /\ base \in [Replicas -> Pool]
      /\ writer \in [Replicas -> Writer]
  BY DEF IInv, Types, ViewType, ReaderType, WriterType
<1>2. /\ UNCHANGED <<stored, done>> /\ writer'[r] = AtRest
      /\ live'[r] = db /\ base'[r] = db /\ journal'[r] = <<>> /\ reader'[r] = NoRead
  BY <1>1 DEF Restart, EndRead
<1>3. NoRead.loaded[t].used = 0 /\ AtRest.baseline[t].used = 0 /\ AtRest.desired[t].used = 0
  BY DEF NoRead, AtRest, Nothing, Absent
<1>4. /\ Unsaved(r, t) \in Nat /\ Ceiling(t) \in Nat /\ done[t] \in Nat /\ db[t].used \in Nat
      /\ Ceiling(t) + Unsaved(r, t) <= done[t] /\ db[t].used <= Ceiling(t)
  BY Numbers DEF Counting
<1>5. Unsaved(r, t)' = db[t].used - db[t].used
  BY <1>2, AtRestIs DEF Unsaved, Gain
<1>6. Unsaved(r, t)' <= Unsaved(r, t) /\ live'[r][t].used <= done[t]
  BY <1>2, <1>4, <1>5
<1>7. Below(base'[r], reader'[r], writer'[r], journal'[r], t, Ceiling(t))
  BY <1>2, <1>3, <1>4, NoMarks DEF Below
<1>8. Adds(writer'[r], base'[r][t], t)
  BY <1>2, AtRestIs DEF Adds
<1> QED
  BY <1>2, <1>6, <1>7, <1>8, SteadyLess DEF stored

LEMMA InitCounting == Init => Counting
<1> SUFFICES ASSUME Init, NEW t \in Tokens
             PROVE  /\ db[t].used <= Ceiling(t)
                    /\ \A r \in Replicas :
                         /\ Below(base[r], reader[r], writer[r], journal[r], t, Ceiling(t))
                         /\ Adds(writer[r], base[r][t], t)
                         /\ live[r][t].used <= done[t]
  BY DEF Counting
<1>1. /\ db \in [Tokens -> {Absent, New(1)}]
      /\ live = [r \in Replicas |-> db] /\ base = [r \in Replicas |-> db]
      /\ writer = [r \in Replicas |-> AtRest] /\ reader = [r \in Replicas |-> NoRead]
      /\ journal = [r \in Replicas |-> <<>>] /\ done = [k \in Tokens |-> 0]
  BY DEF Init
<1>2. db[t].used = 0
  BY <1>1 DEF Absent, New
<1>3. \A r \in Replicas : Gains(t)[r] = 0
  BY <1>1, <1>2, AtRestIs DEF Gains, Unsaved, Gain
<1>4. Ceiling(t) = 0
  <2>1. Sum(Gains(t)) = 0
    BY <1>3, SumZero
  <2> QED
    BY <1>1, <2>1 DEF Ceiling
<1>5. NoRead.loaded[t].used = 0 /\ AtRest.baseline[t].used = 0 /\ AtRest.desired[t].used = 0
  BY DEF NoRead, AtRest, Nothing, Absent
<1> QED
  BY <1>1, <1>2, <1>4, <1>5, AtRestIs, NoMarks DEF Below, Adds

LEMMA StepCounting == IInv /\ IInv' /\ Counting /\ [Next]_vars => Counting'
<1> SUFFICES ASSUME IInv, IInv', Counting, [Next]_vars PROVE Counting'
  OBVIOUS
<1>1. ASSUME NEW r \in Replicas, NEW k \in Tokens,
             Complete(r, k) \/ Edit(r, k) \/ Renew(r, k) \/ Delete(r, k) \/ Import(r, k)
      PROVE  Others(r) /\ \A t \in Tokens : Steady(r, t)
  <2>1. Good(r)
    BY <1>1, CompleteStep, EditStep, RenewStep, DeleteStep, ImportStep
  <2> QED
    BY <1>1, <2>1, CompleteSteady, ChangeSteady DEF Good
<1>2. ASSUME NEW r \in Replicas, Flush(r) \/ Commit(r) \/ GiveUp(r) \/ Remerge(r)
      PROVE  Others(r) /\ \A t \in Tokens : Steady(r, t)
  <2>1. Good(r)
    BY <1>2, FlushStep, CommitStep, GiveUpStep, RemergeStep
  <2> QED
    BY <1>2, <2>1, FlushSteady, CommitSteady, GiveUpSteady, RemergeSteady DEF Good
<1>3. ASSUME NEW r \in Replicas, LoseConnection(r) \/ Recover(r) \/ Publish(r)
      PROVE  Others(r) /\ \A t \in Tokens : Steady(r, t)
  <2>1. Good(r)
    BY <1>3, LoseConnectionStep, RecoverStep, PublishStep
  <2> QED
    BY <1>3, <2>1, CommitSteady, RecoverSteady, PublishSteady DEF Good
<1>4. ASSUME NEW r \in Replicas, Read(r) \/ Refresh(r) \/ SkipRefresh(r) \/ Restart(r)
      PROVE  Others(r) /\ \A t \in Tokens : Steady(r, t)
  <2>1. Good(r)
    BY <1>4, ReadStep, RefreshStep, SkipRefreshStep, RestartStep
  <2> QED
    BY <1>4, <2>1, ReaderSteady, RefreshSteady, RestartSteady DEF Good
<1>5. (\E r \in Replicas : Others(r) /\ \A t \in Tokens : Steady(r, t)) \/ UNCHANGED vars
  BY <1>1, <1>2, <1>3, <1>4 DEF Next
<1>6. CASE UNCHANGED vars
  <2>1. UNCHANGED <<db, live, base, writer, reader, journal, done>>
    BY <1>6 DEF vars, stored, reading
  <2>2. \A t \in Tokens : Ceiling(t)' = Ceiling(t)
    BY <2>1 DEF Ceiling, Gains, Unsaved
  <2> QED
    BY <2>1, <2>2 DEF Counting
<1> QED
  BY <1>5, <1>6, SteadyFrame

\* _save_accounts and _refresh_accounts_snapshot_if_stale: no image result is
\* counted twice, neither in the database nor in a view.
THEOREM CountedOnceTheorem == Spec => []CountedOnce
<1>1. Init => Counting
  BY InitCounting
<1>2. IInv /\ IInv' /\ Counting /\ [Next]_vars => Counting'
  BY StepCounting
<1>3. IInv /\ Counting => CountedOnce
  <2> SUFFICES ASSUME IInv, Counting, NEW t \in Tokens
               PROVE  db[t].used <= done[t] /\ \A r \in Replicas : live[r][t].used <= done[t]
    BY DEF CountedOnce
  <2>1. db[t].used <= Ceiling(t) /\ \A r \in Replicas : live[r][t].used <= done[t]
    BY DEF Counting
  <2>2. Sum(Gains(t)) \in Nat
    BY GainsType, UnitsFinite, FS_CardinalityType DEF Sum
  <2>3. db[t].used \in Nat /\ done[t] \in Nat
    BY RowIs DEF IInv, Types, StoredType, HistoryType, Pool, Rows
  <2> QED
    BY <2>1, <2>2, <2>3 DEF Ceiling
<1> QED
  BY <1>1, <1>2, <1>3, PoolInvariant, PTL DEF Spec
=============================================================================
