----------------------------- MODULE AccountPool -----------------------------
(***************************************************************************)
(* The account pool that the replicas share: services/account_service.py   *)
(* (views, saves, refresh of the view, image results) on                   *)
(* services/storage/database_storage.py (row-level compare-and-swap under  *)
(* a collection revision).                                                 *)
(*                                                                         *)
(* A row is reduced to the counter of successful images, which concurrent  *)
(* savers must add up, and its credential, which the last saver sets: rt   *)
(* is the refresh token with the time of its renewal, at the access token, *)
(* which is also the key of the row. Tokens are the accounts: a row that   *)
(* moves to another key (a rotation, recognised by its management_id) is   *)
(* still the row of its account.                                           *)
(* Every replica keeps a live view, ahead of the database by the image     *)
(* results it has not saved, and the rows it last knew to be stored. One   *)
(* writer of a replica is at work at a time (_write_lock); it holds no     *)
(* lock that image results need while it talks to the database.            *)
(***************************************************************************)
EXTENDS Integers, FiniteSets

CONSTANTS Replicas, Tokens,
          MaxAttempts, \* _STORAGE_MUTATION_MAX_ATTEMPTS
          MaxEvents    \* bound on image results, changes asked for, and faults

ASSUME PoolAssumption ==
  MaxAttempts \in Nat \ {0} /\ MaxEvents \in Nat /\ IsFiniteSet(Replicas)

VARIABLES
  (* database *)
  db,      \* the row of every account
  ver,     \* version in storage_revisions
  (* replica *)
  live,    \* _accounts
  base,    \* _persisted_accounts
  rev,     \* _accounts_revision
  queue,   \* _image_result_persist_pending
  due,     \* the worker that saves them is scheduled and has something to save
  writer,  \* the thread in _save_accounts
  reader,  \* the thread in _refresh_accounts_snapshot_if_stale
  journal, \* _snapshot_write_journal
  (* history *)
  issued,  \* credentials so far
  gone,    \* accounts that an operator asked to delete
  done,    \* image results so far, of every account
  events   \* events so far

stored  == <<db, ver>>
results == <<queue, due>>
reading == <<reader, journal>>
asked   == <<issued, gone>>
vars    == <<stored, live, base, rev, results, writer, reading, asked, done, events>>

Row    == [used : Nat, rt : Nat \ {0}, at : Nat \ {0}]
Absent == [used |-> 0, rt |-> 0, at |-> 0]
New(c) == [used |-> 0, rt |-> c, at |-> 1]
Pool   == [Tokens -> Row \cup {Absent}]
Generation(row) == <<row.at, row.rt>>   \* _credential_generation

\* What receipts or snapshots say of some of the accounts.
Partial(f, S) == DOMAIN f \subseteq Tokens /\ f \in [DOMAIN f -> S]
Unordered  == 0   \* the revision of a write whose receipt was not received

Kinds    == {"flush", "edit", "renew", "delete", "import"}
Outcomes == {"saved", "overtaken", "raised"}   \* what _save_accounts comes to

\* The entries of new, and those of old that it says nothing of.
Over(new, old) == [t \in DOMAIN new \cup DOMAIN old |-> IF t \in DOMAIN new THEN new[t] ELSE old[t]]

Only(keys, rows) == [t \in Tokens |-> IF t \in keys THEN rows[t] ELSE Absent]
Nothing == [t \in Tokens |-> Absent]

AtRest  == [pc |-> "idle", kind |-> "flush", keys |-> {}, before |-> Nothing,
            intent |-> Nothing, baseline |-> Nothing, desired |-> Nothing,
            marks |-> <<>>, tries |-> 0, outcome |-> "saved"]
NoRead  == [pc |-> "idle", loaded |-> Nothing, at |-> Unordered]

TypeOK ==
  /\ db \in Pool /\ ver \in Nat \ {0}
  /\ live \in [Replicas -> Pool] /\ base \in [Replicas -> Pool]
  /\ rev \in [Replicas -> Nat \ {0}]
  /\ queue \in [Replicas -> SUBSET Tokens] /\ due \in [Replicas -> BOOLEAN]
  /\ \A r \in Replicas : due[r] => queue[r] # {}
  /\ \A r \in Replicas :
       /\ writer[r].pc \in {"idle", "commit", "failed", "publish"}
       /\ writer[r].kind \in Kinds /\ writer[r].keys \subseteq Tokens
       /\ writer[r].before \in Pool /\ writer[r].intent \in Pool
       /\ writer[r].baseline \in Pool /\ writer[r].desired \in Pool
       /\ Partial(writer[r].marks, Nat) /\ writer[r].outcome \in Outcomes
       /\ writer[r].tries \in 0..MaxAttempts
       /\ reader[r].pc \in {"idle", "loaded"}
       /\ reader[r].loaded \in Pool /\ reader[r].at \in Nat
       /\ Partial(journal[r], [at : Nat, row : Row \cup {Absent}])
  /\ issued \in 1..(MaxEvents + 1) /\ gone \subseteq Tokens
  /\ done \in [Tokens -> Nat] /\ events \in 0..MaxEvents

Init ==
  /\ db \in [Tokens -> {Absent, New(1)}] /\ ver = 1
  /\ live = [r \in Replicas |-> db] /\ base = [r \in Replicas |-> db]
  /\ rev = [r \in Replicas |-> ver]
  /\ queue = [r \in Replicas |-> {}] /\ due = [r \in Replicas |-> FALSE]
  /\ writer = [r \in Replicas |-> AtRest]
  /\ reader = [r \in Replicas |-> NoRead]
  /\ journal = [r \in Replicas |-> <<>>]
  /\ issued = 1 /\ gone = {}
  /\ done = [t \in Tokens |-> 0] /\ events = 0

-----------------------------------------------------------------------------
(* Merging. A local change is what differs from the baseline.              *)

LastWriterWins(baseline, local, remote) == local

\* _merge_account_fields: the counter adds up, the credential is the local
\* one where it was changed.
MergeFields(baseline, local, remote) ==
  [used |-> IF remote.used + local.used - baseline.used < 0 THEN 0
            ELSE remote.used + local.used - baseline.used,
   rt   |-> IF local.rt = baseline.rt THEN remote.rt ELSE local.rt,
   at   |-> IF local.at = baseline.at THEN remote.at ELSE local.at]

UpdateWins(baseline, local, remote) ==
  CASE local = baseline                     -> remote
    [] local # baseline /\ remote = Absent  -> local
    [] OTHER                                -> MergeFields(baseline, local, remote)

\* _merge_accounts_after_conflict, with skip_new_conflicts for imports. A
\* local deletion wins, and so does a remote one over a local update.
Merge(baseline, local, remote) ==
  CASE local = baseline                       -> remote
    [] local # baseline /\ local = Absent     -> Absent
    [] local # Absent /\ baseline = Absent    -> IF remote = Absent THEN local ELSE remote
    [] OTHER -> IF remote = Absent THEN Absent ELSE MergeFields(baseline, local, remote)

-----------------------------------------------------------------------------
(* Image results, and the changes an operator, a renewal or an import asks *)
(* for.                                                                    *)

Event == events < MaxEvents /\ events' = events + 1

\* mark_image_result(defer_persistence=True): the view changes at once, a
\* worker saves it later.
Complete(r, t) ==
  /\ live[r][t] # Absent
  /\ Event
  /\ live' = [live EXCEPT ![r][t].used = live[r][t].used + 1]
  /\ queue' = [queue EXCEPT ![r] = queue[r] \cup {t}]
  /\ due' = [due EXCEPT ![r] = TRUE]
  /\ done' = [done EXCEPT ![t] = done[t] + 1]
  /\ UNCHANGED <<stored, base, rev, writer, reading, asked>>

\* _account_write and the beginning of _save_accounts: what the caller
\* staged is taken out of the view again until it is stored.
Save(r, kind, keys, staged) ==
  /\ writer[r].pc = "idle"
  /\ \E t \in keys : staged[t] # base[r][t]
  /\ writer' = [writer EXCEPT ![r] =
       [AtRest EXCEPT !.pc = "commit", !.kind = kind, !.keys = keys,
                      !.before = Only(keys, live[r]), !.baseline = Only(keys, base[r]),
                      !.intent = Only(keys, staged), !.desired = Only(keys, staged)]]
  /\ UNCHANGED <<stored, live, base, rev, reading, done>>

TakeRows(r) == queue' = [queue EXCEPT ![r] = {}] /\ UNCHANGED due

TakeQueue(r) ==
  /\ queue' = [queue EXCEPT ![r] = {}]
  /\ due' = [due EXCEPT ![r] = FALSE]

\* _flush_image_result_persistence saves the live rows of the queued
\* accounts. Taking the queue and the lock of the writer are one step: a
\* result between them is saved by this flush and queued for an idle one.
Flush(r) ==
  /\ due[r] /\ writer[r].pc = "idle"
  /\ LET keys == {t \in queue[r] : live[r][t] # Absent}
     IN \/ Save(r, "flush", keys, live[r]) /\ UNCHANGED events
        \/ /\ \A t \in keys : live[r][t] = base[r][t]
           /\ UNCHANGED <<stored, live, base, rev, reading, done, events, writer>>
  /\ TakeQueue(r)
  /\ UNCHANGED asked

\* An operator brings another refresh token (update_account).
Edit(r, t) ==
  /\ live[r][t] # Absent /\ Event
  /\ issued' = issued + 1
  /\ Save(r, "edit", {t}, [live[r] EXCEPT ![t].rt = issued + 1])
  /\ UNCHANGED <<results, gone>>

\* The renewal of the credential in the view was answered, with another
\* access token or without (_apply_refreshed_tokens).
Renew(r, t) ==
  /\ live[r][t] # Absent /\ Event
  /\ issued' = issued + 1
  /\ \E at \in {live[r][t].at, issued + 1} :
       Save(r, "renew", {t}, [live[r] EXCEPT ![t].rt = issued + 1, ![t].at = at])
  /\ UNCHANGED <<results, gone>>

\* delete_accounts. An account that is deleted and imported again is another
\* account, so nobody imports it meanwhile.
Delete(r, t) ==
  /\ live[r][t] # Absent
  /\ Event
  /\ \A q \in Replicas : ~(writer[q].kind = "import" /\ t \in writer[q].keys)
  /\ gone' = gone \cup {t}
  /\ Save(r, "delete", {t}, [live[r] EXCEPT ![t] = Absent])
  /\ UNCHANGED <<results, issued>>

\* add_account_items(skip_existing=True) of an account the view does not have.
\* Nobody imports an access token that is known to have been replaced.
Import(r, t) ==
  /\ live[r][t] = Absent /\ t \notin gone /\ db[t].at <= 1 /\ Event
  /\ issued' = issued + 1
  /\ Save(r, "import", {t}, [live[r] EXCEPT ![t] = New(issued + 1)])
  /\ UNCHANGED <<results, gone>>

-----------------------------------------------------------------------------
(* The writer, with no lock that image results need.                       *)

Changed(w) == {t \in w.keys : w.desired[t] # w.baseline[t]}

\* mutate_accounts_checked compares the rows it is to change with the
\* baseline, in the transaction that changes them.
Matches(w) == \A t \in Changed(w) : db[t] = w.baseline[t]

Write(w) ==
  /\ Matches(w)
  /\ db' = [t \in Tokens |-> IF t \in Changed(w) THEN w.desired[t] ELSE db[t]]
  /\ ver' = ver + 1

\* The receipt speaks of the rows that were written and of no other.
Commit(r) ==
  LET w == writer[r]
  IN /\ w.pc = "commit" /\ Changed(w) # {}
     /\ Write(w)
     /\ writer' = [writer EXCEPT ![r].pc = "publish",
                                 ![r].marks = Over([t \in Changed(w) |-> ver'], w.marks)]
     /\ UNCHANGED <<live, base, rev, results, reading, asked, done, events>>

\* The connection fails, before the commit or after it.
LoseConnection(r) ==
  /\ Event
  /\ writer[r].pc = "commit"
  /\ UNCHANGED stored \/ Write(writer[r])
  /\ writer' = [writer EXCEPT ![r].pc = "failed"]
  /\ UNCHANGED <<live, base, rev, results, reading, asked, done>>

MergedAnyway(w) == FALSE

\* The credential that a renewal used is not the stored one any more.
Overtaken(w) ==
  w.kind = "renew" /\ \E t \in w.keys : Generation(db[t]) # Generation(w.before[t])

\* StorageRevisionConflictError and _load_credential_conflict, one step: rows
\* that changed do not change back. An overtaken renewal gives up and takes
\* over what is stored.
GiveUp(r) ==
  LET w == writer[r]
  IN /\ w.pc = "commit" /\ ~Matches(w) /\ Overtaken(w)
     /\ writer' = [writer EXCEPT ![r].pc = "publish", ![r].outcome = "overtaken",
                                 ![r].desired = Only(w.keys, db),
                                 ![r].marks = [t \in w.keys |-> ver]]
     /\ UNCHANGED <<stored, live, base, rev, results, reading, asked, done, events>>

\* The others merge and try again, so many times, if anything is left to write.
Remerge(r) ==
  LET w      == writer[r]
      merged == Only(w.keys, [t \in Tokens |-> Merge(base[r][t], w.intent[t], db[t])])
  IN /\ w.pc = "commit" /\ ~Matches(w) /\ ~Overtaken(w)
     /\ writer' = [writer EXCEPT ![r] =
          [w EXCEPT !.pc = IF w.tries + 1 = MaxAttempts THEN "failed"
                           ELSE IF merged = Only(w.keys, db) THEN "publish" ELSE "commit",
                    !.tries = w.tries + 1,
                    !.marks = [t \in w.keys |-> ver],
                    !.baseline = Only(w.keys, db),
                    !.desired = merged]]
     /\ UNCHANGED <<stored, live, base, rev, results, reading, asked, done, events>>

\* Rows are looked up by the keys the save was about: a row that another
\* replica moved to a new key is not found until the next refresh.
Found(w, known) ==
  [t \in Tokens |-> IF db[t].at \in {known[t].at, w.intent[t].at} THEN db[t] ELSE Absent]

\* The except clause: what is stored, if that can be read, or what was known
\* to be.
Recover(r) ==
  /\ writer[r].pc = "failed"
  /\ \E read \in BOOLEAN :
       /\ IF read THEN UNCHANGED events ELSE Event
       /\ writer' = [writer EXCEPT
         ![r].pc = "publish", ![r].outcome = "raised",
         ![r].marks = [t \in writer[r].keys |-> IF read THEN ver ELSE Unordered],
         ![r].desired = Only(writer[r].keys,
                                  IF read THEN Found(writer[r], base[r]) ELSE base[r])]
  /\ UNCHANGED <<stored, live, base, rev, results, reading, asked, done>>

\* The row the view gets: the stored one with the image results that came
\* while it was being stored, if they are of its credential or of the one
\* that this save replaced together with the access token.
Shown(outcome, before, now, row) ==
  IF /\ row # Absent /\ before # Absent /\ now # before
     /\ \/ Generation(before) = Generation(row)
        \/ outcome = "saved" /\ before.at # row.at
  THEN [row EXCEPT !.used = MergeFields(before, now, row).used]
  ELSE row

\* The finally clause, with the lock of the view. A flush that raised goes
\* back to the queue and its worker ends.
Publish(r) ==
  LET w      == writer[r]
      raised == w.kind = "flush" /\ w.outcome = "raised"
  IN /\ w.pc = "publish"
     /\ journal' = IF reader[r].pc = "idle" THEN journal
                   ELSE [journal EXCEPT ![r] =
                          Over([t \in DOMAIN w.marks |-> [at |-> w.marks[t], row |-> w.desired[t]]],
                               journal[r])]
     /\ live' = [live EXCEPT ![r] =
                  [t \in Tokens |-> IF t \in w.keys
                                    THEN Shown(w.outcome, w.before[t], live[r][t], w.desired[t])
                                    ELSE live[r][t]]]
     /\ base' = [base EXCEPT ![r] =
                  [t \in Tokens |-> IF t \in w.keys THEN w.desired[t] ELSE base[r][t]]]
     /\ queue' = [queue EXCEPT ![r] = IF raised THEN queue[r] \cup w.keys ELSE queue[r]]
     /\ due' = [due EXCEPT ![r] = due[r] /\ ~raised]
     /\ writer' = [writer EXCEPT ![r] = AtRest]
     /\ UNCHANGED <<stored, rev, reader, asked, done, events>>

-----------------------------------------------------------------------------
(* The refresh of a view that other replicas may have overtaken.           *)

\* Another revision is stored than the one known: the rows are read. The
\* journal begins just before; what a writer notes of commits that the rows
\* read include is not used, so the beginning and the read are one step. A
\* read that fails changes nothing.
Read(r) ==
  /\ reader[r].pc = "idle" /\ ver # rev[r]
  /\ reader' = [reader EXCEPT ![r] = [pc |-> "loaded", loaded |-> db, at |-> ver]]
  /\ journal' = [journal EXCEPT ![r] = <<>>]
  /\ UNCHANGED <<stored, live, base, rev, results, writer, asked, done, events>>

EndRead(r) ==
  /\ reader' = [reader EXCEPT ![r] = NoRead]
  /\ journal' = [journal EXCEPT ![r] = <<>>]

\* Nothing is guessed about a write whose receipt says no revision.
Mergeable(r) == \A t \in DOMAIN journal[r] : journal[r][t].at # Unordered

\* _overlay_snapshot_writes_locked: own commits that the rows read do not
\* include yet.
Overlaid(r) ==
  [t \in Tokens |-> IF t \in DOMAIN journal[r] /\ journal[r][t].at > reader[r].at
                    THEN journal[r][t].row ELSE reader[r].loaded[t]]

\* What the view keeps of the image results it has not saved. A field that
\* the stored row agrees with counts as saved.
Refreshed(baseline, local, remote) ==
  IF /\ baseline # Absent /\ local # Absent /\ remote # Absent
     /\ local # baseline /\ local # remote /\ Generation(local) = Generation(remote)
  THEN MergeFields([f \in DOMAIN baseline |-> IF remote[f] = local[f] THEN local[f]
                                              ELSE baseline[f]], local, remote)
  ELSE remote

AnyTime(r) == TRUE

\* Publication takes part in the order of the writers.
NoWriter(r) == writer[r].pc = "idle"

LatestReceipt(r) ==
  LET known == {reader[r].at} \cup {journal[r][t].at : t \in DOMAIN journal[r]}
  IN CHOOSE v \in known : \A w \in known : w <= v

\* "Keep the full snapshot revision."
SnapshotRevision(r) == reader[r].at

Refresh(r) ==
  /\ reader[r].pc = "loaded" /\ NoWriter(r)
  /\ IF Mergeable(r)
     THEN /\ live' = [live EXCEPT ![r] = [t \in Tokens |->
                        Refreshed(base[r][t], live[r][t], Overlaid(r)[t])]]
          /\ base' = [base EXCEPT ![r] = Overlaid(r)]
          /\ rev' = [rev EXCEPT ![r] = SnapshotRevision(r)]
     ELSE UNCHANGED <<live, base, rev>>
  /\ EndRead(r)
  /\ UNCHANGED <<stored, results, writer, asked, done, events>>

\* wait_for_refresh=False does not wait for a writer.
SkipRefresh(r) ==
  /\ reader[r].pc = "loaded" /\ ~NoWriter(r)
  /\ EndRead(r)
  /\ UNCHANGED <<stored, live, base, rev, results, writer, asked, done, events>>

\* A restarted replica loads what is stored (_load_accounts).
Restart(r) ==
  /\ Event
  /\ live' = [live EXCEPT ![r] = db] /\ base' = [base EXCEPT ![r] = db]
  /\ rev' = [rev EXCEPT ![r] = ver]
  /\ queue' = [queue EXCEPT ![r] = {}] /\ due' = [due EXCEPT ![r] = FALSE]
  /\ writer' = [writer EXCEPT ![r] = AtRest]
  /\ EndRead(r)
  /\ UNCHANGED <<stored, asked, done>>

Next ==
  \E r \in Replicas :
    \/ \E t \in Tokens : Complete(r, t) \/ Edit(r, t) \/ Renew(r, t) \/ Delete(r, t) \/ Import(r, t)
    \/ Flush(r)
    \/ Commit(r) \/ GiveUp(r) \/ Remerge(r)
    \/ LoseConnection(r) \/ Recover(r) \/ Publish(r)
    \/ Read(r) \/ Refresh(r) \/ SkipRefresh(r)
    \/ Restart(r)

Spec == Init /\ [][Next]_vars

-----------------------------------------------------------------------------
(* Properties *)

\* No image result is counted twice, neither in the database nor in a view,
\* however saves, conflicts, refreshes and lost connections interleave
\* (_save_accounts: "merged exactly once after commit").
CountedOnce ==
  \A t \in Tokens : db[t].used <= done[t] /\ \A r \in Replicas : live[r][t].used <= done[t]

\* A replica that finds its revision to be the stored one does not read the
\* rows again: it knows them all then. "A receipt for a few rows must not
\* acknowledge unrelated remote writes absent from the snapshot."
RevisionHonest ==
  \A r \in Replicas : rev[r] = ver /\ writer[r].pc = "idle" => base[r] = db

\* A save never takes back results that another replica has stored.
ResultsNeverDrop ==
  [][\A t \in Tokens : db[t] # Absent /\ db'[t] # Absent => db'[t].used >= db[t].used]_vars

\* A deleted account is not brought back by a save that did not know of the
\* deletion: only an import stores a row where there is none.
NoResurrection ==
  [][\A t \in Tokens : db[t] = Absent /\ db'[t] # Absent =>
       \E r \in Replicas : writer[r].kind = "import" /\ t \in writer[r].keys]_vars

\* A stored credential is replaced by an operator or by a renewal, and by a
\* renewal only if it is the one that was renewed.
CredentialsMove ==
  [][\A t \in Tokens : db[t] # Absent /\ db'[t] # Absent /\ Generation(db'[t]) # Generation(db[t]) =>
       \E r \in Replicas :
         /\ writer[r].pc = "commit" /\ writer'[r].pc # "commit" /\ t \in writer[r].keys
         /\ \/ writer[r].kind = "edit"
            \/ writer[r].kind = "renew" /\ Generation(writer[r].before[t]) = Generation(db[t])]_vars

\* The refresh of a view keeps the image results it has not saved: "Do not
\* erase their cooldown/quota changes when refreshing a different replica's
\* import."
ResultsSurviveRefresh ==
  [][\A r \in Replicas, t \in Tokens :
       /\ rev'[r] # rev[r] /\ reader[r].pc = "loaded"
       /\ live[r][t] # Absent /\ Generation(live'[r][t]) = Generation(live[r][t])
       => live'[r][t].used - base'[r][t].used >= live[r][t].used - base[r][t].used]_vars
=============================================================================
