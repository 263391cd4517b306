---------------------------- MODULE TenderUpsert ----------------------------
(***************************************************************************)
(* The write side of the transactional outbox: db.upsert_tender.           *)
(*                                                                         *)
(* The poller, the two award-harvest lanes, the historical backfill and    *)
(* the nightly reconciliation are separate processes.  Each fetches a      *)
(* listing page and, row by row, runs upsert_tender in one READ COMMITTED  *)
(* transaction: SELECT the stored hash, then INSERT or UPDATE the tender,  *)
(* then INSERT the event.  The SELECT takes no lock, so what it read may   *)
(* be gone when the UPDATE gets the row.                                   *)
(*                                                                         *)
(* A version stands for the 24 canonical fields of a listing row (and for  *)
(* their hash): the source's versions of one tender are numbered from 1.   *)
(***************************************************************************)
EXTENDS Naturals, FiniteSets

CONSTANTS
  Tenders,      \* rows on the source's newest pages, which the poller sweeps,
                \* keyed by (source, source_tender_id)
  Workers,      \* processes that call upsert_tender
  Poller,       \* the one of them that sweeps the listing for ever
  MaxVersion,   \* bound: versions the source publishes of one tender
  DeadlineOf,   \* the last_offer_date that a version carries
  Nobody,       \* holds no row lock
  MaxAborts     \* bound: transactions lost to a crash or a dropped connection

ASSUME UpsertAssumption ==
  /\ Poller \in Workers
  /\ Nobody \notin Workers
  /\ MaxVersion \in Nat \ {0}
  /\ MaxAborts \in Nat
  /\ DOMAIN DeadlineOf = 1..MaxVersion

NoRow == 0                        \* the tender is not in the table yet
Versions == 1..MaxVersion
EventTypes == {"tender.created", "tender.extended", "tender.updated"}

VARIABLES
  site,     \* the source's current version of each tender (NoRow: unpublished)
  row,      \* the committed tenders row
  lock,     \* the transaction holding the row (or its unique key)
  nextId,   \* the identity sequence of ingest_events
  events,   \* the committed outbox rows
  pc,       \* where each worker stands in upsert_tender
  job,      \* the tender and version of the listing row it is upserting
  read,     \* what its SELECT returned
  eventId,  \* the id its event INSERT drew from the sequence
  aborts    \* transactions lost so far

vars == <<site, row, lock, nextId, events, pc, job, read, eventId, aborts>>

Job == [tender : Tenders, version : Versions]

\* "over" is not a column: it is the version the commit replaced, kept so that
\* properties can compare an event with the change it accompanies.
Event == [id : Nat, tender : Tenders, type : EventTypes,
          to : Versions, over : {NoRow} \cup Versions]

TypeOK ==
  /\ site \in [Tenders -> {NoRow} \cup Versions]
  /\ row \in [Tenders -> {NoRow} \cup Versions]
  /\ lock \in [Tenders -> Workers \cup {Nobody}]
  /\ nextId \in Nat \ {0}
  /\ events \subseteq Event
  /\ pc \in [Workers -> {"idle", "select", "insert", "update", "event", "commit"}]
  /\ job \in [Workers -> Job]
  /\ read \in [Workers -> {NoRow} \cup Versions]
  /\ eventId \in [Workers -> Nat]
  /\ aborts \in 0..MaxAborts

Init ==
  /\ site = [t \in Tenders |-> NoRow]
  /\ row = [t \in Tenders |-> NoRow]
  /\ lock = [t \in Tenders |-> Nobody]
  /\ nextId = 1
  /\ events = {}
  /\ pc = [w \in Workers |-> "idle"]
  /\ job \in [Workers -> {j \in Job : j.version = 1}]
  /\ \A w, x \in Workers : job[w] = job[x]
  /\ read = [w \in Workers |-> NoRow]
  /\ eventId = [w \in Workers |-> 0]
  /\ aborts = 0

Goto(w, step) == pc' = [pc EXCEPT ![w] = step]
At(w, step) == pc[w] = step

-----------------------------------------------------------------------------
(* The source and the fetch of a listing page. *)

\* The entity publishes the tender or edits it.
Publish(t) ==
  /\ site[t] < MaxVersion
  /\ site' = [site EXCEPT ![t] = @ + 1]
  /\ UNCHANGED <<row, lock, nextId, events, pc, job, read, eventId, aborts>>

\* A worker holds a listing row; other rows of the page, pauses and retries
\* separate it from the upsert, so the source may have moved on by then.
Observe(w, t) ==
  /\ At(w, "idle")
  /\ site[t] # NoRow
  /\ job' = [job EXCEPT ![w] = [tender |-> t, version |-> site[t]]]
  /\ Goto(w, "select")
  /\ UNCHANGED <<site, row, lock, nextId, events, read, eventId, aborts>>

-----------------------------------------------------------------------------
(* The statements of upsert_tender. *)

\* Mutant: an edit of the status named with a type the consumers do not know.
Classify_NewType(old, new) ==
  IF old = NoRow THEN "tender.created" ELSE "tender.status"

\* diff_fields and classify_change on the row that was read.
Classify(old, new) ==
  CASE old = NoRow -> "tender.created"
    [] old # NoRow /\ DeadlineOf[old] # DeadlineOf[new] -> "tender.extended"
    [] OTHER -> "tender.updated"

\* Mutant: a row that exists is taken for a replay without comparing hashes.
Select_NeverUpdates(w) ==
  LET j == job[w] IN
  /\ At(w, "select")
  /\ read' = [read EXCEPT ![w] = row[j.tender]]
  /\ Goto(w, IF row[j.tender] = NoRow THEN "insert" ELSE "idle")
  /\ UNCHANGED <<site, row, lock, nextId, events, job, eventId, aborts>>

\* SELECT id, content_hash, payload; an equal hash returns at once.
Select(w) ==
  LET j == job[w] IN
  /\ At(w, "select")
  /\ read' = [read EXCEPT ![w] = row[j.tender]]
  /\ Goto(w, CASE row[j.tender] = NoRow -> "insert"
               [] row[j.tender] = j.version -> "idle"
               [] OTHER -> "update")
  /\ UNCHANGED <<site, row, lock, nextId, events, job, eventId, aborts>>

\* Mutant: ON CONFLICT DO UPDATE, so that the loser of the race goes on.
Insert_OnConflictUpdate(w) ==
  LET t == job[w].tender IN
  /\ At(w, "insert")
  /\ lock[t] = Nobody
  /\ lock' = [lock EXCEPT ![t] = w]
  /\ Goto(w, "event")
  /\ UNCHANGED <<site, row, nextId, events, job, read, eventId, aborts>>

\* INSERT ... ON CONFLICT DO NOTHING waits for a transaction that is inserting
\* the same key; a row that is there by then ends the call without an event.
Insert(w) ==
  LET t == job[w].tender IN
  /\ At(w, "insert")
  /\ lock[t] = Nobody
  /\ \/ /\ row[t] = NoRow
        /\ lock' = [lock EXCEPT ![t] = w]
        /\ Goto(w, "event")
     \/ /\ row[t] # NoRow
        /\ Goto(w, "idle")
        /\ UNCHANGED lock
  /\ UNCHANGED <<site, row, nextId, events, job, read, eventId, aborts>>

\* UPDATE ... WHERE id = $n waits for the row lock and then overwrites whatever
\* is there: the hash it was compared with is not part of the WHERE clause.
Update(w) ==
  LET t == job[w].tender IN
  /\ At(w, "update")
  /\ lock[t] = Nobody
  /\ lock' = [lock EXCEPT ![t] = w]
  /\ Goto(w, "event")
  /\ UNCHANGED <<site, row, nextId, events, job, read, eventId, aborts>>

\* Mutant: the event INSERT sent to the pool, outside the transaction.
InsertEvent_OnPool(w) ==
  LET j == job[w] IN
  /\ At(w, "event")
  /\ eventId' = [eventId EXCEPT ![w] = nextId]
  /\ nextId' = nextId + 1
  /\ events' = events \cup {[id |-> nextId, tender |-> j.tender,
                             type |-> Classify(read[w], j.version),
                             to |-> j.version, over |-> row[j.tender]]}
  /\ Goto(w, "commit")
  /\ UNCHANGED <<site, row, lock, job, read, aborts>>

\* INSERT INTO ingest_events draws the id, before the commit makes it visible.
InsertEvent(w) ==
  /\ At(w, "event")
  /\ eventId' = [eventId EXCEPT ![w] = nextId]
  /\ nextId' = nextId + 1
  /\ Goto(w, "commit")
  /\ UNCHANGED <<site, row, lock, events, job, read, aborts>>

Commit(w) ==
  LET j == job[w] IN
  /\ At(w, "commit")
  /\ row' = [row EXCEPT ![j.tender] = j.version]
  /\ events' = events \cup {[id |-> eventId[w], tender |-> j.tender,
                             type |-> Classify(read[w], j.version),
                             to |-> j.version, over |-> row[j.tender]]}
  /\ lock' = [lock EXCEPT ![j.tender] = Nobody]
  /\ Goto(w, "idle")
  /\ UNCHANGED <<site, nextId, job, read, eventId, aborts>>

\* The process dies, the watchdog cancels the sweep or the connection drops:
\* the transaction rolls back, the id it drew stays unused.
Abort(w) ==
  LET t == job[w].tender IN
  /\ ~At(w, "idle")
  /\ aborts < MaxAborts
  /\ aborts' = aborts + 1
  /\ lock' = IF lock[t] = w THEN [lock EXCEPT ![t] = Nobody] ELSE lock
  /\ Goto(w, "idle")
  /\ UNCHANGED <<site, row, nextId, events, job, read, eventId>>

Step(w) ==
  Select(w) \/ Insert(w) \/ Update(w) \/ InsertEvent(w) \/ Commit(w)

Next ==
  \/ \E t \in Tenders : Publish(t)
  \/ \E w \in Workers, t \in Tenders : Observe(w, t)
  \/ \E w \in Workers : Step(w)
  \/ \E w \in Workers : Abort(w)

\* A worker that has begun a transaction goes on with it (or loses it: Abort).
\* Only the poller is sure to look again: its loop sweeps the newest pages for
\* ever, while the other callers are cron jobs that may not run.
Fairness ==
  /\ \A w \in Workers : WF_vars(Step(w))
  /\ \A t \in Tenders : SF_vars(Observe(Poller, t))

Spec == Init /\ [][Next]_vars
FairSpec == Spec /\ Fairness

-----------------------------------------------------------------------------
(* Properties. *)

EventsOf(t) == {e \in events : e.tender = t}

\* The outbox's latest word on a tender is the content of its row, however
\* writers interleave: the event of the highest id describes the version that
\* is stored, and a tender without a row has no event (db.py: "an event exists
\* iff the row change it describes was durably stored").  It needs the UPDATE
\* before the event INSERT: ids of one tender are drawn under its row lock.
LatestEventDescribesRow ==
  \A t \in Tenders :
    /\ row[t] = NoRow => EventsOf(t) = {}
    /\ row[t] # NoRow =>
         \E e \in EventsOf(t) :
           e.to = row[t] /\ \A f \in EventsOf(t) : f.id <= e.id

\* Every stored tender was announced as created exactly once, and by the event
\* of the lowest id: racing inserts are settled by the unique key, so that a
\* consumer in id order meets "created" before any change.
CreatedOnceAndFirst ==
  \A t \in Tenders : row[t] # NoRow =>
    \E e \in EventsOf(t) :
      /\ e.type = "tender.created"
      /\ \A f \in EventsOf(t) \ {e} : f.type # "tender.created" /\ f.id > e.id

\* Once the source stops editing, the stored row ends up at its last version
\* and stays there: a writer that lagged and put an older version back is
\* corrected by a later sweep, never the last to write.  (Of a tender that has
\* left the newest pages nothing of the kind can be said.)
RowConverges ==
  \A t \in Tenders : site[t] = MaxVersion ~> [](row[t] = MaxVersion)

\* The transactions of upsert_tender draw, commit and lose outbox ids as
\* OutboxTable says: what the relay is proved about holds of their events.
Outbox ==
  INSTANCE OutboxTable WITH
    open <- {eventId[w] : w \in {x \in Workers : pc[x] = "commit"}},
    committed <- {e.id : e \in events}

ImplementsOutbox == Outbox!OutboxSpec

\* db.py: "Replaying an unchanged row performs no write and emits no event".
\* Every change event accompanies a change of the stored row.
NoEventWithoutChange == \A e \in events : e.over # e.to

=============================================================================
