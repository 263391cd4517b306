# Thaqip: specifications and proofs

Thaqip collects Saudi public tenders from the Etimad portal (and Forsah), keeps
them in PostgreSQL, tells subscribers about changes, gathers award results, and
builds a pursuit workspace (the War Room) and price predictions on top.  This
directory holds TLA+ models of the parts whose correctness depends on the order
in which several processes act, the TLC configurations that check them, and
proofs of their main invariants for the TLA+ proof system.

All paths below are relative to the repository; `ingestion/` stands for
`services/ingestion/src/thaqip_ingestion/` and `app.py` for
`services/console/src/thaqip_console/app.py`.

## 1. The system

### 1.1 Parts, their state and their operations

| Part | State | Operations | Modelled in |
|---|---|---|---|
| Tender upsert (`ingestion/db.py`, `normalize.py`) | `tenders`, `ingest_events` | `upsert_tender`, called by poller, harvest lanes, `backfill.py`, `reconcile.py` | `TenderUpsert`, `OutboxTable` |
| Outbox relay (`ingestion/relay.py`) | `ingest_events.relayed_at`, Redis stream `thaqip.events` | `relay_batch` | `EventRelay` |
| Alert engine (`ingestion/alerts.py`) | consumer group `alerts` (cursor, pending list), `notifications`, `alert_profiles` | read, `handle`, acknowledge; the console's `delete_profile` | `AlertEngine` |
| Both, composed | the stream | | `EventPipeline`, contract `NotifyOnce` |
| Award results (`ingestion/awards_harvest.py`, `award_watch.py`) | `offers`, `awards`, `vendors`, `tender_award_first_seen`, `outcomes` | `store_awarding`, `AwardsHarvester.run` (fresh and backfill lane), `award_watch.main`, the console's `log_outcome` | `AwardStore` |
| Listing walk (`ingestion/awards_harvest.py`, `backfill.py`, `ops_health.py`) | `ingest_runs` and its checkpoints | `run`, `_load_checkpoint`, `close_stalled_runs`, the console's `acknowledge_ops_incident` | `BackfillWalk` |
| Poller and Etimad client (`ingestion/main.py`, `etimad/client.py`, `circuit_breaker.py`) | breaker, quiet time, `ingest_runs` | `run_pass_db`, `fetch_listing_page`, `CircuitBreaker`, watchdog | `PollLoop` |
| Digest (`ingestion/digest.py`) | `notifications` of a profile | digest run, alert engine, profile edits | `DigestQueue` |
| Reminders (`ingestion/reminders.py`, `milestone_reminders.py`) | `ingest_events`, `notifications` | hourly runs under moving dates | `DeadlineReminders`, `MilestoneReminders` |
| Telegram links (`services/console/src/thaqip_console/telegram.py`, `app.py`) | codes, `telegram_links`, profile targets, poll offset | `/start` of a code, linking, unlinking | `TelegramLinks` |
| Search indexer (`ingestion/indexer.py`) | Typesense, consumer group `indexer` | `follow`, `bulk` | `SearchIndex` |
| Prediction clock (`ingestion/prediction_clock.py`, migration 0019) | `price_predictions`, `prediction_feedback` | daily snapshot, scoring, console predictions and feedback | `PredictionClock` |
| Forsah connector (`ingestion/forsah.py`) | `tenders` of source forsah, events | `run`, `upsert` | `ForsahPull` |
| Reconciliation and audit (`ingestion/reconcile.py`, `audit.py`) | gap events, audit verdicts | `run`, `run_audit` | `CaptureChecks` |
| Entity resolution (`ingestion/resolution.py`) | `vendors`, `agencies`, their references | `dedupe_vendors`, `resolve_agencies` | `VendorMerge`, `AgencyLinks` |
| Eligibility and fit (`ingestion/eligibility_enrich.py`, `fit_score.py`) | `tender_details`, company profile | `enrich_batch`, `tender_fit` | `EligibilityFit` |
| BoQ workbench (`ingestion/boq.py`, `catalogue_match.py`, `item_benchmarks.py`, `boq_review.py`, `app.py`) | documents, lines, consents, `item_benchmarks` | upload, match, consent, benchmark job, review | `BoqPool`, `BoqReview` |
| War Room (`app.py`, `ingestion/pricing_seed.py`) | pursuits, simulations, outcomes | `create_pursuit`, `patch_pursuit`, `simulate_price`, `log_outcome`, seeding worker | `PursuitDesk` |
| Scenarios (`app.py`, `p2w/orchestrator.py`) | `user_bid_scenarios` | `create_scenario`, `persist_scenario` | `ScenarioVersions` |
| Price to win (`ingestion/p2w/`) | one snapshot of evidence per call | retrieval, market band, competitors, participation, simulation, optimizer, explanation, orchestration | `Evidence`, `MarketBand`, `CompetitorBand`, `Participation`, `BidOptimizer`, `Explanation`, `PriceToWin`, composed in `Prices` |
| Migrations (`ingestion/migrate.py`) | `schema_migrations` | `run_migrations`, `--baseline` | `SchemaMigrations` |
| Documents, War Room helpers, lane status, dashboards, deployment | | | not modelled (section 6) |

### 1.2 How they interact

```
 Etimad --pages--> poller, harvest lanes, backfill, reconcile
                        |  upsert_tender / store_awarding
                        v  (one transaction: rows + event)
                  PostgreSQL: tenders, awards, ingest_events
                        |  relay_batch: poll, XADD, mark
                        v
                  Redis stream thaqip.events
                        |  XREADGROUP ">"      |  XREADGROUP ">"
                        v                      v
                  alert engine             indexer -> Typesense
                        |  notifications, Telegram
                        v
                  profiles          console <-> PostgreSQL
```

The workers are docker services with `restart: unless-stopped`
(`docker-compose.yml`), the lanes are cron jobs
(`deploy/cron/thaqip.crontab`).  They share nothing but the database, the
stream and, between the two harvest lanes only, the file lock
`var/etimad_scrape.lock`.  Every `conn.transaction()` is READ COMMITTED, the
default of PostgreSQL and asyncpg.

### 1.3 What is hard, and what must hold

* **Upserts of one row by several processes.**  The stored hash is read without
  a lock.  The outbox must describe the rows anyway: the last event of a tender
  is about what is stored, there is one creation and it is first, a writer that
  lagged does not have the last word.
* **The outbox as a queue.**  Identity values are drawn before commit, so ids
  become visible out of order; the relay may die between publishing and marking.
  Nothing marked may be missing from the stream, causes come before effects,
  repetitions are paid for by crashes.
* **At-least-once delivery, at-most-once messages.**  Entries come again, the
  consumer is interrupted anywhere, profiles disappear while they are served.
* **Award results from two processes without a common lock.**  The count, the
  deletion and the insertions are separate statements; vendors are locked in the
  order of the bid table; the watcher works from an old list.  The time at which
  an award was first seen is the blindness cutoff of every prediction score.
* **A walk over a listing that moves.**  The listing grows at its head between
  the pages of a walk that takes days, sessions are cut short in five ways, and
  two other programs write into the same checkpoint column.

* **A poller that has to survive its source.**  Retries, a breaker whose
  failures are counted twice for a challenge, a watchdog shorter than some waits.
* **Jobs that overlap themselves.**  Cron starts a run whether or not the last
  one ended, and the console works on the same rows: digests, reminders,
  enrichment, merges, scoring, seeding and migrations all read first and write
  later, in statements of their own.
* **Predictions about the past.**  What the price models, the scorecard and the
  calibration may use is what was knowable at a cutoff, while harvests replace
  the very rows that say when something became knowable.
* **Numbers with a boundary.**  Quantiles of few observations, evidence floors,
  a best bid between two grid points under several constraints.

`PROJECT.json` lists each hazard at its line with the properties that cover it.

## 2. The modules

Names of variables and actions follow the code.  Each module's head comment says
what it models; every definition that models code has its lines in the `map` of
`PROJECT.json`.  Definitions marked "Mutant" are altered copies of the one after
them: they say which slip in the code a property would notice, and no
specification refers to them.

### OutboxTable, TenderUpsert

`OutboxTable` is the abstract table: an id is drawn, then its transaction
commits or is lost.  `TenderUpsert` is `upsert_tender` statement by statement,
run by several workers.  A worker observes the version that the source shows
(`Observe`), SELECTs, INSERTs or UPDATEs under the row lock, inserts the event
(drawing its id), and commits.  A *version* stands for the 24 canonical fields
and for their hash; `DeadlineOf` is the one field that `classify_change` asks
for besides.  A transaction may be lost anywhere (`Abort`).  `Tenders` are rows
of the newest pages, those which the poller sweeps.

### EventRelay, AlertEngine, EventPipeline, NotifyOnce

`EventRelay` extends `OutboxTable` with the relay: `Fetch` (WHERE relayed_at IS
NULL ORDER BY id LIMIT), one `Xadd` per entry because the pipeline is not a
transaction, `Mark`, and a crash at any point.  The history variable `seen`
keeps what was committed when an id was drawn.

`AlertEngine` is one consumer: `ReadGroup`, `StartEntry`, then `Claim` (INSERT
.. ON CONFLICT DO NOTHING), `Send`, `Record` or `SkipClaimed` for each profile,
and `Ack`.  `LostRead` is a read whose reply never arrives, `Raise` an exception
inside `handle` (before or after the message went out), `Crash` a restart,
`DeleteNotifications`/`DeleteProfile` the two statements of the console's
handler, `ForeignKeyError` what they can do to a claim.  Which profiles an event
is for is a constant (`Wanted`), since matching is a pure function of rows that
these steps do not change.  Alone, its stream receives arbitrary entries
(`Arrive`).

`EventPipeline` puts the two together: they share the stream.  Its contract,
`NotifyOnce`, has no outbox, relay, stream or consumer: an event happens, and
each profile may be told of it once.

### AwardStore

Two writers run `store_awarding`: the lane (whichever of the two jobs holds the
scrape lock) and the watcher.  `Count`, `Delete`, `InsertBidder` (the vendor
upsert, which locks the vendor's row), `Commit` are the transaction;
`DeadlockVictim` is PostgreSQL's resolution of two writers that wait for each
other.  `Visit` and `Find`/`Check` are how each writer comes to a tender, with
the age of what it knows; `Fetched` is what a page gives: the published award,
or, since a page counts as announced unless it says otherwise
(`etimad/awards.py:62-93`), bidders without awardees.  Such a result is stored
like any other: it deletes the awards that were there, writes none, and neither
dates the first sight nor announces.  `LogRead`/`LogWrite` are the two halves of
the console's `log_outcome`, `BackfillOutcome` the watcher's completion of an
outcome.  `now` counts transactions and stands for `now()`; `shown` (when awards
first were visible), `risen` (since when the present ones are) and the `sight`
of an event (`risen` of the awards that it announced) are history.

### BackfillWalk

A session opens a run, loads the newest checkpoint, fetches pages of a listing
numbered from its newest row, stores rows and checkpoints each page.  It ends
normally (`Pause`, an empty page), by a cool-off, an exception or a kill.
`CloseStalled` and `Acknowledge` are the watchdog and the console.  The listing
grows at any time (`ListTender`).  Its top-level names carry `Walk` (`WalkInit`,
`WalkSpec`), so that one module of proofs can extend it and `AwardStore`.

### PollLoop

`main.py` with the client it reads through, in ticks of half a minute.
`StartPass`, then for each page `BeforeRequest` (the kill switch, the breaker),
`Answer` (good, challenge, 429 or 400 with its wait, a failure, a body that does
not parse), `EndWait`, `StoreRows`; `Watchdog` cancels the pass after 240 s,
`RecordRun` writes its row, `Wake` ends the pause.  A breaker that refuses, an
exhausted retry and the kill switch leave `main` and the process is `down` until
`Restart` gives it a new breaker.  Two things of the code show in it: waits of a
429 are longer than the watchdog, so such a pass ends as cancelled and is
recorded without an error; a challenge counts as two failures.

### DigestQueue, DeadlineReminders, MilestoneReminders, TelegramLinks

One profile's queue, shared by the engine (`EngineRead`, `EngineClaim`,
`EngineSend`, `EngineRecord`) and the digest (`DigestStart`, `DigestSum`,
`DigestSend`, `DigestLog`, `DigestMark`): the digest's UPDATE takes whatever is
pending in the window by then, and the history `overlapped`/`cutOff` says which
rows came in between.  `DeadlineReminders` separates `Find`, `Check` and
`Insert` of `reminders.py`, with the closing date moving (`MoveDate`).  Its
check ignores the date, so an extended tender gets no second reminder of a
threshold.  `MilestoneReminders` claims by an INSERT under a unique index; a run
that dies after `Claim` strands that reminder for good, and a milestone that is
moved later keeps its claims.  `TelegramLinks` follows an update through
`Redeem`, `Link`, `Repoint`, `Answer`, each of which may fail (`StepFails`); the
offset is lost at `Restart` and updates come again.

### PursuitDesk, ScenarioVersions, PredictionClock

`PursuitDesk`: `create_pursuit` (look, insert), stages, `simulate_price`,
seeding by the worker and by the console at once, `log_outcome` against
`store_awarding`.  An INSERT of a simulation and its commit are two steps
(`kept`, `SimCommits`), so are the beginning and the commit of a measuring
statement (`OutcomeMeasure`/`OutcomeCommit`, `PricingAccuracy`/`Refreshed`); an
award is set, left without a value or deleted at any time (`StoreAward`).  The
history `due` names the simulations that were committed when an outcome was
reported with an award.  A what-if simulation that is kept first means no
baseline is ever seeded, and seedings that overlap leave more than one: each
selection of a pursuit during another seeding of it is counted (`overlaps`).
`ScenarioVersions`: versions appended by requests
(one transaction) and by the engine (three statements); creations that overlap
may leave two heads, which the next one heals.  `PredictionClock`: snapshot
(`Select`, `Compute`, `Store`) and scorecard (`ScoreRead`, `ScoreInsert`) by
overlapping runs.  A tender can be counted twice when the opening moves after a
scoring, when a prediction is stored after the award it precedes, or when
scorings overlap (`loose`); otherwise once, as 0019:64-65 says.

### BoqPool, BoqReview

`BoqPool`: parsing of a sheet (header within the first rows, end after a streak
of blank rows), suggestion, confirmation by a user or by a service token without
one, consent, deletion, and the job whose aggregate (`Materialize`) is written
item by item (`Upsert`).  `get_item_benchmark` serves the latest period however
old, which `Served` says.  `BoqReview` is the review as a pure function of the
lines, with descriptions compared by their first 60 characters.  What the text
matcher says of an earlier line and a later one is part of the sheet (`like`):
any outcome, since its ratio depends on which text comes first.

### SearchIndex, SchemaMigrations, ForsahPull, VendorMerge, AgencyLinks, EligibilityFit, CaptureChecks

Jobs that overlap themselves or others; each separates its reads from its
writes.  `SearchIndex`: follower and bulk race; the index holds the row's
current state unless a batch was lost, refused, came before the group or raced
(`missed`, `raced`).  `SchemaMigrations`: runners with one directory and one
table of versions.  `ForsahPull`: `Page`, `Look`, `Compare`, `Write`, where
one event stands for all that changed and a rise in bids takes precedence.
`VendorMerge`: `List`, `Repoint`, `Remove` against `StoreLink`/`StoreCommit`;
a vendor named between them ends the run by its foreign key.  `AgencyLinks`:
spellings grouped per run, so a later spelling can make a second agency; upserts
rewrite the spelling of a tender at any time, and one that is linked already
keeps the agency of the spelling it was linked by (`linkedAs`).
`EligibilityFit`: a failed fetch is stored as nulls and not tried again.
`CaptureChecks`: the nightly walk over the head and the weekly audit, over a
listing that moves between pages.

### Price to win: Evidence, MarketBand, CompetitorBand, Participation, BidOptimizer, Explanation, PriceToWin

The models compute in floating point; here numbers are exact fractions, and
logistic, exponential and logarithm, being monotone, are left off.  `Evidence`
holds the fractions and what the models share of `evidence.py`: the ladder of tiers (how many observations, how many
effective ones).  `MarketBand` reads the comparables twice, as `market.py` does
(`Assess`, `MarketQuantiles`), with harvests between; its quantiles are weighted
by score and age.  `CompetitorBand` fits a vendor's log ratios and pools them
toward its category.  `Participation` scores candidates and replays the same
scoring (`Calibrate`).  `BidOptimizer` draws scenarios (every drawing is a
choice), tries each grid price on them, and finds the best feasible bid on the
interpolated curve.  `Explanation` reads awards and vendors again after the
band.  `PriceToWin` runs the stages, each of which may fail, and keeps the
ceilings on the capability level.  Three traits of the code to know: a level does
not imply those below it, although `orchestrator.py:30-32` says so (vendors whose
probability is suppressed can still be priced, which is worth L3 or L4); a failed
similarity search caps the level at L0 while the market model fetches for itself,
so figures can accompany L0; the ceiling of a failed explanation is the top level
and changes nothing.

### Workspace, Corpus, Prices, MCWorkspace

The components of this part share tables with each other but take no step
together, so they stand side by side: the first state chooses one (`focus`), and
`v1` .. `v12` hold its variables.  `Workspace` has nine of them, what a bidder's
requests and reminders do, and `Corpus` seven, the jobs around the corpus and the
BoQ pool.  `Prices` has, in the same way (`model`, `m1` .. `m9`), the six that
compute prices from the corpus and the review of a sheet.  Their parameters are
CONSTANTS under named assumptions, and `WorkspaceProofs`, `CorpusProofs` and
`PriceProofs` are about them.  `MCWorkspace` puts the three side by side
(`WholeSpec`), gives a small instance of each component, and is what TLC runs.  A
property is a conjunction of those of the components it
names (`BandsAreHonest` is about the market, the competitor and the
explanation).  `MarketSpec`, with another corpus (`Markets`), looks at one
question of the market band alone.

## 3. The runs

| Run | Module | Expect | What it shows |
|---|---|---|---|
| `tender_upsert` | `MCTenderUpsert` | pass | rows and events agree, one creation, convergence, refinement of `OutboxTable` |
| `tender_replay` | `MCTenderUpsert` | violation | a replayed version emits an event |
| `event_pipeline` | `MCEventPipeline` | pass | delivery, causality, at most one message, refinement of `NotifyOnce`, progress |
| `alert_loss` | `MCEventPipeline` | violation | an interrupted entry is never handled again |
| `award_store` | `MCAwardStore` | pass | cutoff, announcement, end of every session, pursued awards stored |
| `award_twice` | `MCAwardStore` | violation | overlapping writers announce an award twice |
| `outcome_lost` | `MCAwardStore` | violation | an outcome stays without its award value |
| `backfill_walk` | `BackfillWalk` | pass | no gap behind a checkpoint, progress kept, history covered |
| `backfill_resume` | `BackfillWalk` | violation | the walk starts over after the watchdog closed its run |
| `poll_loop` | `PollLoop` | pass | breaker and count agree, quiet after a challenge, a living poller records its runs, passes complete again once the source answers |
| `workspace` | `MCWorkspace` | pass | what the 22 components promise under overlaps, failures and deaths (below) |
| `market_leak` | `MCWorkspace` | violation | a band for a past date is drawn from an award that was not yet known then |

`workspace`, by property:

* `BestBidIsFeasible`: the optimizer's bid is feasible and no allowed price, on
  the grid or between its points, has a better expected contribution; a refusal
  means that no price is allowed; its bands keep the constraints, the simulation
  adds up.
* `BandsAreHonest`: quantiles are ordered, from rows on record, and claim no tier
  that the sample misses; a competitor's band lies between its history and its
  category and uses no offer of the subject; the facts shown are on record, those
  of the sample unless it moved, and a band without facts is warned of.
* `CalibratesWhatIsServed`: the replayed probability is what `candidate_bidders`
  would have said that day, for a tender that has an activity.
* `LadderIsEarned`: no capability level without its stages, no curve without a
  field; no "compliant" without a fetched page.
* `OneHead`, `AccuracyIsBlind`, `DeskIsMeasured`: one current scenario; the
  scorecard counts predictions older than the first sight of the award, once; one
  baseline and one more for each selection that overlapped a seeding of the same
  pursuit; simulations committed when an outcome was reported with an award are
  measured once it is logged, and stay so.
* `ReviewIsSound`: the review of a sheet accuses no pair of lines both ways and
  accuses only real inversions; it finds the same in any order of the lines,
  except between lines that only the text matcher brings together.
* `RemindersReachOnce`: digests, deadline and milestone reminders go out once and
  are called sent only then; a code links one chat.
* `CorpusIsKept`: the index holds the newest change or a job has it in hand;
  migrations are recorded with their statements, once and in order; the events of
  an opportunity tell its changes; merging takes no offer from its
  vendor; agencies unite the spellings that tenders were linked by; the checks of what was captured heal and count what
  they claim to; withdrawn documents feed no later benchmark and none is served
  on fewer than the minimum of tenants.

Each of these holds with its excuse where the code has a race: the excuse is a
history variable that is set by the race and by nothing else, named in the
component's module.

Every property of a passing run has a mutant in `PROJECT.json`: a change of one
mapped definition under which TLC finds that property violated.  For a property
of `workspace` the mutant concerns one of its components; the module of every
other component has one too, which violates the same property.

### Bounds

* `tender_upsert`: one tender, two workers, three versions (the second changes
  the tender, the third its deadline, so that all event types occur), one lost
  transaction.  Tenders do not interact except through the id sequence; two
  workers are what every race in the code needs, and the theorems cover more.
* `event_pipeline`: two events, the first for two profiles (one of them with a
  daily digest) and the second for one; batches of one, so that a batch boundary
  falls between the events; one relay crash, one interruption, one deletion.
  Deadlock is not checked: with the bounded ids all published and handled the
  system rests.
* `award_store`: two tenders whose bid tables list the same two vendors in
  opposite orders, one of them pursued, one lost session or page without
  awardees.  `award_twice` and `outcome_lost` need one tender and neither.
* `backfill_walk`: pages of two, four tenders at first and one more during the
  walk, seven sessions, two troubles.  Seven sessions are enough to cover the
  history after two restarts at the slowest pace (one page a session), which is
  why `HistoryIsCovered` can be asked; afterwards no session opens, and deadlock
  is not checked.
* `poll_loop`: the configuration of the code (threshold 4, recovery 300 s, five
  retries, watchdog 240 s, pauses of 300 and 600 s) in ticks of 30 s, and a
  listing of three pages of which a pass reads at most two, so that both ends of
  the page loop occur.
* `workspace`: two actors of each kind that overlaps itself, and two or three of
  what they work on: three comparables with thresholds of two and three so that
  every tier occurs; three grid prices and two rivals, so that the best bid falls
  between grid points and constraints cut it; two spellings of one name and
  one of another; sheets of three lines with three outcomes of the text matcher;
  two documents of two tenants with a minimum of two.  Clocks
  stop after two to eight ticks, just beyond the longest window of the component
  (two days for a digest, both thresholds of a deadline, three days of a
  milestone), except that the benchmark's look-back of a year is never over;
  changes, failures and deaths are bounded by one to three.  The members of a pair are interchangeable (`SYMMETRY`; the run has no liveness
  property).  A component rests when its bounds are used up, hence no deadlock
  check.
* `market_leak`: the market band with three comparables that all opened in the
  first of three years.

### Fairness

* `PollLoop`: the process goes on, time passes, docker restarts what died (weak
  fairness of each).  Nothing obliges the source: `CompletesAgain` is asked from
  the moment `calm` on, after which the source answers and the switch is off.
* `TenderUpsert`: a worker goes on with its transaction (weak fairness of its
  steps), and the poller comes back to every tender (strong fairness of
  `Observe(Poller, t)`: its loop sweeps the newest pages every five minutes and
  is restarted when it dies).  Other workers are not obliged to start anything.
* `EventPipeline`: relay and consumer keep stepping (docker restarts them).
  Transactions, console, crashes and errors are not obliged to happen.
* `AwardStore`: the watcher is started by cron again and again and works
  through its list; a transaction that began goes on; a write that
  `log_outcome` has read for is made.  No lane is obliged to meet a tender.
* `BackfillWalk`: cron starts a session every hour and a session goes on.

## 4. Where code and documentation differ

1. `db.py:5` "Replaying an unchanged row performs no write and emits no event":
   two processes with the same new version both pass the hash comparison
   (`db.py:95`, no lock) and both emit (`tender_replay`).  Events and row still
   agree (`LatestEventDescribesRow`).
2. `alerts.py:3-5`, `alerts.py:195` "left unacked for retry": the consumer reads
   only `">"`, so unacknowledged entries are never retried (`alert_loss`).
3. `awards_harvest.py:5` "once per tender": the watcher shares no lock with the
   lanes, both may count zero awards (`award_twice`).  A second announcement
   of the same awards needs overlapping transactions (`AnnouncedAtFirstSight`);
   awards that a page without awardees erased are announced again when they
   return.
4. `award_watch.py:5-6` "outcome award_value back-filled": only if the watcher,
   not a lane, stores the award (`outcome_lost`).
5. `backfill.py:4-6` "RESUMES from the last completed page instead of
   restarting": the watchdog replaces the checkpoint of the run it closes with a
   note, and the next session starts at page 1 (`backfill_resume`).  No page is
   skipped by it (`NoGapBehindCheckpoint`).
6. `p2w/market.py:14-16`, `p2w/evidence.py:33-35` promise that only what was
   knowable at the cutoff is used: `similarity.py:348` dates a comparable by the
   opening of its offers, so an award decided after `as_of` on offers opened
   before it is in the sample (`market_leak`).

## 5. The proofs

All theorems hold for every value of the constants that satisfies the named
assumption of the module (`UpsertAssumption`, `RelayAssumption`,
`AlertAssumption`, `PipelineAssumption`, `AwardAssumption`, `WalkAssumption`,
`PollAssumption`, `WorkspaceAssumption`, `CorpusAssumption`, `SheetAssumption`,
`BidAssumption`, `MarketAssumption`, `RivalAssumption`, `PastAssumption`,
`ShownAssumption`, `ReviewAssumption`).
Each safety property is a conjunct, or a consequence, of an inductive invariant
`IInv`; what makes it inductive is the interesting part.

* `TenderUpsertProofs`.  A transaction past its write holds the row lock
  (`LockInv`), so the id it draws exceeds the ids of all committed events of its
  tender (`IdInv`), and whether the row existed when it was read is still true
  (`ReadInv`).  Without these, `LatestEventDescribesRow` and
  `CreatedOnceAndFirst` are not preserved by `Commit`.  `SpecRefinesOutbox` adds
  that ids of open transactions are distinct.
* `EventPipelineProofs`, the relay.  ORDER BY id LIMIT takes a downward closed
  part of the unmarked rows (`FirstIdsDown`), so a batch contains what was
  committed when one of its ids was drawn, unless that is marked already
  (`BatchInv`); what is behind the pipeline's position is in the stream
  (`SentInv`).  `DuplicatesNeedCrashes` counts copies against crashes (`CopyInv`).
* `EventPipelineProofs`, the alert engine.  The message in hand is claimed and has
  not gone out (`HandInv`); a profile of the entry in hand is still to be served
  or has its row (`ServedInv`).  `StrandsAreInterruptions` needs a cardinality
  argument: a step adds a stranded notification only with an interruption
  (`StrandInv`).
* `EventPipelineProofs`, the two together.  The pipeline is the relay seen from
  one side (`SpecIsRelay`) and the alert engine fed with arbitrary entries seen
  from the other (`SpecIsAlerts`), so that the theorems about the parts hold of
  the whole.  `SpecImplementsContract` proves the refinement of `NotifyOnce`: a
  message that goes out is of an entry, hence of a committed event, and is the
  profile's first.
* `HarvestProofs`, the store.  Awards can vanish, so a count proves nothing of the
  present: one above zero means that awards have been seen, and one of zero dates
  the transaction before the awards that are there now, if any (`CountInv`, with
  `risen`); of two transactions on one tender only one holds its rows
  (`DeleteInv`); the first event is dated like the cutoff (`ShownInv`).
* `HarvestProofs`, the walk (`WalkInv`).  A listing that grows at its head moves rows to later
  pages only (`CoveredStays`); a session has covered what lies before the page
  in hand (`SessionInv`); a run without a note reads as page 0 (`RunInv`);
  whatever can be loaded lies before the page in hand (`ProgressInv`).

* `PollLoop`, at its end.  While it acts, a poller has been quiet for the pause that a
  challenge asks for, and while it sleeps the quiet so far and the sleep left add
  up to that (`QuietInv`).  The time without a record is the sleep before the pass
  and the time of the pass, which the watchdog bounds (`RecordInv`).  That a
  challenge counts twice does not confuse the breaker, because `Failure` opens it
  at the threshold and counts no further (`FailureIsFine`).
* `WorkspaceProofs`.  `Workspace` follows one of its nine components, so its
  inductive invariant is that of the component at work; each module states its
  own, at its end.
  * `PriceToWin` (`LadderInv`): what each stage finds when the call gets there,
    and that a field without a curve has left a cap behind.
  * `EligibilityFit` (`FitInv`): one batch at a time has the tender in hand, and
    none once its row is there; details that say anything were stored as those
    of a fetched page.
  * `ScenarioVersions` (`HeadInv`): whoever is alone knows the newest row, and
    the current rows are the newest and what an engine has still to supersede.
  * `PredictionClock` (`ScoreInv`): what is about to be scored was blind when it
    was read and stays so, because the first sight of an award never moves;
    while nothing is loose it is the latest blind prediction, in one place.
  * `PursuitDesk` (`DeskInv`): a seeding under way is a baseline to come, and both
    together are one more than the overlaps counted, at most; what a request is
    about to write is a value, and covers what is due.
  * `DigestQueue` (`DigestInv`): a notification that did not overlap has one
    sender, and what that sender has told it is what the row will say.
  * `DeadlineReminders` (`DeadlineInv`): what was due at each tick gone by has
    been emitted, by the run of that tick.
  * `MilestoneReminders` (`MilestoneInv`): a claim has one holder, who accounts
    for its messages.
  * `TelegramLinks` (`LinkInv`): a code is spent before it links.
* `CorpusProofs`, in the same way for the seven components of `Corpus`.
  * `SearchIndex` (`IndexInv`): the newest version of a tender that did not race
    is in the index, missed, in a batch of the follower or of the bulk run, or its
    entry is still in the stream or in hand (`NewestInv`); versions are never
    ahead of the row, and a batch that was read holds the tenders of its entries
    (`DocsInv`).  That one version is ahead of another is arithmetic; that a
    batch holds one document per tender needs the last entry of each.
  * `SchemaMigrations` (`SchemaInv`): a runner alone has in hand only files that
    are not recorded yet (`Listed`, `InTurn`); what is recorded precedes what is
    not, and what it has in hand precedes what it did not list, except late files.
  * `ForsahPull` (`ForsahInv`): while pulls have not overlapped, the one at work
    compares with the row that stands (`InHand`, `Alone`), which has the count of
    the rise announced last, so a rise starts where the one before ended
    (`RisesAddUp`).
  * `VendorMerge` (`MergeInv`): groups of the run are apart and of one key each
    (`GroupsInv`); the vendor that an open store has looked up still has its name,
    or is gone and unknown to the run (`StoreInv`); an offer that the run has
    locked keeps its vendor until the run lets go (`LocksInv`).
  * `AgencyLinks` (`AgencyInv`): a group that is still to be linked shares its key
    with no other group, and with no spelling by which this run has linked a
    tender.
  * `CaptureChecks` (`CaptureInv`): a listing is in order of publication, so that
    what a walk has passed moves down only (`ListingInv`, `WalkInv`); pages of a
    listing that stands still share no row, so the sample holds a tender once
    (`SampleInv`), and captured and missing add up to it (`CountsOfSample`): a
    surjection from the places found onto the tenders found, injective in that
    case.  `HeadWasWalked` derives the completeness of the head from it.
  * `BoqPool` (`PoolInv`): lines in hand and lines written are of documents
    consented to, or withdrawn on their day or later; the clock only advances,
    so a withdrawal cannot precede what is already in hand.

* `EvidenceProofs` and `PriceProofs`, for the components of `Prices`.  Three things
  stand where other proofs have induction over data, most of them lemmas about the
  operators of `Evidence` (`EvidenceProofs`):
  * *Fractions.*  The operators keep whatever denominators arise, and two
    fractions may be the same number.  Finitely many fractions have a common
    denominator (`CommonDenominator`), over which a fraction stands for an integer
    (`StandsFor`), its operations are those of the integers (`PlusStands`,
    `TimesStands`, `OverStands`, `LeqStands`), and an order of fractions is one of
    integers.
  * *Folds.*  A sum over a finite set is the value of any function on its subsets
    that starts at zero and adds one member at a time; such a function exists
    (`SumExists`) and has one value (`SumIsUnique`), so a fold is that value
    (`FoldExists`), without induction inside the fold.
  * *Least counterexamples.*  What an induction on numbers would say is shown by
    taking the least number for which it fails (`LeastExists`, from the
    well-foundedness of the natural numbers); ranks in a finite total order
    (`Ranking`) carry that over to sorted data.

  With these:
  * `BidOptimizer` (`BidInv`): the credits of a price are a sum over the scenarios
    of what each pays, which is no more at a higher price, so the curve falls
    (`CreditsFall`) and no piece of it rises.  On a piece that falls the
    contribution is a parabola, the greater the nearer to its peak (`SquareOrder`,
    `GainOrders`), so that an end or the vertex is best (`CandidatesAreBest`); what
    floor, cap and target leave of the pieces is exactly what they allow
    (`FeasibleIs`, `AllowedIsLeft`).  A band runs from where one such piece starts
    to where one ends, however many touch (`TouchingIs`, `RangeAroundIs`), so both
    its ends are allowed.
  * `MarketBand` (`BandInv`): a weighted quantile is a mean of two neighbours in
    the order of the sample (`QuantileIs`), the places to which quantiles refer
    climb with them, and mirrored around the centre they still do; the sample is
    of awards on record, and harvests after the question do not move its cutoff.
  * `CompetitorBand` (`PoolingInv`): a pooled centre is a weighted mean of the
    competitor's own and its category's, hence between them, and the history
    leaves out the subject.
  * `Participation` (`ReportInv`): both scores, replayed and served, depend on the
    record only through what opened before the day, which later harvests leave
    alone.
  * `Explanation` (`ShownInv`): what was read is on record until it moves.
  * `BoqReview` (`ReviewInv`): reversing a sheet is a bijection of its lines that
    keeps sums, groups and maxima, so that findings are reversed with it, but for
    what the text matcher adds.

Only model-checked: the liveness properties (`RowConverges`,
`CommittedIsPublished`, `EntriesAreTaken`, `SessionsEnd`,
`PursuedAwardIsStored`, `HistoryIsCovered`, `CompletesAgain`), which are out of
the prover's reach.  `WholeTypeOK` is proved in three parts, one for each of
`Workspace`, `Corpus` and `Prices`.  The theorems are about `Spec`,
`CorpusSpec` and `PriceSpec`; the behaviours of `WholeSpec` that follow one of
their components are behaviours of these, since no step changes `focus` or
`model`.

## 6. What is abstracted, and not modelled

Abstracted:

* Texts, payloads, rendering, matching of profiles, parsing of pages and cards.
* Text similarity (trigram, embeddings): a constant of two texts.  For the review
  of a sheet it is what the instance says of each pair of lines, in their order.
* Floating point: exact fractions, monotone functions left off; seeds and
  sampling are replaced by every possible drawing.
* Trimming of the stream (a million entries) and batch sizes beyond the bounds.
* More than one lane at a time: the scrape lock excludes it.
* `enrich_pursuits` of the watcher and `record_run`: they write tables that no
  property here is about.
* `--page-size` changes between sessions of a walk.
* `AwardStore` takes an award that is stored to have a value; `PursuitDesk` has
  those without.  Neither has awards worth zero.
* `PursuitDesk`: bidder counts and the win baseline of `create_pursuit`, the
  scoring of hypotheses by their age, the stage `submitted` apart from the
  results.  A simulation that commits after the outcome's award was read may stay
  unmeasured until the next refresh, and an award that is gone again between the
  reading and the measuring measures nothing: neither is `due`.

Not modelled:

* Sessions, users and permissions of the console, its lists, exports and
  dashboards: reads, or writes that no other part relies on.
* `calculate_price_simulation`: arithmetic over one request's input.
* `warroom.py` and `ingest_file`: no caller in the product; `persist_scenario`
  has none either, but shares a table with `create_scenario` and is modelled.
* Documents, crawlers, cookie providers, the LLM gateway and the object store:
  I/O.  `freshness.py`, lane status, the stale sweep of `reconcile.py`: they read
  and report.
* `milestone_reminders.py` and `item_benchmarks.py` have no line in the crontab
  of the repository; their modules assume that an operator starts them.
* Deployment, backup and restore scripts.

## 7. Plan

1. The composition of `AwardStore` with `AlertEngine`: which pursued awards are
   broadcast and which the historical mark keeps silent (a hazard without a
   property).
2. `BackfillWalk` with sessions of different page sizes.
