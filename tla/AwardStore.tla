----------------------------- MODULE AwardStore -----------------------------
(***************************************************************************)
(* Award results: awards_harvest.py (fresh and backfill lanes),            *)
(* award_watch.py and the console's log_outcome.                           *)
(*                                                                         *)
(* Two processes store awards.  The lane is whichever of the two cron jobs *)
(* holds var/etimad_scrape.lock, so that one lane runs at a time; the      *)
(* watcher, for pursued tenders, takes no lock.  Both end in               *)
(* store_awarding, one READ COMMITTED transaction: count the tender's      *)
(* awards, delete its offers and awards, upsert a vendor and insert a row  *)
(* for each bidder and awardee, and, if there are awardees, insert         *)
(* first_seen if it is new and tender.awarded if the count was zero.  The  *)
(* vendor upserts take row locks in the order of the bid table, which two  *)
(* tenders need not share.  A page that is not marked as unannounced is    *)
(* stored whatever was parsed of it: one without awardees takes the awards *)
(* away and puts none in their place.                                      *)
(***************************************************************************)
EXTENDS Naturals, Sequences, FiniteSets

CONSTANTS
  Tenders,
  Pursued,     \* those with a pursuit in the War Room, past their deadline
  Bidders,     \* Bidders[t]: the vendors of the bid table, in its order
  MaxSetbacks  \* bound: sessions lost to a crash, a network or database error,
               \* and pages fetched that show no awardees

ASSUME AwardAssumption ==
  /\ Pursued \subseteq Tenders
  /\ MaxSetbacks \in Nat
  /\ \A t \in Tenders : Bidders[t] \in Seq(STRING) /\ Bidders[t] # <<>>

Lane == "lane"
Watch == "watch"
Writers == {Lane, Watch}
Outcomes == {"none", "unknown", "known"}

VARIABLES
  announced,   \* tenders whose award is published (the source)
  now,         \* transactions begun so far: the clock behind now()
  awards,      \* copies of the tender's award rows
  firstSeen,   \* tender_award_first_seen; 0: no row
  events,      \* the tender.awarded rows of the outbox
  outcome,     \* the outcomes row of the tender's pursuit and its award_value
  draft,       \* award_value as log_outcome read it, before it writes
  pc,          \* where each writer stands
  todo,        \* tenders the watcher's FIND returned and it has yet to check
  job,         \* the tender in hand
  result,      \* its awarding component as fetched: bidders, and awardees or none
  began,       \* now() of the writer's transaction
  had,         \* had_awards
  deleted,     \* copies its DELETE removes at commit
  got,         \* bidders whose vendor row it has upserted and locked
  shown,       \* history: the clock when awards of the tender first were visible
  risen,       \* history: the clock when the awards now visible became so
  setbacks     \* lost sessions and pages without awardees so far

sessionVars == <<pc, todo, job, result>>
txVars == <<began, had, deleted, got>>
tableVars == <<awards, firstSeen, events, shown, risen>>
vars == <<announced, now, awards, firstSeen, events, outcome, draft, pc,
          todo, job, result, began, had, deleted, got, shown, risen, setbacks>>

\* created_at defaults to now(), the beginning of the transaction.  History:
\* sight, the clock when awards it stores, or replaces, became visible.
AwardEvent == [tender : Tenders, created : Nat, sight : Nat]

\* AwardingResult of a page that is announced: bidders and awardees in hand.
Result == [bids : Nat, awardees : BOOLEAN]
NoResult == [bids |-> 0, awardees |-> FALSE]

TypeOK ==
  /\ announced \subseteq Tenders
  /\ now \in Nat
  /\ awards \in [Tenders -> Nat]
  /\ firstSeen \in [Tenders -> 0..now]
  /\ events \in Seq(AwardEvent)
  /\ outcome \in [Pursued -> Outcomes]
  /\ draft \in [Pursued -> Outcomes]
  /\ pc \in [Writers -> {"idle", "next", "count", "delete", "insert", "outcome"}]
  /\ todo \subseteq Pursued
  /\ job \in [Writers -> Tenders]
  /\ result \in [Writers -> Result]
  /\ began \in [Writers -> 0..now]
  /\ had \in [Writers -> Nat]
  /\ deleted \in [Writers -> Nat]
  /\ got \in [Writers -> Nat]
  /\ shown \in [Tenders -> 0..now]
  /\ risen \in [Tenders -> 0..now]
  /\ setbacks \in 0..MaxSetbacks

Init ==
  /\ announced = {}
  /\ now = 0
  /\ awards = [t \in Tenders |-> 0]
  /\ firstSeen = [t \in Tenders |-> 0]
  /\ events = <<>>
  /\ outcome = [t \in Pursued |-> "none"]
  /\ draft = [t \in Pursued |-> "none"]
  /\ pc = [w \in Writers |-> "idle"]
  /\ todo = {}
  /\ job \in [Writers -> Tenders] /\ job[Lane] = job[Watch]
  /\ result = [w \in Writers |-> NoResult]
  /\ began = [w \in Writers |-> 0]
  /\ had = [w \in Writers |-> 0]
  /\ deleted = [w \in Writers |-> 0]
  /\ got = [w \in Writers |-> 0]
  /\ shown = [t \in Tenders |-> 0]
  /\ risen = [t \in Tenders |-> 0]
  /\ setbacks = 0

At(w, step) == pc[w] = step
Goto(w, step) == pc' = [pc EXCEPT ![w] = step]

-----------------------------------------------------------------------------
(* The source. *)

\* The entity announces the award: the tender enters the awarded listing and
\* its awarding component has bidders and awardees to show.
Announce(t) ==
  /\ t \notin announced
  /\ announced' = announced \cup {t}
  /\ UNCHANGED <<now, tableVars, outcome, draft, sessionVars, txVars, setbacks>>

\* What fetch_awarding makes of the component of t, when that does not say it
\* is unannounced: the award, if it is published, or a page without awardees,
\* with any first part of the bid table (the offers are examined and not yet
\* awarded, the answer is cut off, or its tables are not recognised).
Fetched(w, t) ==
  \/ /\ t \in announced
     /\ result' = [result EXCEPT ![w] = [bids |-> Len(Bidders[t]), awardees |-> TRUE]]
     /\ UNCHANGED setbacks
  \/ /\ setbacks < MaxSetbacks
     /\ \E n \in 0..Len(Bidders[t]) :
          result' = [result EXCEPT ![w] = [bids |-> n, awardees |-> FALSE]]
     /\ setbacks' = setbacks + 1

-----------------------------------------------------------------------------
(* Sessions. *)

\* Cron starts a lane that gets the scrape lock, fresh or backfill.  (The
\* backfill lane marks its events as historical, for the alert engine.)
OpenLane ==
  /\ At(Lane, "idle")
  /\ Goto(Lane, "next")
  /\ UNCHANGED <<announced, now, tableVars, outcome, draft, todo, job, result, txVars, setbacks>>

\* The lane meets a tender of the awarded listing that has no awards yet and
\* fetches its result; the fetch and its pauses make "no awards" old.
Visit(t) ==
  /\ At(Lane, "next")
  /\ t \in announced
  /\ awards[t] = 0
  /\ job' = [job EXCEPT ![Lane] = t]
  /\ Fetched(Lane, t)
  /\ Goto(Lane, "count")
  /\ UNCHANGED <<announced, now, tableVars, outcome, draft, todo, txVars>>

\* End of the listing, of the pages or of the time budget.
CloseLane ==
  /\ At(Lane, "next")
  /\ Goto(Lane, "idle")
  /\ UNCHANGED <<announced, now, tableVars, outcome, draft, todo, job, result, txVars, setbacks>>

\* Mutant: FIND_SQL without its join to pursuits.
Find_AllTenders ==
  /\ At(Watch, "idle")
  /\ todo' = {t \in Tenders : awards[t] = 0}
  /\ Goto(Watch, "next")
  /\ UNCHANGED <<announced, now, tableVars, outcome, draft, job, result, txVars, setbacks>>

\* Mutant: FIND_SQL looks for pursuits whose outcome is incomplete.
Find_WithOutcome ==
  /\ At(Watch, "idle")
  /\ todo' = {t \in Pursued : awards[t] = 0 /\ outcome[t] = "unknown"}
  /\ Goto(Watch, "next")
  /\ UNCHANGED <<announced, now, tableVars, outcome, draft, job, result, txVars, setbacks>>

\* FIND_SQL: pursued tenders without awards.  The enrichment that follows and
\* the pauses between tenders make this list old by the time it is used.
Find ==
  /\ At(Watch, "idle")
  /\ todo' = {t \in Pursued : awards[t] = 0}
  /\ Goto(Watch, "next")
  /\ UNCHANGED <<announced, now, tableVars, outcome, draft, job, result, txVars, setbacks>>

\* The next tender of the list: store what fetch_awarding says is announced,
\* and go on where the component says there are no results.
Check(t) ==
  /\ At(Watch, "next")
  /\ t \in todo
  /\ todo' = todo \ {t}
  /\ job' = [job EXCEPT ![Watch] = t]
  /\ \/ Fetched(Watch, t) /\ Goto(Watch, "count")
     \/ t \notin announced /\ Goto(Watch, "next") /\ UNCHANGED <<result, setbacks>>
  /\ UNCHANGED <<announced, now, tableVars, outcome, draft, txVars>>

CloseWatch ==
  /\ At(Watch, "next")
  /\ todo = {}
  /\ Goto(Watch, "idle")
  /\ UNCHANGED <<announced, now, tableVars, outcome, draft, todo, job, result, txVars, setbacks>>

-----------------------------------------------------------------------------
(* store_awarding. *)

\* BEGIN, and SELECT count(*) FROM awards: no lock.
Count(w) ==
  /\ At(w, "count")
  /\ now' = now + 1
  /\ began' = [began EXCEPT ![w] = now']
  /\ had' = [had EXCEPT ![w] = awards[job[w]]]
  /\ Goto(w, "delete")
  /\ UNCHANGED <<announced, tableVars, outcome, draft, todo, job, result, deleted, got,
                 setbacks>>

\* Mutant: the count comes after the DELETE, and finds nothing.
Delete_ThenCount(w) ==
  /\ At(w, "delete")
  /\ \A x \in Writers \ {w} : job[x] = job[w] => deleted[x] = 0
  /\ deleted' = [deleted EXCEPT ![w] = awards[job[w]]]
  /\ had' = [had EXCEPT ![w] = 0]
  /\ Goto(w, "insert")
  /\ UNCHANGED <<announced, now, tableVars, outcome, draft, todo, job, result, began, got,
                 setbacks>>

\* The two DELETEs take the rows they see, and wait for another that does.
\* (Award rows never make one of two writers wait: while there are some, only
\* one session still holds the tender.  Offer rows that pages without awardees
\* left may make it wait; here it goes on, in more orders than it could.)
Delete(w) ==
  /\ At(w, "delete")
  /\ \A x \in Writers \ {w} : job[x] = job[w] => deleted[x] = 0
  /\ deleted' = [deleted EXCEPT ![w] = awards[job[w]]]
  /\ Goto(w, "insert")
  /\ UNCHANGED <<announced, now, tableVars, outcome, draft, todo, job, result,
                 began, had, got, setbacks>>

\* Vendor rows a writer has locked (ON CONFLICT DO UPDATE), until its commit.
Held(w) == {Bidders[job[w]][i] : i \in 1..got[w]}
NextVendor(w) == Bidders[job[w]][got[w] + 1]
WantsVendor(w) == At(w, "insert") /\ got[w] < result[w].bids
WaitsFor(w, x) == WantsVendor(w) /\ NextVendor(w) \in Held(x)

InsertBidder(w) ==
  /\ WantsVendor(w)
  /\ \A x \in Writers \ {w} : ~WaitsFor(w, x)
  /\ got' = [got EXCEPT ![w] = @ + 1]
  /\ UNCHANGED <<announced, now, tableVars, outcome, draft, sessionVars, began, had,
                 deleted, setbacks>>

\* What every end of a transaction does: its locks pass to whoever waits.
EndTransaction(w, step) ==
  /\ deleted' = [deleted EXCEPT ![w] = 0]
  /\ had' = [had EXCEPT ![w] = 0]
  /\ began' = [began EXCEPT ![w] = 0]
  /\ got' = [x \in Writers |-> CASE x = w -> 0
                                [] x # w /\ WaitsFor(x, w) -> got[x] + 1
                                [] OTHER -> got[x]]
  /\ result' = [result EXCEPT ![w] = NoResult]
  /\ Goto(w, step)

\* Mutant: ON CONFLICT DO UPDATE, so that the cutoff follows the last harvest.
FirstSeen_Moves(w, t) == began[w]

\* INSERT ... tender_award_first_seen ... ON CONFLICT DO NOTHING.
FirstSeen(w, t) == IF firstSeen[t] = 0 THEN began[w] ELSE firstSeen[t]

\* emit = bool(result.awardees) and had_awards == 0.
Emits(w) == result[w].awardees /\ had[w] = 0

\* All rows are in: with awardees first_seen and the event, COMMIT.
Commit(w) ==
  LET t == job[w]
      sight == IF awards[t] > 0 THEN risen[t] ELSE now IN
  /\ At(w, "insert")
  /\ got[w] = result[w].bids
  /\ awards' = [awards EXCEPT ![t] = (@ - deleted[w]) + (IF result[w].awardees THEN 1 ELSE 0)]
  /\ firstSeen' = IF result[w].awardees
                  THEN [firstSeen EXCEPT ![t] = FirstSeen(w, t)] ELSE firstSeen
  /\ events' = IF Emits(w)
               THEN Append(events, [tender |-> t, created |-> began[w],
                                    sight |-> sight])
               ELSE events
  /\ shown' = IF result[w].awardees /\ shown[t] = 0 THEN [shown EXCEPT ![t] = now] ELSE shown
  /\ risen' = IF result[w].awardees THEN [risen EXCEPT ![t] = sight] ELSE risen
  /\ EndTransaction(w, IF w = Watch THEN "outcome" ELSE "next")
  /\ UNCHANGED <<announced, now, outcome, draft, todo, job, setbacks>>

\* Mutant: get_or_create_vendor catches the error and tries the upsert again,
\* in a nested transaction; the vendors locked before it stay locked.
DeadlockVictim_Retried(w) ==
  /\ \E x \in Writers \ {w} : WaitsFor(w, x) /\ WaitsFor(x, w)
  /\ UNCHANGED vars

\* Each waits for a vendor that the other holds: PostgreSQL rolls one back,
\* and the exception ends its session.
DeadlockVictim(w) ==
  /\ \E x \in Writers \ {w} : WaitsFor(w, x) /\ WaitsFor(x, w)
  /\ EndTransaction(w, "idle")
  /\ UNCHANGED <<announced, now, tableVars, outcome, draft, todo, job, setbacks>>

\* A crash, a failed fetch or a lost connection ends the session; between
\* COMMIT and the next statement the transaction stays.
Abort(w) ==
  /\ ~At(w, "idle")
  /\ setbacks < MaxSetbacks
  /\ setbacks' = setbacks + 1
  /\ EndTransaction(w, "idle")
  /\ UNCHANGED <<announced, now, tableVars, outcome, draft, todo, job>>

-----------------------------------------------------------------------------
(* The outcome of a pursuit: logged in the console, completed by the watcher. *)

\* log_outcome reads awards outside its transaction ...
LogRead(t) ==
  /\ outcome[t] = "none" \* bound: a result is logged once
  /\ draft[t] = "none"
  /\ draft' = [draft EXCEPT ![t] = IF awards[t] = 0 THEN "unknown" ELSE "known"]
  /\ UNCHANGED <<announced, now, tableVars, outcome, sessionVars, txVars, setbacks>>

\* ... and upserts the row with what it read.
LogWrite(t) ==
  /\ draft[t] # "none"
  /\ outcome' = [outcome EXCEPT ![t] = draft[t]]
  /\ draft' = [draft EXCEPT ![t] = "none"]
  /\ UNCHANGED <<announced, now, tableVars, sessionVars, txVars, setbacks>>

\* UPDATE outcomes SET award_value ... FROM awards WHERE award_value IS NULL,
\* after the watcher's own store_awarding.  (An award is taken to have a value
\* here; PursuitDesk has awards without.)
BackfillOutcome ==
  /\ At(Watch, "outcome")
  /\ outcome' = IF outcome[job[Watch]] = "unknown" /\ awards[job[Watch]] > 0
                THEN [outcome EXCEPT ![job[Watch]] = "known"] ELSE outcome
  /\ Goto(Watch, "next")
  /\ UNCHANGED <<announced, now, tableVars, draft, todo, job, result, txVars, setbacks>>

-----------------------------------------------------------------------------
Transaction(w) ==
  Count(w) \/ Delete(w) \/ InsertBidder(w) \/ Commit(w) \/ DeadlockVictim(w)

WatchStep == Find \/ CloseWatch \/ BackfillOutcome \/ \E t \in Pursued : Check(t)

LaneStep == CloseLane \/ OpenLane \/ \E t \in Tenders : Visit(t)

Next ==
  \/ \E t \in Tenders : Announce(t)
  \/ LaneStep
  \/ WatchStep
  \/ \E w \in Writers : Transaction(w) \/ Abort(w)
  \/ \E t \in Pursued : LogRead(t) \/ LogWrite(t)

\* Cron starts the watcher again and again, and it goes through its list; a
\* transaction that began goes on.  Nothing obliges the lane to reach a tender
\* (its pages are the newest, its history walk has a budget) or the team to
\* log an outcome; a write that was read for is made.
Fairness ==
  /\ WF_vars(WatchStep)
  /\ \A w \in Writers : WF_vars(Transaction(w))
  /\ \A t \in Pursued : WF_vars(LogWrite(t))

Spec == Init /\ [][Next]_vars
FairSpec == Spec /\ Fairness

-----------------------------------------------------------------------------
(* Properties. *)

EventsOf(t) == {k \in DOMAIN events : events[k].tender = t}

\* awards_harvest.py: first_seen "is written once and never moved: it is the
\* blindness cutoff for prediction scoring".  Once awards of a tender can be
\* read there is a cutoff, and it is not later than that moment, whichever of
\* two overlapping transactions wrote it; without awards there is none.
CutoffPrecedesAwards ==
  \A t \in Tenders :
    /\ shown[t] = 0 <=> firstSeen[t] = 0
    /\ firstSeen[t] <= shown[t]

\* Migration 0019 takes the time of the tender.awarded event for "the earliest
\* moment the award was visible to us".  A tender is announced when awards of it
\* are first seen and not before, however many pages without awardees came
\* first, and the first announcement carries the time of the cutoff.  Awards
\* can vanish, when a page without awardees is stored over them, and may then
\* be announced again; but no transaction that began after awards could be read
\* announces those again, whatever was stale, rerun, rolled back or deleted
\* meanwhile: that takes two transactions that overlap.
AnnouncedAtFirstSight ==
  \A t \in Tenders :
    /\ shown[t] = 0 <=> EventsOf(t) = {}
    /\ awards[t] > 0 => EventsOf(t) # {}
    /\ \A k \in EventsOf(t) :
         /\ events[k].created <= events[k].sight
         /\ (\A j \in EventsOf(t) : k <= j) => events[k].created = firstSeen[t]

\* Vendor locks taken in different orders hold nobody for ever: a session of
\* either process always ends.
SessionsEnd ==
  \A t \in Tenders, w \in Writers :
    At(w, "insert") /\ job[w] = t ~> ~(At(w, "insert") /\ job[w] = t)

\* The award of a pursued tender reaches the table once it is announced, and is
\* there for good when the pages without awardees are over: a session that
\* fails, was overtaken or took the award away is made up for by a later one.
PursuedAwardIsStored ==
  \A t \in Pursued : t \in announced ~> [](awards[t] > 0)

\* awards_harvest.py: "emit `tender.awarded` outbox event (once per tender)".
AwardedOnce == \A t \in Tenders : Cardinality(EventsOf(t)) <= 1

\* award_watch.py: "outcome award_value back-filled if the team already logged
\* a result".
OutcomeIsCompleted ==
  \A t \in Pursued :
    outcome[t] = "unknown" /\ awards[t] > 0 ~> outcome[t] = "known"
=============================================================================
