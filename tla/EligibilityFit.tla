---------------------------- MODULE EligibilityFit ----------------------------
(***************************************************************************)
(* Whether a company fits the published requirements of a tender.  Batches *)
(* (eligibility_enrich.enrich_batch) fetch the detail page of an open      *)
(* tender that has none and store what they parse, a failure included; the *)
(* company's profile is replaced as a whole; a request (app.tender_fit)    *)
(* reads profile and details one after the other and scores them           *)
(* (fit_score.score_fit).  Cron starts batches; two can overlap.           *)
(*                                                                         *)
(* One tender and one company.  A detail is its classification ("absent"   *)
(* when the page has no such label, "none" when it says that none is       *)
(* required, or a grade) and its place; the other fields are not scored.   *)
(***************************************************************************)
EXTENDS Integers, FiniteSets

CONSTANTS
  Batches,
  Activities,  \* activity ids
  Grades,
  Places,
  MaxChanges   \* bound: details published anew and profiles replaced

VARIABLES
  activity,    \* activity_id of the tender, 0 for none
  published,   \* the detail as the source shows it
  open,        \* offers are still accepted
  details,     \* the row of tender_details
  profile,     \* the row of company_profiles, empty when there is none
  batch,       \* what a batch has in hand: phase and detail
  request,     \* what a request has read: phase and profile
  answer,      \* the last answer, with what it was computed from
  changes,
  stored,      \* history: details of successful fetches that were stored
  stores,      \* history: rows written
  overlapped   \* history: two batches had the tender in hand at once

vars == <<activity, published, open, details, profile, batch, request, answer, changes,
          stored, stores, overlapped>>

Parsed == [class : {"absent", "none"} \cup Grades, place : {"absent"} \cup Places]
NoRow == [class |-> "absent", place |-> "absent", row |-> "none"]
Failed == [NoRow EXCEPT !.row = "failed"]
Fetched(detail) == [class |-> detail.class, place |-> detail.place, row |-> "fetched"]
Rows == {NoRow, Failed} \cup {Fetched(detail) : detail \in Parsed}
Profiles == [activities : SUBSET Activities, places : SUBSET Places, grades : SUBSET Grades]
NoProfile == [activities |-> {}, places |-> {}, grades |-> {}]
Idle == [phase |-> "idle", row |-> NoRow]
NoRequest == [reading |-> FALSE, profile |-> NoProfile]
Labels == {"unconfirmed", "mismatch", "compliant"}
NoAnswer == [label |-> "none", score |-> 0, most |-> 0, profile |-> NoProfile, row |-> NoRow]

TypeOK ==
  /\ activity \in {0} \cup Activities /\ published \in Parsed /\ open \in BOOLEAN
  /\ details \in Rows /\ stored \subseteq Rows /\ profile \in Profiles
  /\ batch \in [Batches -> [phase : {"idle", "found", "parsed"}, row : Rows]]
  /\ request \in [reading : BOOLEAN, profile : Profiles]
  /\ answer = NoAnswer \/ (answer.label \in Labels /\ answer.row \in Rows)
  /\ changes \in 0..MaxChanges /\ stores \in Nat /\ overlapped \in BOOLEAN

Init ==
  /\ activity \in {0} \cup Activities /\ published \in Parsed /\ open = TRUE
  /\ details = NoRow /\ profile = NoProfile
  /\ batch = [b \in Batches |-> Idle] /\ request = NoRequest /\ answer = NoAnswer
  /\ changes = 0 /\ stored = {} /\ stores = 0 /\ overlapped = FALSE

-----------------------------------------------------------------------------
\* The source replaces the detail page, or the closing date passes.
Publish(detail) ==
  /\ changes < MaxChanges /\ detail # published
  /\ published' = detail
  /\ changes' = changes + 1
  /\ UNCHANGED <<activity, open, details, profile, batch, request, answer, stored,
                 stores, overlapped>>

Close ==
  /\ open
  /\ open' = FALSE
  /\ UNCHANGED <<activity, published, details, profile, batch, request, answer, changes, stored,
                 stores, overlapped>>

\* FIND_SQL: open, and no row of details, not even that of a failure.
Find(b) ==
  /\ batch[b].phase = "idle" /\ open /\ details = NoRow
  /\ batch' = [batch EXCEPT ![b].phase = "found"]
  /\ overlapped' = (overlapped \/ \E c \in Batches : batch[c].phase # "idle")
  /\ UNCHANGED <<activity, published, open, details, profile, request, answer, changes, stored,
                 stores>>

\* DetailsFetcher.fetch and parse_detail_fields, or an exception.
Fetch(b) ==
  /\ batch[b].phase = "found"
  /\ \E row \in {Fetched(published), Failed} :
       batch' = [batch EXCEPT ![b] = [phase |-> "parsed", row |-> row]]
  /\ UNCHANGED <<activity, published, open, details, profile, request, answer, changes, stored,
                 stores, overlapped>>

\* UPSERT_SQL: what the row held is replaced, by the nulls of a failure, too.
Store(b) ==
  /\ batch[b].phase = "parsed"
  /\ details' = batch[b].row
  /\ stored' = stored \cup ({batch[b].row} \ {Failed})
  /\ stores' = stores + 1
  /\ batch' = [batch EXCEPT ![b] = Idle]
  /\ UNCHANGED <<activity, published, open, profile, request, answer, changes, overlapped>>

\* The process ends; the tender is found again.
BatchDies(b) ==
  /\ batch[b].phase # "idle"
  /\ batch' = [batch EXCEPT ![b] = Idle]
  /\ UNCHANGED <<activity, published, open, details, profile, request, answer, changes, stored,
                 stores, overlapped>>

PutProfile(p) ==
  /\ changes < MaxChanges /\ p # profile
  /\ profile' = p
  /\ changes' = changes + 1
  /\ UNCHANGED <<activity, published, open, details, batch, request, answer, stored, stores,
                 overlapped>>

-----------------------------------------------------------------------------
ActivityFactor(p) ==
  IF p.activities = {} \/ activity = 0 THEN "unknown"
  ELSE IF activity \in p.activities THEN "matched" ELSE "not_matched"

PlaceFactor(p, row) ==
  IF row.place = "absent" \/ p.places = {} THEN "unknown"
  ELSE IF row.place \in p.places THEN "matched" ELSE "not_matched"

\* Mutant: a page that was not fetched would pass for one without requirement.
Required_Assumed(row) == IF row.class \in {"absent", "none"} THEN "no" ELSE "yes"

Required(row) ==
  CASE row.class = "absent" -> "unknown"
    [] row.class = "none" -> "no"
    [] OTHER -> "yes"

ClassFactor(p, row) ==
  CASE Required(row) = "unknown" -> "unknown"
    [] Required(row) = "no" -> "not_applicable"
    [] OTHER -> IF row.class \in p.grades THEN "matched" ELSE "not_matched"

Weight == [activity |-> 50, place |-> 25, class |-> 25]
Factors(p, row) ==
  [activity |-> ActivityFactor(p), place |-> PlaceFactor(p, row), class |-> ClassFactor(p, row)]

\* The weights of the factors with one of these statuses.
Sum(status, of) ==
  LET points(factor) == IF status[factor] \in of THEN Weight[factor] ELSE 0
  IN points("activity") + points("place") + points("class")

Earned(status) == Sum(status, {"matched", "not_applicable"})
Evaluated(status) == Sum(status, {"matched", "not_matched", "not_applicable"})

Label(status) ==
  IF status.class = "unknown" THEN "unconfirmed"
  ELSE IF \E factor \in DOMAIN status : status[factor] = "not_matched" THEN "mismatch"
  ELSE IF Evaluated(status) = 0 THEN "unconfirmed" ELSE "compliant"

Ask ==
  /\ ~request.reading
  /\ request' = [reading |-> TRUE, profile |-> profile]
  /\ UNCHANGED <<activity, published, open, details, profile, batch, answer, changes, stored,
                 stores, overlapped>>

\* The details as they are now, scored against the profile read before.
Reply ==
  /\ request.reading
  /\ LET status == Factors(request.profile, details)
     IN answer' = [label |-> Label(status), score |-> Earned(status), most |-> Evaluated(status),
                   profile |-> request.profile, row |-> details]
  /\ request' = NoRequest
  /\ UNCHANGED <<activity, published, open, details, profile, batch, changes, stored, stores,
                 overlapped>>

Next ==
  \/ Close \/ Ask \/ Reply
  \/ \E detail \in Parsed : Publish(detail)
  \/ \E b \in Batches : Find(b) \/ Fetch(b) \/ Store(b) \/ BatchDies(b)
  \/ \E p \in Profiles : PutProfile(p)

Spec == Init /\ [][Next]_vars

-----------------------------------------------------------------------------
\* A tender is called compliant only on the strength of a page that was
\* fetched, whose classification is known and asks for nothing or for a grade
\* of the company, with no known activity or place outside its profile; and a
\* label and a score never contradict each other.
FitIsGrounded ==
  answer # NoAnswer =>
    /\ answer.label = "compliant" =>
         /\ answer.row \in stored
         /\ answer.row.class \in {"none"} \cup answer.profile.grades
         /\ answer.row.place \in {"absent"} \cup answer.profile.places \/ answer.profile.places = {}
         /\ activity \in {0} \cup answer.profile.activities \/ answer.profile.activities = {}
    /\ answer.score <= answer.most /\ answer.most <= 100
    /\ answer.label = "compliant" => answer.score = answer.most /\ answer.most >= 25
    /\ answer.label = "mismatch" => answer.score < answer.most

\* The details of a tender are stored once, and what was fetched stays, unless
\* batches overlap: then a failure can erase what the other has fetched, for good.
FetchedOnce == ~overlapped => stores <= 1 /\ (stored # {} => details \in stored)

-----------------------------------------------------------------------------
(* The inductive invariant behind both.                                    *)

\* Details that say anything were stored as those of a page that was fetched.
DetailsAreGrounded ==
  /\ details \in {NoRow, Failed} \cup stored
  /\ \A b \in Batches : batch[b].phase = "parsed" => batch[b].row # NoRow

\* One batch at a time has the tender in hand, and none once its row is there.
OneFetch ==
  ~overlapped =>
    /\ \A b, c \in Batches : batch[b].phase # "idle" /\ batch[c].phase # "idle" => b = c
    /\ details = NoRow => stores = 0 /\ stored = {}
    /\ details # NoRow => /\ stores = 1 /\ (stored # {} => details \in stored)
                          /\ \A b \in Batches : batch[b].phase = "idle"

FitInv == TypeOK /\ DetailsAreGrounded /\ OneFetch /\ FitIsGrounded
=============================================================================
