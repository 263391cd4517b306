---------------------------- MODULE BackfillWalk ----------------------------
(***************************************************************************)
(* The checkpointed walk through history: the backfill lane of             *)
(* awards_harvest.py (run, _load_checkpoint), backfill.py, which shares    *)
(* its protocol, and the two others that write ingest_runs.checkpoint: the *)
(* stalled-run watchdog (ops_health.py) and the console's incident         *)
(* acknowledgement.                                                        *)
(*                                                                         *)
(* A session opens a run, resumes after the page that the latest non-NULL  *)
(* checkpoint of the connector names, stores pages and checkpoints each.   *)
(* It ends at an empty page or its budget, at a WAF cool-off, with an      *)
(* exception, or is killed and leaves its run open.  Meanwhile the source  *)
(* announces more tenders, at the head of the listing, so that the content *)
(* of a page number moves on.  Sessions do not overlap (the scrape lock).  *)
(***************************************************************************)
EXTENDS Naturals, Sequences, FiniteSets

CONSTANTS
  PageSize,      \* rows per page (20 in the lane, 50 in backfill.py)
  Initial,       \* tenders listed when the walk began, numbered from the oldest
  MaxListed,     \* bound: tenders ever listed
  MaxRuns,       \* bound: sessions
  MaxTroubles    \* bound: cool-offs, exceptions, kills and operators' writes

ASSUME WalkAssumption ==
  /\ PageSize \in Nat \ {0}
  /\ Initial \in Nat
  /\ MaxListed \in Nat
  /\ MaxRuns \in Nat
  /\ MaxTroubles \in Nat

VARIABLES
  listed,    \* tenders the source lists: the newest is number listed
  stored,    \* tenders that reached the table
  runs,      \* the connector's ingest_runs rows, in id order
  phase,     \* where the session stands
  page,      \* the page in hand
  start,     \* start_page
  hand,      \* tenders of the fetched page still to be stored
  best,      \* history: the highest page ever completed
  troubles

walkVars == <<listed, stored, runs, phase, page, start, hand, best, troubles>>

\* A run that is not finished has ok NULL.  A checkpoint (noted: it is not
\* NULL) without the key last_page reads as page 0.
Run == [finished : BOOLEAN, failed : BOOLEAN, noted : BOOLEAN, lastPage : Nat]

WalkTypeOK ==
  /\ listed \in Nat
  /\ stored \subseteq 1..listed
  /\ runs \in Seq(Run)
  /\ phase \in {"idle", "load", "fetch", "rows", "failed", "close"}
  /\ phase # "idle" => runs # <<>>
  /\ page \in Nat
  /\ start \in Nat
  /\ hand \subseteq 1..listed
  /\ best \in Nat
  /\ troubles \in 0..MaxTroubles

WalkInit ==
  /\ listed = Initial
  /\ stored = {}
  /\ runs = <<>>
  /\ phase = "idle"
  /\ page = 0
  /\ start = 0
  /\ hand = {}
  /\ best = 0
  /\ troubles = 0

\* Rows before the end of page p, in a listing that shows the newest first.
Upto(p) == PageSize * p
Position(i) == listed - i + 1
Page(p) == {i \in 1..listed : Upto(p - 1) < Position(i) /\ Position(i) <= Upto(p)}

\* ... WHERE checkpoint IS NOT NULL ORDER BY id DESC LIMIT 1.
IsLatestNote(r) == runs[r].noted /\ \A q \in DOMAIN runs : q > r => ~runs[q].noted

Loads(p) ==
  \/ p = 0 /\ \A r \in DOMAIN runs : ~runs[r].noted
  \/ \E r \in DOMAIN runs : IsLatestNote(r) /\ p = runs[r].lastPage

LastPages == {0} \cup {runs[r].lastPage : r \in DOMAIN runs}

Trouble == troubles < MaxTroubles /\ troubles' = troubles + 1

-----------------------------------------------------------------------------
(* The source. *)

ListTender ==
  /\ listed < MaxListed
  /\ listed' = listed + 1
  /\ UNCHANGED <<stored, runs, phase, page, start, hand, best, troubles>>

-----------------------------------------------------------------------------
(* A session. *)

\* The run being written to is the last one: sessions do not overlap.
Current == Len(runs)

\* INSERT INTO ingest_runs.
OpenRun ==
  /\ phase = "idle"
  /\ Len(runs) < MaxRuns
  /\ runs' = Append(runs, [finished |-> FALSE, failed |-> FALSE,
                           noted |-> FALSE, lastPage |-> 0])
  /\ phase' = "load"
  /\ UNCHANGED <<listed, stored, page, start, hand, best, troubles>>

\* Mutant: the checkpoint taken for the page in hand, not the last one done.
LoadCheckpoint_PlusTwo ==
  /\ phase = "load"
  /\ \E p \in LastPages :
       /\ Loads(p)
       /\ start' = p + 2
       /\ page' = p + 2
  /\ phase' = "fetch"
  /\ UNCHANGED <<listed, stored, runs, hand, best, troubles>>

\* start_page = _load_checkpoint(connector) + 1.
LoadCheckpoint ==
  /\ phase = "load"
  /\ \E p \in LastPages :
       /\ Loads(p)
       /\ start' = p + 1
       /\ page' = p + 1
  /\ phase' = "fetch"
  /\ UNCHANGED <<listed, stored, runs, hand, best, troubles>>

\* An empty page ends the walk (and the session), without a checkpoint.
FetchPage ==
  /\ phase = "fetch"
  /\ hand' = Page(page)
  /\ phase' = IF Page(page) = {} THEN "close" ELSE "rows"
  /\ UNCHANGED <<listed, stored, runs, page, start, best, troubles>>

\* The time budget or the page limit, never before the first page.
Pause ==
  /\ phase = "fetch"
  /\ page > start
  /\ phase' = "close"
  /\ UNCHANGED <<listed, stored, runs, page, start, hand, best, troubles>>

\* upsert_tender and store_awarding of the page's next row.
StoreRow ==
  /\ phase = "rows"
  /\ \E i \in hand :
       /\ \A j \in hand : j <= i
       /\ stored' = stored \cup {i}
       /\ hand' = hand \ {i}
  /\ UNCHANGED <<listed, runs, phase, page, start, best, troubles>>

\* Mutant: the page is checkpointed when it is fetched, not when it is stored.
Checkpoint_Early ==
  /\ phase = "rows"
  /\ runs' = [runs EXCEPT ![Current].noted = TRUE, ![Current].lastPage = page]
  /\ best' = IF page > best THEN page ELSE best
  /\ IF hand = {} THEN phase' = "fetch" /\ page' = page + 1
                  ELSE UNCHANGED <<phase, page>>
  /\ UNCHANGED <<listed, stored, start, hand, troubles>>

\* Every row of the page is in: UPDATE ingest_runs SET checkpoint.
Checkpoint ==
  /\ phase = "rows"
  /\ hand = {}
  /\ runs' = [runs EXCEPT ![Current].noted = TRUE, ![Current].lastPage = page]
  /\ best' = IF page > best THEN page ELSE best
  /\ phase' = "fetch"
  /\ page' = page + 1
  /\ UNCHANGED <<listed, stored, start, hand, troubles>>

\* Mutant: what "the old code wrote": the page before the session.
CoolOffPage_Start == start - 1

\* Mutant: last_completed set before the page that failed was reached.
CoolOffPage_OneLess == page - 2

\* last_completed.
CoolOffPage == page - 1

\* The listing answers 400 until the client gives up: UPDATE the checkpoint.
CoolOff ==
  /\ phase = "fetch"
  /\ Trouble
  /\ runs' = [runs EXCEPT ![Current].noted = TRUE, ![Current].lastPage = CoolOffPage]
  /\ phase' = "close"
  /\ UNCHANGED <<listed, stored, page, start, hand, best>>

\* Any other exception.
Fail ==
  /\ phase \in {"fetch", "rows"}
  /\ Trouble
  /\ phase' = "failed"
  /\ hand' = {}
  /\ UNCHANGED <<listed, stored, runs, page, start, best>>

\* The finally clause: finished_at, ok, error.
Close ==
  /\ phase \in {"close", "failed"}
  /\ runs' = [runs EXCEPT ![Current].finished = TRUE,
                          ![Current].failed = (phase = "failed")]
  /\ phase' = "idle"
  /\ UNCHANGED <<listed, stored, page, start, hand, best, troubles>>

\* The process or its machine dies: the run stays open.
Kill ==
  /\ phase # "idle"
  /\ Trouble
  /\ phase' = "idle"
  /\ hand' = {}
  /\ UNCHANGED <<listed, stored, runs, page, start, best>>

-----------------------------------------------------------------------------
(* The others that write the checkpoint. *)

\* close_stalled_runs: a run that has been open for too long is closed, with a
\* checkpoint of its own.  It may belong to a live session that waits out the
\* source's rate limit.
CloseStalled ==
  /\ Trouble
  /\ \E r \in DOMAIN runs :
       /\ ~runs[r].finished
       /\ runs' = [runs EXCEPT ![r] = [finished |-> TRUE, failed |-> TRUE,
                                       noted |-> TRUE, lastPage |-> 0]]
  /\ UNCHANGED <<listed, stored, phase, page, start, hand, best>>

IsIncident(r) == runs[r].failed \/ ~runs[r].finished

\* acknowledge_ops_incident: coalesce(checkpoint, '{}') || the note.
Acknowledge ==
  /\ Trouble
  /\ \E r \in DOMAIN runs :
       /\ IsIncident(r)
       /\ \A q \in DOMAIN runs : q > r => ~IsIncident(q)
       /\ runs' = [runs EXCEPT ![r].noted = TRUE]
  /\ UNCHANGED <<listed, stored, phase, page, start, hand, best>>

-----------------------------------------------------------------------------
SessionStep ==
  \/ OpenRun \/ LoadCheckpoint \/ FetchPage \/ Pause
  \/ StoreRow \/ Checkpoint \/ Close

WalkNext ==
  \/ ListTender
  \/ SessionStep
  \/ CoolOff \/ Fail \/ Kill
  \/ CloseStalled \/ Acknowledge

\* Cron opens a session every hour and a session goes on by itself.
WalkFairness == WF_walkVars(SessionStep)

WalkSpec == WalkInit /\ [][WalkNext]_walkVars
WalkFairSpec == WalkSpec /\ WalkFairness

-----------------------------------------------------------------------------
(* Properties. *)

\* What a checkpoint stands for: of the tenders listed when the walk began,
\* all that are now before the end of page p are stored.
Covered(p) == \A i \in 1..Initial : Position(i) <= Upto(p) => i \in stored

\* No session resumes behind a gap: whatever crashed, cooled off, was closed by
\* the watchdog or acknowledged, and however the listing moved, every page
\* that a checkpoint of the connector calls done has been stored.
NoGapBehindCheckpoint ==
  \A r \in DOMAIN runs : runs[r].noted => Covered(runs[r].lastPage)

\* A cool-off, an exception or a kill never loses part of the progress: the
\* page to resume after only ever falls to zero (which CloseStalled and
\* Acknowledge do), so that a walk is restarted or goes on.
ProgressIsNotEroded ==
  [][\A p \in LastPages, q \in LastPages' : Loads(p) /\ Loads(q)' => q >= p \/ q = 0]_walkVars

\* The sessions between them store all of history, although some are cut short
\* or made to start over and the listing moves on under them.
HistoryIsCovered == <>(1..Initial \subseteq stored)

\* backfill.py: "a crash or rate-limit abort RESUMES from the last completed
\* page instead of restarting".
ResumesAfterLastPage == phase = "fetch" /\ page = start => start = best + 1
=============================================================================
