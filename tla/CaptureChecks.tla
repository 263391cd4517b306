---------------------------- MODULE CaptureChecks ----------------------------
(***************************************************************************)
(* The two checks of what the corpus has captured, at work while the       *)
(* source publishes and the poller captures.  The nightly reconciliation   *)
(* (reconcile.run) counts both sides, walks the newest pages, upserts      *)
(* every row and counts those it had to create; the weekly audit           *)
(* (audit.run_audit) reads some pages, then asks the corpus which of their *)
(* tenders it holds.  Pages are read one by one from a listing that moves. *)
(*                                                                         *)
(* Tenders are numbers in the order of publication; the listing shows the  *)
(* newest first.  The totals of the census and the sweep for stale tenders *)
(* are only reported; they, the rest of the reports and the rounding of    *)
(* the rates are left out.                                                 *)
(***************************************************************************)
EXTENDS Integers, Sequences, FiniteSetsExt, Functions

CONSTANTS
  PageSize,
  HeadPages,   \* pages of the head sample
  SampleSize,  \* tenders that the audit wants
  AuditPages,  \* pages that it draws
  GapPercent,  \* 2: a miss rate above it is announced
  PassPercent, \* 99: a capture rate from it on passes
  MaxTenders,  \* bound: tenders published
  MaxGone,     \* bound: tenders that leave the listing
  MaxRuns      \* bound: runs of each check

VARIABLES
  listing,     \* newest first
  published,   \* how many there have been
  corpus,      \* who captured a tender: nobody, poller or reconcile
  walk,        \* the head sample: phase, page, rows in hand, counts
  gaps,        \* reconcile.gap events: healed and sampled
  audit,       \* phase, pages still to read, the sample
  verdict,     \* the audit's last report
  runs,
  gone,
  head,        \* history: the head of the listing when the walk began
  ownHeal,     \* history: tenders that the walk created
  shifted      \* history: the listing moved since the audit began

vars == <<listing, published, corpus, walk, gaps, audit, verdict, runs, gone, head,
          ownHeal, shifted>>

Tenders == 1..MaxTenders
NoWalk == [phase |-> "off", page |-> 0, rows |-> << >>, seen |-> 0, healed |-> 0]
NoAudit == [phase |-> "off", pages |-> {}, sample |-> << >>]
NoVerdict == [passed |-> FALSE, captured |-> 0, sampled |-> 0, missing |-> 0, steady |-> FALSE]

TypeOK ==
  /\ listing \in Seq(Tenders) /\ published \in 0..MaxTenders
  /\ corpus \in [Tenders -> {"nobody", "poller", "reconcile"}]
  /\ walk \in [phase : {"off", "counted", "page", "done"}, page : 0..HeadPages,
              rows : Seq(Tenders), seen : 0..(HeadPages * PageSize),
              healed : 0..(HeadPages * PageSize)]
  /\ \A g \in gaps : g.healed <= g.sampled
  /\ audit \in [phase : {"off", "pages"}, pages : SUBSET Nat, sample : Seq(Tenders)]
  /\ verdict \in [passed : BOOLEAN, captured : 0..SampleSize, sampled : 0..SampleSize,
                 missing : 0..SampleSize, steady : BOOLEAN]
  /\ runs \in 0..MaxRuns /\ gone \in 0..MaxGone
  /\ head \subseteq Tenders /\ ownHeal \subseteq Tenders /\ shifted \in BOOLEAN

Init ==
  /\ listing = << >> /\ published = 0
  /\ corpus = [t \in Tenders |-> "nobody"]
  /\ walk = NoWalk /\ gaps = {}
  /\ audit = NoAudit /\ verdict = NoVerdict /\ runs = 0 /\ gone = 0
  /\ head = {} /\ ownHeal = {} /\ shifted = FALSE

-----------------------------------------------------------------------------
Publish ==
  /\ published < MaxTenders
  /\ published' = published + 1
  /\ listing' = <<published + 1>> \o listing
  /\ shifted' = TRUE
  /\ UNCHANGED <<corpus, walk, gaps, audit, verdict, runs, gone, head, ownHeal>>

\* A tender is withdrawn from the listing.
Withdraw(i) ==
  /\ gone < MaxGone
  /\ listing' = SubSeq(listing, 1, i - 1) \o SubSeq(listing, i + 1, Len(listing))
  /\ gone' = gone + 1
  /\ shifted' = TRUE
  /\ UNCHANGED <<published, corpus, walk, gaps, audit, verdict, runs, head, ownHeal>>

\* The delta loop captures a tender that it sees.
Capture(t) ==
  /\ corpus[t] = "nobody"
  /\ corpus' = [corpus EXCEPT ![t] = "poller"]
  /\ UNCHANGED <<listing, published, walk, gaps, audit, verdict, runs, gone, head,
                 ownHeal, shifted>>

Page(n) == SubSeq(listing, (n - 1) * PageSize + 1, Min({n * PageSize, Len(listing)}))
TopRows == {listing[i] : i \in 1..Min({HeadPages * PageSize, Len(listing)})}
Held(tenders) == {t \in tenders : corpus[t] # "nobody"}

-----------------------------------------------------------------------------
\* The run row and the census; the walk follows.
Census ==
  /\ walk.phase = "off" /\ runs < MaxRuns
  /\ walk' = [NoWalk EXCEPT !.phase = "counted"]
  /\ runs' = runs + 1
  /\ head' = TopRows /\ ownHeal' = {}
  /\ UNCHANGED <<listing, published, corpus, gaps, audit, verdict, gone, shifted>>

WalkPage ==
  /\ walk.phase \in {"counted", "page"} /\ walk.rows = << >> /\ walk.page < HeadPages
  /\ walk' = [walk EXCEPT !.phase = "page", !.page = @ + 1, !.rows = Page(walk.page + 1)]
  /\ UNCHANGED <<listing, published, corpus, gaps, audit, verdict, runs, gone, head,
                 ownHeal, shifted>>

\* Mutant: a row that the corpus did not hold would be counted and not stored.
Stored_Counted(t) == corpus

\* upsert_tender; a row that is there stays whose it is.
Stored(t) == [corpus EXCEPT ![t] = IF @ = "nobody" THEN "reconcile" ELSE @]

\* One row: looked up, upserted, and counted as missed if it was created.  The
\* poller can be first in between; then nothing is created.
WalkRow ==
  /\ walk.rows # << >>
  /\ LET t == Head(walk.rows)
         created == corpus[t] = "nobody"
     IN /\ corpus' = Stored(t)
        /\ walk' = [walk EXCEPT !.rows = Tail(@), !.seen = @ + 1,
                                !.healed = @ + (IF created THEN 1 ELSE 0)]
        /\ ownHeal' = ownHeal \cup (IF created THEN {t} ELSE {})
  /\ UNCHANGED <<listing, published, gaps, audit, verdict, runs, gone, head, shifted>>

\* The gap event, if the miss rate is above the threshold, and the report.
Report ==
  /\ walk.phase = "page" /\ walk.page = HeadPages /\ walk.rows = << >>
  /\ gaps' = gaps \cup (IF walk.healed * 100 > GapPercent * walk.seen
                        THEN {[healed |-> walk.healed, sampled |-> walk.seen]} ELSE {})
  /\ walk' = [walk EXCEPT !.phase = "done"]
  /\ UNCHANGED <<listing, published, corpus, audit, verdict, runs, gone, head,
                 ownHeal, shifted>>

\* The client raises, or the process dies: what is upserted stays, no event
\* tells of it.  A walk that is done ends here, too.
WalkEnds ==
  /\ walk.phase # "off"
  /\ walk' = NoWalk
  /\ UNCHANGED <<listing, published, corpus, gaps, audit, verdict, runs, gone, head,
                 ownHeal, shifted>>

-----------------------------------------------------------------------------
\* The first page tells how many there are; some are drawn.
Draw ==
  /\ audit.phase = "off" /\ runs < MaxRuns /\ listing # << >>
  /\ \E pages \in SUBSET (1..((Len(listing) + PageSize - 1) \div PageSize)) :
       /\ Cardinality(pages) = Min({AuditPages, (Len(listing) + PageSize - 1) \div PageSize})
       /\ audit' = [NoAudit EXCEPT !.phase = "pages", !.pages = pages]
  /\ runs' = runs + 1
  /\ shifted' = FALSE
  /\ UNCHANGED <<listing, published, corpus, walk, gaps, verdict, gone, head, ownHeal>>

Sample ==
  /\ audit.phase = "pages" /\ audit.pages # {} /\ Len(audit.sample) < SampleSize
  /\ audit' = [audit EXCEPT !.pages = @ \ {Min(@)}, !.sample = @ \o Page(Min(audit.pages))]
  /\ UNCHANGED <<listing, published, corpus, walk, gaps, verdict, runs, gone, head,
                 ownHeal, shifted>>

\* What is left of a sample that is too large: any SampleSize of its places.
Cut(sample) ==
  IF Len(sample) <= SampleSize THEN {DOMAIN sample}
  ELSE {places \in SUBSET DOMAIN sample : Cardinality(places) = SampleSize}

\* The corpus is asked once.  Those found are a set; the sample is a list, and
\* a tender that moved to the next page while it was read is in it twice.
Judge ==
  /\ audit.phase = "pages" /\ (audit.pages = {} \/ Len(audit.sample) >= SampleSize)
  /\ audit' = NoAudit
  /\ IF audit.sample = << >> THEN UNCHANGED verdict
     ELSE \E places \in Cut(audit.sample) :
            LET found == Held({audit.sample[i] : i \in places})
                total == Cardinality(places)
            IN verdict' = [passed |-> Cardinality(found) * 100 >= PassPercent * total,
                           captured |-> Cardinality(found), sampled |-> total,
                           missing |-> Cardinality({i \in places : audit.sample[i] \notin found}),
                           steady |-> ~shifted]
  /\ UNCHANGED <<listing, published, corpus, walk, gaps, runs, gone, head, ownHeal, shifted>>

AuditDies ==
  /\ audit.phase # "off"
  /\ audit' = NoAudit
  /\ UNCHANGED <<listing, published, corpus, walk, gaps, verdict, runs, gone, head,
                 ownHeal, shifted>>

Next ==
  \/ Publish
  \/ \E i \in DOMAIN listing : Withdraw(i) \/ Capture(listing[i])
  \/ Census \/ WalkPage \/ WalkRow \/ Report \/ WalkEnds
  \/ Draw \/ Sample \/ Judge \/ AuditDies

Spec == Init /\ [][Next]_vars

-----------------------------------------------------------------------------
\* When the head sample is done, the corpus holds every tender that was in the
\* head of the listing when it began and still is, unless tenders were
\* withdrawn: new ones push the others towards pages that are still to come.
HeadIsCaptured ==
  walk.phase = "done" /\ gone = 0 => head \cap TopRows \subseteq Held(Tenders)

\* What the walk counts as missed it has created itself, each once, and a walk
\* that missed too many is announced with these counts once it is done.
HealedOnce ==
  /\ walk.phase # "off" => walk.healed = Cardinality(ownHeal)
  /\ walk.phase = "done" /\ Cardinality(ownHeal) * 100 > GapPercent * walk.seen =>
       [healed |-> Cardinality(ownHeal), sampled |-> walk.seen] \in gaps

\* An audit passes only if it missed no more than it may; while the listing
\* stands still it counts every tender once, and fails only for one it misses.
AuditIsHonest ==
  /\ verdict.passed => verdict.missing * 100 <= (100 - PassPercent) * verdict.sampled
  /\ verdict.steady =>
       /\ verdict.captured + verdict.missing = verdict.sampled
       /\ verdict.missing = 0 => verdict.passed
-----------------------------------------------------------------------------
\* The listing holds tenders once, the newest first; all of them until one leaves.
ListingInv ==
  /\ \A i \in DOMAIN listing : listing[i] \in 1..published
  /\ \A i, j \in DOMAIN listing : i < j => listing[j] < listing[i]
  /\ gone = 0 => Len(listing) = published /\ \A i \in DOMAIN listing : listing[i] = published + 1 - i

\* The place of a tender in a listing that nothing has left.
Place(t) == published + 1 - t

\* The walk counts no row twice, and what it counts as missed it has stored;
\* the head as far as it has walked is captured or in hand.
WalkInv ==
  /\ walk.phase = "off" => walk = NoWalk
  /\ walk.phase = "counted" => walk.page = 0 /\ walk.rows = << >>
  /\ walk.phase = "done" => walk.page = HeadPages /\ walk.rows = << >>
  /\ walk.seen + Len(walk.rows) <= walk.page * PageSize /\ walk.healed <= walk.seen
  /\ ownHeal \subseteq Held(Tenders)
  /\ head \subseteq 1..published
  /\ gone = 0 /\ walk.phase # "off" =>
       \A t \in head : Place(t) <= walk.page * PageSize => t \in Held(Tenders) \cup Range(walk.rows)

\* While the listing stands still the sample holds a tender once, and none of
\* the pages that are still to read.
SampleInv ==
  /\ 0 \notin audit.pages
  /\ ~shifted /\ audit.phase = "pages" =>
       /\ \A i, j \in DOMAIN audit.sample : audit.sample[i] = audit.sample[j] => i = j
       /\ \A n \in audit.pages : Range(audit.sample) \cap Range(Page(n)) = {}

CaptureInv == TypeOK /\ ListingInv /\ WalkInv /\ SampleInv /\ HealedOnce /\ AuditIsHonest
=============================================================================
