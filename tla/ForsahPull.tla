----------------------------- MODULE ForsahPull -----------------------------
(***************************************************************************)
(* Pulls of the Forsah listing (forsah.run and upsert) into the row of one *)
(* opportunity.  A pull reads a page and upserts what it shows, in a       *)
(* transaction that reads the row, reads its bid count again, and writes   *)
(* the row with one event; no statement locks the row before the UPDATE.   *)
(* Cron starts pulls; a slow one and its successor can overlap.            *)
(*                                                                         *)
(* The content of an opportunity is its status and the submitted bids.     *)
(***************************************************************************)
EXTENDS Integers, Sequences

CONSTANTS
  Pulls,
  MaxBids,     \* bound: submitted bids
  MaxChanges   \* bound: changes at the source

VARIABLES
  source,      \* the opportunity as the listing shows it
  row,         \* its row of tenders, NoRow before the first
  pursued,     \* whether a pursuit of it exists
  events,      \* the ingest_events of it, in the order they committed
  pull,        \* what a pull has in hand: phase, content, what it read
  changes,
  overlapped,  \* history: two pulls had a page in hand at once
  masked       \* history: the award was seen first, or in a change that raised the bids

vars == <<source, row, pursued, events, pull, changes, overlapped, masked>>

Unknown == -1                              \* the listing shows no count
Statuses == {"open", "awarded"}          \* open stands for closed, too
Contents == [status : Statuses, bids : Unknown..MaxBids]
NoRow == [status |-> "none", bids |-> Unknown]
Idle == [phase |-> "idle", content |-> NoRow, seen |-> NoRow, before |-> Unknown]
Kinds == {"tender.created", "tender.updated", "tender.awarded", "competition.rising"}
Event(kind, from, to) == [kind |-> kind, from |-> from, to |-> to]

TypeOK ==
  /\ source \in Contents /\ row \in Contents \cup {NoRow} /\ pursued \in BOOLEAN
  /\ events \in Seq([kind : Kinds, from : Unknown..MaxBids, to : Unknown..MaxBids])
  /\ pull \in [Pulls -> [phase : {"idle", "page", "looked", "compared"},
                         content : Contents \cup {NoRow}, seen : Contents \cup {NoRow},
                         before : Unknown..MaxBids]]
  /\ changes \in 0..MaxChanges /\ overlapped \in BOOLEAN /\ masked \in BOOLEAN

Init ==
  /\ source \in {[status |-> "open", bids |-> b] : b \in {Unknown, 0}}
  /\ row = NoRow /\ pursued = FALSE /\ events = << >>
  /\ pull = [p \in Pulls |-> Idle]
  /\ changes = 0 /\ overlapped = FALSE /\ masked = FALSE

-----------------------------------------------------------------------------
\* Bids are submitted or withdrawn, the opportunity is awarded.
SourceChanges(content) ==
  /\ changes < MaxChanges
  /\ content # source
  /\ source.status = "awarded" => content.status = "awarded"
  /\ source' = content
  /\ changes' = changes + 1
  /\ UNCHANGED <<row, pursued, events, pull, overlapped, masked>>

Pursue ==
  /\ row # NoRow /\ ~pursued
  /\ pursued' = TRUE
  /\ UNCHANGED <<source, row, events, pull, changes, overlapped, masked>>

\* GET /opportunities.
Page(p) ==
  /\ pull[p].phase = "idle"
  /\ pull' = [pull EXCEPT ![p] = [Idle EXCEPT !.phase = "page", !.content = source]]
  /\ overlapped' = (overlapped \/ \E q \in Pulls : pull[q].phase # "idle")
  /\ UNCHANGED <<source, row, pursued, events, changes, masked>>

\* The SELECT of the row; one whose hash is that of the page is left alone.
Look(p) ==
  /\ pull[p].phase = "page"
  /\ pull' = [pull EXCEPT ![p] = IF row = pull[p].content THEN Idle
                                 ELSE [@ EXCEPT !.phase = "looked", !.seen = row]]
  /\ UNCHANGED <<source, row, pursued, events, changes, overlapped, masked>>

\* INSERT .. ON CONFLICT DO NOTHING, and its event if it inserted.
Insert(p) ==
  /\ pull[p].phase = "looked" /\ pull[p].seen = NoRow
  /\ IF row = NoRow
     THEN /\ row' = pull[p].content
          /\ events' = Append(events, Event("tender.created", Unknown, Unknown))
          /\ masked' = (pull[p].content.status = "awarded")
     ELSE UNCHANGED <<row, events, masked>>
  /\ pull' = [pull EXCEPT ![p] = Idle]
  /\ UNCHANGED <<source, pursued, changes, overlapped>>

\* The SELECT of submitted_bids_count.
Compare(p) ==
  /\ pull[p].phase = "looked" /\ pull[p].seen # NoRow
  /\ pull' = [pull EXCEPT ![p].phase = "compared", ![p].before = row.bids]
  /\ UNCHANGED <<source, row, pursued, events, changes, overlapped, masked>>

Counted(content) == IF content.bids = Unknown THEN 0 ELSE content.bids

\* Mutant: a count that the row did not have would be taken for zero.
Rising_FromNothing(before, content) == pursued /\ Counted(content) > before

Rising(before, content) ==
  pursued /\ before # Unknown /\ Counted(content) > before

\* The event of a change: rising bids on a pursued tender take precedence.
Announced(before, content) ==
  IF Rising(before, content) THEN Event("competition.rising", before, Counted(content))
  ELSE Event(IF content.status = "awarded" THEN "tender.awarded" ELSE "tender.updated",
             Unknown, Unknown)

\* The UPDATE, the look for a pursuit, the event and the commit.
Write(p) ==
  /\ pull[p].phase = "compared"
  /\ LET content == pull[p].content
     IN /\ row' = content
        /\ events' = Append(events, Announced(pull[p].before, content))
        /\ masked' = (masked \/ /\ content.status = "awarded" /\ row.status # "awarded"
                                /\ Rising(pull[p].before, content))
  /\ pull' = [pull EXCEPT ![p] = Idle]
  /\ UNCHANGED <<source, pursued, changes, overlapped>>

\* An error ends the whole pull; its transaction is undone.
Dies(p) ==
  /\ pull[p].phase # "idle"
  /\ pull' = [pull EXCEPT ![p] = Idle]
  /\ UNCHANGED <<source, row, pursued, events, changes, overlapped, masked>>

Next ==
  \/ \E content \in Contents : SourceChanges(content)
  \/ Pursue
  \/ \E p \in Pulls : Page(p) \/ Look(p) \/ Insert(p) \/ Compare(p) \/ Write(p) \/ Dies(p)

Spec == Init /\ [][Next]_vars

-----------------------------------------------------------------------------
Of(kind) == {i \in DOMAIN events : events[i].kind = kind}

\* An opportunity is created once and first.
CreatedFirst == Of("tender.created") = (IF events = << >> THEN {} ELSE {1})

\* An awarded row has been announced as awarded, unless it was first seen
\* awarded or the change that awarded it raised the bids of a pursued tender,
\* and passed for rising competition.
AwardIsAnnounced == row.status = "awarded" => masked \/ Of("tender.awarded") # {}

\* What is announced as a rise is one, from a count that the row had; and no
\* rise is announced twice by pulls that do not overlap: the next one starts
\* where it ended, unless bids were withdrawn and an event lies between.
RisesAddUp ==
  \A i \in Of("competition.rising") :
    /\ events[i].from >= 0 /\ events[i].from < events[i].to
    /\ ~overlapped /\ i + 1 \in Of("competition.rising") => events[i + 1].from = events[i].to

-----------------------------------------------------------------------------
\* What a pull has in hand: the content of a page; a row that was there stays.
InHand ==
  \A p \in Pulls :
    /\ pull[p].phase # "idle" => pull[p].content \in Contents
    /\ pull[p].seen # NoRow => row # NoRow
    /\ pull[p].phase = "compared" => row # NoRow

\* A pull alone compares with the row as it is, and the row has the bids of the
\* rise that was announced last.
Alone ==
  ~overlapped =>
    /\ \A p, q \in Pulls : pull[p].phase # "idle" /\ pull[q].phase # "idle" => p = q
    /\ \A p \in Pulls : pull[p].phase = "compared" => pull[p].before = row.bids
    /\ Len(events) \in Of("competition.rising") => row.bids = events[Len(events)].to

ForsahInv ==
  /\ TypeOK /\ InHand /\ Alone
  /\ row = NoRow <=> events = << >>
  /\ CreatedFirst /\ AwardIsAnnounced /\ RisesAddUp
=============================================================================
