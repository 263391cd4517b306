----------------------------- MODULE EventRelay -----------------------------
(***************************************************************************)
(* relay.py: the outbox relay.  One process polls ingest_events for rows   *)
(* with relayed_at IS NULL, XADDs them to the stream thaqip.events in a    *)
(* pipeline (not a transaction) and then marks them relayed.  A crash or a *)
(* Redis error between two of these statements restarts it with nothing in *)
(* memory.  The writers of the table are OutboxTable's.                    *)
(***************************************************************************)
EXTENDS OutboxTable, Sequences, FiniteSets

CONSTANTS
  Batch,        \* rows per poll (BATCH, 200 in the code)
  MaxEvents,    \* bound: ids drawn from the sequence
  MaxCrashes    \* bound: times the relay dies

RelayAssumption ==
  /\ Batch \in Nat \ {0}
  /\ MaxEvents \in Nat
  /\ MaxCrashes \in Nat

VARIABLES
  seen,       \* seen[j]: the ids that were committed when j was drawn (history)
  relayed,    \* rows whose relayed_at is set
  stream,     \* the ids of the stream's entries, oldest first
  batch,      \* rows of the current poll
  todo,       \* those of them not yet XADDed
  phase,      \* where relay_batch stands
  crashes

relayVars == <<relayed, stream, batch, todo, phase, crashes>>
vars == <<nextId, open, committed, seen, relayed, stream, batch, todo, phase, crashes>>

InStream == {stream[k] : k \in DOMAIN stream}

TypeOK ==
  /\ nextId \in Nat \ {0}
  /\ open \subseteq 1..(nextId - 1)
  /\ committed \subseteq 1..(nextId - 1)
  /\ open \cap committed = {}
  /\ seen \in [1..(nextId - 1) -> SUBSET Nat]
  /\ relayed \subseteq committed
  /\ stream \in Seq(Nat)
  /\ batch \subseteq committed
  /\ todo \subseteq batch
  /\ phase \in {"fetch", "xadd", "mark"}
  /\ crashes \in 0..MaxCrashes

Init ==
  /\ OutboxInit
  /\ seen = <<>>
  /\ relayed = {}
  /\ stream = <<>>
  /\ batch = {}
  /\ todo = {}
  /\ phase = "fetch"
  /\ crashes = 0

-----------------------------------------------------------------------------
(* The writers: upsert_tender, store_awarding, forsah.upsert, reminders. *)

DrawId ==
  /\ nextId <= MaxEvents
  /\ Draw
  /\ seen' = [i \in 1..nextId |-> IF i = nextId THEN committed ELSE seen[i]]
  /\ UNCHANGED relayVars

EndTransaction ==
  /\ \E i \in open : CommitId(i) \/ Rollback(i)
  /\ UNCHANGED <<seen, relayVars>>

-----------------------------------------------------------------------------
(* relay_batch. *)

\* Mutant: the SELECT without its WHERE clause.
Unrelayed_All == committed

\* Mutant: the relay walks the id sequence instead of the visible rows.
Unrelayed_ById == (1..(nextId - 1)) \ relayed

\* ... WHERE relayed_at IS NULL, as a READ COMMITTED snapshot shows it.
Unrelayed == committed \ relayed

\* Mutant: the SELECT without its ORDER BY returns any rows, in any order.
FirstIds_Unordered(S) ==
  {i \in S : Cardinality({j \in S : j > i}) < Batch}

\* Mutant: the poll keeps a high-water mark instead of asking for NULLs.
FirstIds_AboveHighest(S) ==
  {i \in S : \A j \in relayed : j < i}

\* ... ORDER BY id LIMIT BATCH.
FirstIds(S) == {i \in S : Cardinality({j \in S : j < i}) < Batch}

Fetch ==
  /\ phase = "fetch"
  /\ Unrelayed # {}
  /\ batch' = FirstIds(Unrelayed)
  /\ todo' = batch'
  /\ phase' = "xadd"
  /\ UNCHANGED <<outboxVars, seen, relayed, stream, crashes>>

\* The pipeline's XADDs reach Redis one after the other.
Xadd ==
  /\ phase = "xadd"
  /\ \E i \in todo :
       /\ \A j \in todo : i <= j
       /\ stream' = Append(stream, i)
       /\ todo' = todo \ {i}
       /\ phase' = IF todo = {i} THEN "mark" ELSE "xadd"
  /\ UNCHANGED <<outboxVars, seen, relayed, batch, crashes>>

\* Mutant: the rows marked are those unrelayed now, not those of the batch.
Mark_AllUnrelayed ==
  /\ phase = "mark"
  /\ relayed' = committed
  /\ batch' = {}
  /\ phase' = "fetch"
  /\ UNCHANGED <<outboxVars, seen, stream, todo, crashes>>

\* UPDATE ... SET relayed_at = now() WHERE id = ANY(the batch).
Mark ==
  /\ phase = "mark"
  /\ relayed' = relayed \cup batch
  /\ batch' = {}
  /\ phase' = "fetch"
  /\ UNCHANGED <<outboxVars, seen, stream, todo, crashes>>

\* The process dies and docker restarts it.
RelayCrash ==
  /\ phase # "fetch"
  /\ crashes < MaxCrashes
  /\ crashes' = crashes + 1
  /\ phase' = "fetch"
  /\ batch' = {}
  /\ todo' = {}
  /\ UNCHANGED <<outboxVars, seen, relayed, stream>>

Relay == Fetch \/ Xadd \/ Mark

Next == DrawId \/ EndTransaction \/ Relay \/ RelayCrash

Spec == Init /\ [][Next]_vars

-----------------------------------------------------------------------------
(* Properties. *)

\* relay.py: "At-least-once delivery".  A row marked relayed is in the stream,
\* wherever the relay was when it died; and the stream holds nothing of a
\* transaction that rolled back or has not committed.
AtLeastOnce == relayed \subseteq InStream /\ InStream \subseteq committed

\* What was committed before an event's id was drawn precedes that event in
\* the stream, although ids become visible out of order, polls are cut at
\* BATCH rows and crashes repeat them: a consumer meets a tender's creation
\* before its award.
CausalOrder ==
  \A k \in DOMAIN stream : \A i \in seen[stream[k]] :
    \E l \in 1..(k - 1) : stream[l] = i

\* An event is XADDed again only because the relay died before marking it: as
\* many times as it died, at the most.
DuplicatesNeedCrashes ==
  \A i \in committed : Cardinality({k \in DOMAIN stream : stream[k] = i}) <= 1 + crashes
=============================================================================
