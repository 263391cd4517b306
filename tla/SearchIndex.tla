----------------------------- MODULE SearchIndex -----------------------------
(***************************************************************************)
(* The search index behind the rows of tenders (indexer.py).  A follower   *)
(* reads new entries of the event stream as a consumer group, fetches the  *)
(* rows they name and upserts them into the index; an operator's bulk run  *)
(* walks the whole table in id order and does the same.  Fetching and      *)
(* upserting are separate steps of each, and nothing orders the two.       *)
(*                                                                         *)
(* A row is the number of its last change, 0 before the first.  The        *)
(* pending list of the group is left out: the follower reads `>` only, so  *)
(* what it does not finish before it dies or loses the reply is read by    *)
(* nobody, acknowledged or not.                                            *)
(***************************************************************************)
EXTENDS Naturals, Sequences, FiniteSetsExt, Functions

CONSTANTS
  LastId,      \* tenders are 1..LastId, in the order of their ids
  Batch,       \* rows per batch of the bulk run, entries per read of the follower
  MaxVersion,  \* bound: changes of a row
  MaxDeaths    \* bound: deaths, lost replies and refused batches

VARIABLES
  row,         \* the row of each tender
  stream,      \* entries that the group has not been given, oldest first
  group,       \* whether the consumer group exists
  index,       \* the version of each row that the index holds
  follower,    \* phase, entries in hand and the documents made of them
  bulk,        \* the bulk run: phase, last id and documents of its batch
  deaths,
  missed,      \* history: the newest version whose entry was given and not used
  raced        \* history: rows that both had in hand at once

vars == <<row, stream, group, index, follower, bulk, deaths, missed, raced>>

Tenders == 1..LastId
Versions == 0..MaxVersion
Entry == [tender : Tenders, version : Versions]
Docs == UNION {[ids -> Versions] : ids \in SUBSET Tenders}
NoDocs == << >>
Idle == [phase |-> "idle", entries |-> << >>, docs |-> NoDocs]
Off == [phase |-> "off", last |-> 0, docs |-> NoDocs]

TypeOK ==
  /\ row \in [Tenders -> Versions] /\ index \in [Tenders -> Versions]
  /\ missed \in [Tenders -> Versions] /\ raced \subseteq Tenders
  /\ stream \in Seq(Entry) /\ group \in BOOLEAN /\ deaths \in 0..MaxDeaths
  /\ follower \in [phase : {"idle", "taken", "read"}, entries : Seq(Entry), docs : Docs]
  /\ Len(follower.entries) <= Batch
  /\ bulk \in [phase : {"off", "ready", "read"}, last : 0..LastId, docs : Docs]

Init ==
  /\ row = [t \in Tenders |-> 0] /\ index = row /\ missed = row
  /\ stream = << >> /\ group = FALSE
  /\ follower = Idle /\ bulk = Off
  /\ deaths = 0 /\ raced = {}

-----------------------------------------------------------------------------
\* A change that commits with its event: an upsert of the row, an award, a
\* stored document.  Before the group exists the entry is read by nobody: the
\* group starts at the end of the stream.
Announced(t) ==
  /\ row[t] < MaxVersion
  /\ row' = [row EXCEPT ![t] = @ + 1]
  /\ IF group THEN /\ stream' = Append(stream, [tender |-> t, version |-> row[t] + 1])
                   /\ UNCHANGED missed
              ELSE /\ missed' = [missed EXCEPT ![t] = row[t] + 1]
                   /\ UNCHANGED stream
  /\ UNCHANGED <<group, index, follower, bulk, deaths, raced>>

\* What the document would hold changes and no event says so: the agency is
\* resolved, or the closing date passes and open_now becomes false.
Silent(t) ==
  /\ row[t] \in 1..(MaxVersion - 1)
  /\ row' = [row EXCEPT ![t] = @ + 1]
  /\ missed' = [missed EXCEPT ![t] = row[t] + 1]
  /\ UNCHANGED <<stream, group, index, follower, bulk, deaths, raced>>

-----------------------------------------------------------------------------
Entries(n) == SubSeq(stream, 1, n)

\* Mutant: only the first entry of a batch would be looked at.
Ids_First(entries) == {entries[1].tender}

Ids(entries) == {e.tender : e \in Range(entries)}

\* What becomes of the entries in hand when their documents are not stored.
Missing(entries, ids) ==
  [t \in Tenders |-> Max({missed[t]} \cup {e.version : e \in {x \in Range(entries) :
                                             x.tender = t /\ t \in ids}})]

Stored(docs, refused) ==
  [t \in Tenders |-> IF t \in DOMAIN docs \ refused THEN docs[t] ELSE index[t]]

\* xgroup_create at $; a group that exists is kept.
Join ==
  /\ ~group
  /\ group' = TRUE
  /\ UNCHANGED <<row, stream, index, follower, bulk, deaths, missed, raced>>

\* xreadgroup returns up to Batch new entries.
Take ==
  /\ group /\ follower.phase = "idle"
  /\ \E n \in 1..Min({Batch, Len(stream)}) :
       /\ follower' = [Idle EXCEPT !.phase = "taken", !.entries = Entries(n)]
       /\ stream' = SubSeq(stream, n + 1, Len(stream))
  /\ UNCHANGED <<row, group, index, bulk, deaths, missed, raced>>

\* The reply is lost to a timeout; the follower reads on.
LoseReply ==
  /\ group /\ follower.phase = "idle" /\ deaths < MaxDeaths
  /\ \E n \in 1..Min({Batch, Len(stream)}) :
       /\ missed' = Missing(Entries(n), Tenders)
       /\ stream' = SubSeq(stream, n + 1, Len(stream))
  /\ deaths' = deaths + 1
  /\ UNCHANGED <<row, group, index, follower, bulk, raced>>

\* ROW_SQL of the tenders in hand, as they are now.
Fetch ==
  /\ follower.phase = "taken"
  /\ LET docs == [t \in Ids(follower.entries) |-> row[t]]
     IN /\ follower' = [follower EXCEPT !.phase = "read", !.docs = docs]
        /\ raced' = raced \cup (DOMAIN docs \cap DOMAIN bulk.docs)
  /\ UNCHANGED <<row, stream, group, index, bulk, deaths, missed>>

\* The import; documents that the server refuses are only counted, and the
\* entries are acknowledged all the same.
Upsert(refused) ==
  /\ follower.phase = "read"
  /\ refused \subseteq DOMAIN follower.docs
  /\ deaths + (IF refused = {} THEN 0 ELSE 1) <= MaxDeaths
  /\ deaths' = deaths + (IF refused = {} THEN 0 ELSE 1)
  /\ index' = Stored(follower.docs, refused)
  /\ missed' = Missing(follower.entries, refused)
  /\ follower' = Idle
  /\ UNCHANGED <<row, stream, group, bulk, raced>>

\* An error of the database or the server ends the process; it is restarted.
FollowerDies ==
  /\ follower.phase # "idle" /\ deaths < MaxDeaths
  /\ missed' = Missing(follower.entries, Tenders)
  /\ follower' = Idle
  /\ deaths' = deaths + 1
  /\ UNCHANGED <<row, stream, group, index, bulk, raced>>

-----------------------------------------------------------------------------
BulkStart ==
  /\ bulk.phase = "off"
  /\ bulk' = [Off EXCEPT !.phase = "ready"]
  /\ UNCHANGED <<row, stream, group, index, follower, deaths, missed, raced>>

\* Rows that exist beyond the last id, the first Batch of them.
After(id) == {t \in Tenders : t > id /\ row[t] > 0}
NextRows == {t \in After(bulk.last) : Cardinality({u \in After(bulk.last) : u < t}) < Batch}

BulkFetch ==
  /\ bulk.phase = "ready"
  /\ bulk' = IF NextRows = {} THEN Off
             ELSE [phase |-> "read", last |-> Max(NextRows),
                   docs |-> [t \in NextRows |-> row[t]]]
  /\ raced' = raced \cup (NextRows \cap DOMAIN follower.docs)
  /\ UNCHANGED <<row, stream, group, index, follower, deaths, missed>>

BulkUpsert(refused) ==
  /\ bulk.phase = "read"
  /\ refused \subseteq DOMAIN bulk.docs
  /\ index' = Stored(bulk.docs, refused)
  /\ bulk' = [bulk EXCEPT !.phase = "ready", !.docs = NoDocs]
  /\ UNCHANGED <<row, stream, group, follower, deaths, missed, raced>>

BulkDies ==
  /\ bulk.phase # "off"
  /\ bulk' = Off
  /\ UNCHANGED <<row, stream, group, index, follower, deaths, missed, raced>>

Next ==
  \/ \E t \in Tenders : Announced(t) \/ Silent(t)
  \/ Join \/ Take \/ LoseReply \/ Fetch \/ FollowerDies
  \/ BulkStart \/ BulkFetch \/ BulkDies
  \/ \E refused \in SUBSET Tenders : Upsert(refused) \/ BulkUpsert(refused)

Spec == Init /\ [][Next]_vars

-----------------------------------------------------------------------------
\* Entries on their way to the index.
Underway == {e.tender : e \in Range(stream) \cup Range(follower.entries)}

\* The index holds the row as it is, unless an entry of the tender is on its
\* way, its newest change was the very one that was missed (any later change
\* heals an earlier miss), or the two writers had the row in hand at once.
IndexIsCurrent ==
  \A t \in Tenders \ raced :
    index[t] = row[t] \/ missed[t] = row[t] \/ t \in Underway
-----------------------------------------------------------------------------
\* The entry of the newest change of a row.
Newest(t, entries) == [tender |-> t, version |-> row[t]] \in Range(entries)

\* What happened to the newest change of a row whose version `held` a writer has.
Followed(t, held) == held = row[t] \/ missed[t] = row[t] \/ Newest(t, stream)

\* A document in hand is as new as the row, or the change that it lacks is
\* missed or still to come; for the bulk run it may be in the follower's hand.
DocsInv ==
  /\ DOMAIN follower.docs \cap DOMAIN bulk.docs \subseteq raced
  /\ follower.phase = "read" => DOMAIN follower.docs = Ids(follower.entries)
  /\ follower.phase # "read" => follower.docs = NoDocs
  /\ follower.phase = "idle" => follower.entries = << >>
  /\ bulk.phase # "read" => bulk.docs = NoDocs
  /\ \A t \in DOMAIN follower.docs : Followed(t, follower.docs[t])
  /\ \A t \in DOMAIN bulk.docs \ raced :
       Followed(t, bulk.docs[t]) \/ Newest(t, follower.entries)

\* The newest change is in the index, missed, or on its way.
NewestInv ==
  /\ \A t \in Tenders \ raced : Followed(t, index[t]) \/ Newest(t, follower.entries)
  /\ \A t \in Tenders : missed[t] <= row[t]
  /\ \A e \in Range(stream) \cup Range(follower.entries) : e.version <= row[e.tender]

IndexInv == TypeOK /\ DocsInv /\ NewestInv
=============================================================================
