---------------------------- MODULE OutboxTable -----------------------------
(***************************************************************************)
(* The ingest_events table as its writers change it, whoever they are: an  *)
(* id is drawn from the identity sequence inside a transaction, which then *)
(* commits (the row appears) or is lost (the id stays unused).  Ids may    *)
(* therefore become visible out of their order.                            *)
(*                                                                         *)
(* TenderUpsert implements this module; EventRelay reads the table.        *)
(***************************************************************************)
EXTENDS Naturals

VARIABLES
  nextId,     \* next value of the identity sequence
  open,       \* ids drawn by transactions that have not ended
  committed   \* ids of the rows a reader can see

outboxVars == <<nextId, open, committed>>

OutboxInit ==
  /\ nextId = 1
  /\ open = {}
  /\ committed = {}

Draw ==
  /\ open' = open \cup {nextId}
  /\ nextId' = nextId + 1
  /\ UNCHANGED committed

CommitId(i) ==
  /\ i \in open
  /\ open' = open \ {i}
  /\ committed' = committed \cup {i}
  /\ UNCHANGED nextId

Rollback(i) ==
  /\ i \in open
  /\ open' = open \ {i}
  /\ UNCHANGED <<nextId, committed>>

OutboxNext == Draw \/ \E i \in open : CommitId(i) \/ Rollback(i)

OutboxSpec == OutboxInit /\ [][OutboxNext]_outboxVars
=============================================================================
