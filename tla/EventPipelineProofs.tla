------------------------ MODULE EventPipelineProofs ------------------------
(***************************************************************************)
(* Proofs about the outbox, its relay and the alert engine, for any batch  *)
(* sizes, profiles, events, repetitions, crashes and interruptions: first  *)
(* about each part by itself, then about the two together.                 *)
(*                                                                         *)
(* The relay: FirstIds is closed downwards (FirstIdsDown), so a batch      *)
(* holds whatever was visible and unmarked when one of its rows was drawn  *)
(* (BatchInv); XADD goes through it in id order, so what is behind it is   *)
(* in the stream (SentInv).                                                *)
(*                                                                         *)
(* The alert engine, fed with any entries: the message in hand was claimed *)
(* and has not gone out before (HandInv); a profile of the entry in hand   *)
(* is still to be served or has its row (ServedInv).                       *)
(*                                                                         *)
(* Every behaviour of the pipeline is one of the relay (SpecIsRelay) and   *)
(* one of the alert engine (SpecIsAlerts), so that what holds of each      *)
(* holds of the two together; and it implements NotifyOnce.                *)
(***************************************************************************)
EXTENDS EventPipeline, FiniteSetTheorems, TLAPS

\* Every instance of FiniteSets has a Cardinality of its own.
LEMMA SameSize ==
  \A S : Relay!Cardinality(S) = Cardinality(S) /\ Alerts!Cardinality(S) = Cardinality(S)
BY DEF Cardinality, Relay!Cardinality, Alerts!Cardinality

-----------------------------------------------------------------------------
(* The relay.                                                                 *)

\* seen[j] is older than j and stays visible.
SeenInv ==
  \A j \in 1..(nextId - 1) : \A i \in seen[j] : i \in committed /\ i < j

\* The rows of a batch are unmarked, and each came with its past.
BatchInv ==
  /\ phase = "fetch" => batch = {} /\ todo = {}
  /\ phase = "mark" => todo = {}
  /\ batch \cap relayed = {}
  /\ \A j \in batch : \A i \in seen[j] : i \in relayed \cup batch

SentInv == batch \ todo \subseteq Relay!InStream

\* Where an event stands in the stream, and how often it may: once more than
\* the crashes if it is marked or waits for its mark.
Copies(i) == {k \in DOMAIN stream : stream[k] = i}
Excess(i) == IF i \in relayed \cup (batch \ todo) THEN 1 ELSE 0

CopyInv ==
  \A i \in committed :
    IsFiniteSet(Copies(i)) /\ Cardinality(Copies(i)) <= crashes + Excess(i)

RelayIInv ==
  /\ Relay!TypeOK /\ SeenInv /\ BatchInv /\ SentInv
  /\ Relay!AtLeastOnce /\ Relay!CausalOrder

-----------------------------------------------------------------------------
\* The committed rows are finitely many.
LEMMA CommittedFinite ==
  ASSUME Relay!TypeOK PROVE IsFiniteSet(committed)
<1>1. committed \subseteq 1..(nextId - 1) /\ nextId - 1 \in Int /\ 1 \in Int
  BY DEF Relay!TypeOK
<1>2. IsFiniteSet(1..(nextId - 1))
  BY <1>1, FS_Interval
<1> QED BY <1>1, <1>2, FS_Subset

\* ORDER BY id LIMIT n: with a row, every smaller one is taken.
LEMMA FirstIdsDown ==
  ASSUME Relay!RelayAssumption, NEW S, IsFiniteSet(S), S \subseteq Nat,
         NEW i \in Relay!FirstIds(S), NEW j \in S, j < i
  PROVE  j \in Relay!FirstIds(S)
<1> DEFINE Below(x) == {l \in S : l < x}
<1>1. i \in S /\ Cardinality(Below(i)) < Batch
  BY SameSize DEF Relay!FirstIds
<1>2. Below(j) \subseteq Below(i)
  <2>1. \A l \in S : l < j => l < i
    BY <1>1
  <2> QED BY <2>1
<1>3. IsFiniteSet(Below(i)) /\ IsFiniteSet(Below(j))
  BY FS_Subset
<1>4. Cardinality(Below(j)) <= Cardinality(Below(i))
  BY <1>2, <1>3, FS_Subset
<1>5. Cardinality(Below(i)) \in Nat /\ Cardinality(Below(j)) \in Nat
  BY <1>3, FS_CardinalityType
<1>6. Cardinality(Below(j)) < Batch
  BY <1>1, <1>4, <1>5 DEF Relay!RelayAssumption
<1> QED BY <1>6, SameSize DEF Relay!FirstIds

\* The stream as a set, and where its entries are, after an XADD.
LEMMA Appended ==
  ASSUME Relay!TypeOK, NEW i \in Nat, stream' = Append(stream, i)
  PROVE  /\ stream' \in Seq(Nat)
         /\ DOMAIN stream' = DOMAIN stream \cup {Len(stream) + 1}
         /\ DOMAIN stream = 1..Len(stream) /\ Len(stream) \in Nat
         /\ \A k \in DOMAIN stream : stream'[k] = stream[k]
         /\ stream'[Len(stream) + 1] = i
         /\ Relay!InStream' = Relay!InStream \cup {i}
<1>1. stream \in Seq(Nat)
  BY DEF Relay!TypeOK
<1>2. /\ stream' \in Seq(Nat)
      /\ DOMAIN stream = 1..Len(stream) /\ Len(stream) \in Nat
      /\ DOMAIN stream' = 1..(Len(stream) + 1)
      /\ \A k \in DOMAIN stream : stream'[k] = stream[k]
      /\ stream'[Len(stream) + 1] = i
  BY <1>1
<1>3. DOMAIN stream' = DOMAIN stream \cup {Len(stream) + 1}
  BY <1>2
<1>4. Relay!InStream' = Relay!InStream \cup {i}
  BY <1>2, <1>3 DEF Relay!InStream
<1> QED BY <1>2, <1>3, <1>4

-----------------------------------------------------------------------------
LEMMA RelayInitIInv == ASSUME Relay!RelayAssumption, Relay!Init PROVE RelayIInv
<1>1. Relay!TypeOK
  BY DEF Relay!RelayAssumption, Relay!Init, Relay!OutboxInit, Relay!TypeOK
<1>2. Relay!InStream = {} /\ DOMAIN stream = {}
  BY DEF Relay!Init, Relay!InStream
<1> QED BY <1>1, <1>2
       DEF Relay!Init, Relay!OutboxInit, RelayIInv, SeenInv, BatchInv, SentInv,
                         Relay!AtLeastOnce, Relay!CausalOrder

LEMMA RelayTypePreserved ==
  ASSUME Relay!RelayAssumption, Relay!TypeOK, BatchInv, [Relay!Next]_(Relay!vars)
  PROVE  Relay!TypeOK'
<1> USE DEF Relay!TypeOK, Relay!outboxVars
<1>1. CASE Relay!DrawId
  BY <1>1 DEF Relay!DrawId, Relay!Draw, Relay!relayVars
<1>2. CASE Relay!EndTransaction
  BY <1>2 DEF Relay!EndTransaction, Relay!CommitId, Relay!Rollback, Relay!relayVars
<1>3. CASE Relay!Fetch
  BY <1>3 DEF Relay!Fetch, Relay!FirstIds, Relay!Unrelayed
<1>4. CASE Relay!Xadd
  BY <1>4 DEF Relay!Xadd
<1>5. CASE Relay!Mark
  BY <1>5 DEF Relay!Mark, BatchInv
<1>6. CASE Relay!RelayCrash
  BY <1>6 DEF Relay!RelayCrash, Relay!RelayAssumption
<1>7. CASE UNCHANGED Relay!vars
  BY <1>7 DEF Relay!vars
<1> QED BY <1>1, <1>2, <1>3, <1>4, <1>5, <1>6, <1>7 DEF Relay!Next, Relay!Relay

LEMMA RelayNextIInv ==
  ASSUME Relay!RelayAssumption, RelayIInv, [Relay!Next]_(Relay!vars) PROVE RelayIInv'
<1>0. Relay!TypeOK /\ Relay!TypeOK'
  BY RelayTypePreserved DEF RelayIInv
<1>1. CASE Relay!DrawId
  <2>1. /\ nextId' = nextId + 1 /\ committed' = committed
        /\ \A j \in 1..(nextId - 1) : seen'[j] = seen[j]
        /\ seen'[nextId] = committed
        /\ UNCHANGED Relay!relayVars
    BY <1>0, <1>1 DEF Relay!DrawId, Relay!Draw, Relay!TypeOK
  <2>2. SeenInv'
    BY <1>0, <2>1 DEF RelayIInv, SeenInv, Relay!TypeOK
  <2>3. /\ \A j \in batch : seen'[j] = seen[j]
        /\ \A k \in DOMAIN stream : seen'[stream[k]] = seen[stream[k]]
    BY <1>0, <2>1 DEF Relay!TypeOK, RelayIInv, Relay!AtLeastOnce, Relay!InStream
  <2> QED BY <1>0, <2>1, <2>2, <2>3 DEF RelayIInv, BatchInv, SentInv, Relay!AtLeastOnce,
                                        Relay!CausalOrder, Relay!InStream, Relay!relayVars
<1>2. CASE Relay!EndTransaction
  <2>1. committed \subseteq committed' /\ UNCHANGED <<nextId, seen, Relay!relayVars>>
    BY <1>2 DEF Relay!EndTransaction, Relay!CommitId, Relay!Rollback
  <2> QED BY <1>0, <2>1 DEF RelayIInv, SeenInv, BatchInv, SentInv, Relay!AtLeastOnce,
                           Relay!CausalOrder, Relay!InStream, Relay!relayVars
<1>3. CASE Relay!Fetch
  <2>1. /\ batch' = Relay!FirstIds(Relay!Unrelayed) /\ todo' = batch' /\ phase' = "xadd"
        /\ UNCHANGED <<nextId, committed, seen, relayed, stream>>
    BY <1>3 DEF Relay!Fetch, Relay!outboxVars
  <2>2. batch' \subseteq committed \ relayed
    BY <2>1 DEF Relay!FirstIds, Relay!Unrelayed
  <2>3. ASSUME NEW j \in batch', NEW i \in seen[j] PROVE i \in relayed \cup batch'
    <3>1. i \in committed /\ i < j
      BY <1>0, <2>2 DEF RelayIInv, SeenInv, Relay!TypeOK
    <3>2. IsFiniteSet(Relay!Unrelayed) /\ Relay!Unrelayed \subseteq Nat
      BY <1>0, CommittedFinite, FS_Subset DEF Relay!Unrelayed, Relay!TypeOK
    <3>3. CASE i \in Relay!Unrelayed
      BY <2>1, <3>1, <3>2, <3>3, FirstIdsDown
    <3> QED BY <3>1, <3>3 DEF Relay!Unrelayed
  <2>4. BatchInv'
    BY <2>1, <2>2, <2>3 DEF BatchInv
  <2> QED BY <1>0, <2>1, <2>4 DEF RelayIInv, SeenInv, SentInv, Relay!AtLeastOnce,
                                 Relay!CausalOrder, Relay!InStream
<1>4. CASE Relay!Xadd
  <2>1. PICK i \in todo : /\ \A j \in todo : i <= j
                          /\ stream' = Append(stream, i)
                          /\ todo' = todo \ {i}
                          /\ phase' = IF todo = {i} THEN "mark" ELSE "xadd"
    BY <1>4 DEF Relay!Xadd
  <2>2. i \in Nat /\ i \in batch /\ i \in committed /\ i \in 1..(nextId - 1)
    BY <1>0 DEF Relay!TypeOK
  <2>3. UNCHANGED <<nextId, committed, seen, relayed, batch>>
    BY <1>4 DEF Relay!Xadd, Relay!outboxVars
  <2>4. /\ DOMAIN stream' = DOMAIN stream \cup {Len(stream) + 1}
        /\ DOMAIN stream = 1..Len(stream) /\ Len(stream) \in Nat
        /\ \A k \in DOMAIN stream : stream'[k] = stream[k]
        /\ stream'[Len(stream) + 1] = i
        /\ Relay!InStream' = Relay!InStream \cup {i}
    BY <1>0, <2>1, <2>2, Appended
  <2>5. \A s \in seen[i] : s \in Relay!InStream
    <3>1. ASSUME NEW s \in seen[i] PROVE s \in Relay!InStream
      <4>1. s < i /\ s \in Nat
        BY <1>0, <2>2 DEF RelayIInv, SeenInv, Relay!TypeOK
      <4>2. s \notin todo
        BY <2>1, <2>2, <4>1
      <4>3. s \in relayed \/ s \in batch
        BY <2>2 DEF RelayIInv, BatchInv
      <4> QED BY <4>2, <4>3 DEF RelayIInv, SentInv, Relay!AtLeastOnce
    <3> QED BY <3>1
  <2>6. Relay!CausalOrder'
    <3> SUFFICES ASSUME NEW k \in DOMAIN stream', NEW s \in seen[stream'[k]]
                 PROVE  \E l \in 1..(k - 1) : stream'[l] = s
      BY <2>3 DEF Relay!CausalOrder
    <3>1. CASE k \in DOMAIN stream
      <4>1. PICK l \in 1..(k - 1) : stream[l] = s
        BY <2>4, <3>1 DEF RelayIInv, Relay!CausalOrder
      <4>2. l \in DOMAIN stream
        BY <2>4, <3>1
      <4> QED BY <2>4, <4>1, <4>2
    <3>2. CASE k = Len(stream) + 1
      <4>1. PICK l \in DOMAIN stream : stream[l] = s
        BY <2>4, <2>5, <3>2 DEF Relay!InStream
      <4> QED BY <2>4, <3>2, <4>1
    <3> QED BY <2>4, <3>1, <3>2
  <2>7. BatchInv'
    <3>1. phase' = "mark" => todo' = {}
      BY <2>1
    <3>2. phase' # "fetch"
      BY <2>1
    <3> QED BY <2>3, <3>1, <3>2 DEF RelayIInv, BatchInv
  <2>8. SeenInv' /\ SentInv' /\ Relay!AtLeastOnce'
    BY <2>1, <2>2, <2>3, <2>4 DEF RelayIInv, SeenInv, SentInv, Relay!AtLeastOnce
  <2> QED BY <1>0, <2>6, <2>7, <2>8 DEF RelayIInv
<1>5. CASE Relay!Mark
  BY <1>0, <1>5 DEF Relay!Mark, Relay!outboxVars, Relay!TypeOK, RelayIInv, SeenInv,
     BatchInv, SentInv,
                    Relay!AtLeastOnce, Relay!CausalOrder, Relay!InStream
<1>6. CASE Relay!RelayCrash
  BY <1>0, <1>6 DEF Relay!RelayCrash, Relay!outboxVars, Relay!TypeOK, RelayIInv, SeenInv,
     BatchInv, SentInv,
                    Relay!AtLeastOnce, Relay!CausalOrder, Relay!InStream
<1>7. CASE UNCHANGED Relay!vars
  BY <1>0, <1>7 DEF Relay!vars, RelayIInv, SeenInv, BatchInv, SentInv, Relay!AtLeastOnce,
                    Relay!CausalOrder, Relay!InStream
<1> QED BY <1>1, <1>2, <1>3, <1>4, <1>5, <1>6, <1>7 DEF Relay!Next, Relay!Relay

-----------------------------------------------------------------------------
(* Duplicates. *)

LEMMA InitCopyInv == ASSUME Relay!Init PROVE CopyInv
BY DEF Relay!Init, Relay!OutboxInit, CopyInv

LEMMA NextCopyInv ==
  ASSUME Relay!RelayAssumption, RelayIInv, RelayIInv', CopyInv, [Relay!Next]_(Relay!vars)
  PROVE  CopyInv'
<1>0. Relay!TypeOK /\ Relay!TypeOK' /\ BatchInv
  BY DEF RelayIInv
<1>a. \A i \in committed : Cardinality(Copies(i)) \in Nat
  BY FS_CardinalityType DEF CopyInv
<1>1. CASE Relay!DrawId
  BY <1>1 DEF Relay!DrawId, Relay!Draw, Relay!relayVars, CopyInv, Copies, Excess
<1>2. CASE Relay!EndTransaction
  <2>1. UNCHANGED Relay!relayVars
    BY <1>2 DEF Relay!EndTransaction
  <2>2. ASSUME NEW i \in committed' \ committed PROVE Copies(i)' = {}
    <3>1. i \notin Relay!InStream
      BY DEF RelayIInv, Relay!AtLeastOnce
    <3> QED BY <2>1, <3>1 DEF Copies, Relay!InStream, Relay!relayVars
  <2>3. IsFiniteSet({}) /\ Cardinality({}) = 0
    BY FS_EmptySet
  <2>4. \A i : Copies(i)' = Copies(i) /\ Excess(i)' = Excess(i)
    BY <2>1 DEF Copies, Excess, Relay!relayVars
  <2>5. crashes' = crashes /\ crashes \in Nat /\ \A i : Excess(i) \in {0, 1}
    BY <1>0, <2>1 DEF Relay!TypeOK, Relay!RelayAssumption, Relay!relayVars, Excess
  <2>6. ASSUME NEW i \in committed'
        PROVE  IsFiniteSet(Copies(i)') /\ Cardinality(Copies(i)') <= crashes' + Excess(i)'
    <3>1. CASE i \in committed
      BY <2>4, <2>5, <3>1 DEF CopyInv
    <3>2. CASE i \notin committed
      <4>1. IsFiniteSet(Copies(i)') /\ Cardinality(Copies(i)') = 0
        BY <2>2, <2>3, <3>2
      <4> QED BY <2>4, <2>5, <4>1
    <3> QED BY <3>1, <3>2
  <2> QED BY <2>6 DEF CopyInv
<1>3. CASE Relay!Fetch
  <2>1. /\ batch' = todo' /\ batch = {} /\ todo = {}
        /\ UNCHANGED <<committed, relayed, stream, crashes>>
    BY <1>0, <1>3 DEF Relay!Fetch, Relay!outboxVars, BatchInv
  <2> QED BY <2>1 DEF CopyInv, Copies, Excess
<1>4. CASE Relay!Xadd
  <2>1. PICK i \in todo : stream' = Append(stream, i) /\ todo' = todo \ {i}
    BY <1>4 DEF Relay!Xadd
  <2>2. i \in Nat /\ i \in batch /\ i \in committed /\ i \notin relayed
    BY <1>0 DEF Relay!TypeOK, BatchInv
  <2>3. UNCHANGED <<committed, relayed, batch, crashes>>
    BY <1>4 DEF Relay!Xadd, Relay!outboxVars
  <2>4. /\ DOMAIN stream' = DOMAIN stream \cup {Len(stream) + 1}
        /\ DOMAIN stream = 1..Len(stream) /\ Len(stream) \in Nat
        /\ \A k \in DOMAIN stream : stream'[k] = stream[k]
        /\ stream'[Len(stream) + 1] = i
    BY <1>0, <2>1, <2>2, Appended
  <2>5. /\ Copies(i)' = Copies(i) \cup {Len(stream) + 1}
        /\ Len(stream) + 1 \notin Copies(i)
        /\ \A j \in committed : j # i => Copies(j)' = Copies(j)
    BY <2>4 DEF Copies
  <2>6. Excess(i) = 0 /\ Excess(i)' = 1
    BY <2>1, <2>2, <2>3 DEF Excess
  <2>7. \A j \in committed : j # i => Excess(j)' = Excess(j)
    BY <2>1, <2>3 DEF Excess
  <2>8. IsFiniteSet(Copies(i)') /\ Cardinality(Copies(i)') = Cardinality(Copies(i)) + 1
    BY <2>2, <2>5, FS_AddElement DEF CopyInv
  <2>9. Cardinality(Copies(i)') <= crashes' + Excess(i)'
    BY <1>0, <1>a, <2>2, <2>3, <2>6, <2>8 DEF CopyInv, Relay!TypeOK
  <2> QED BY <2>3, <2>5, <2>7, <2>8, <2>9 DEF CopyInv
<1>5. CASE Relay!Mark
  <2>1. /\ relayed' = relayed \cup batch /\ batch' = {} /\ todo = {}
        /\ UNCHANGED <<committed, stream, crashes, todo>>
    BY <1>0, <1>5 DEF Relay!Mark, Relay!outboxVars, BatchInv
  <2>2. \A i : Excess(i)' = Excess(i) /\ Copies(i)' = Copies(i)
    BY <2>1 DEF Excess, Copies
  <2> QED BY <2>1, <2>2 DEF CopyInv
<1>6. CASE Relay!RelayCrash
  <2>1. /\ crashes' = crashes + 1 /\ crashes \in Nat
        /\ UNCHANGED <<committed, relayed, stream>>
    BY <1>0, <1>6 DEF Relay!RelayCrash, Relay!outboxVars, Relay!TypeOK,
       Relay!RelayAssumption
  <2>2. \A i : Copies(i)' = Copies(i) /\ Excess(i) \in {0, 1} /\ Excess(i)' \in {0, 1}
    BY <2>1 DEF Copies, Excess
  <2>3. ASSUME NEW i \in committed'
        PROVE  IsFiniteSet(Copies(i)') /\ Cardinality(Copies(i)') <= crashes' + Excess(i)'
    <3>1. /\ IsFiniteSet(Copies(i)) /\ Cardinality(Copies(i)) <= crashes + Excess(i)
          /\ Cardinality(Copies(i)) \in Nat
      BY <2>1, <1>a DEF CopyInv
    <3>2. Copies(i)' = Copies(i) /\ Excess(i) \in {0, 1} /\ Excess(i)' \in {0, 1}
      BY <2>2
    <3> QED BY <2>1, <3>1, <3>2
  <2> QED BY <2>3 DEF CopyInv
<1>7. CASE UNCHANGED Relay!vars
  BY <1>7 DEF Relay!vars, CopyInv, Copies, Excess
<1> QED BY <1>1, <1>2, <1>3, <1>4, <1>5, <1>6, <1>7 DEF Relay!Next, Relay!Relay

LEMMA CopyInvBounds ==
  ASSUME Relay!RelayAssumption, Relay!TypeOK, CopyInv PROVE Relay!DuplicatesNeedCrashes
<1> SUFFICES ASSUME NEW i \in committed
             PROVE  Cardinality({k \in DOMAIN stream : stream[k] = i}) <= 1 + crashes
  BY SameSize DEF Relay!DuplicatesNeedCrashes
<1>1. Cardinality(Copies(i)) <= crashes + Excess(i) /\ Cardinality(Copies(i)) \in Nat
  BY FS_CardinalityType DEF CopyInv
<1>2. Excess(i) \in {0, 1} /\ crashes \in Nat
  BY DEF Excess, Relay!TypeOK, Relay!RelayAssumption
<1>3. Cardinality(Copies(i)) <= 1 + crashes
  BY <1>1, <1>2
<1> QED BY <1>3 DEF Copies

-----------------------------------------------------------------------------
\* Every reachable state satisfies the inductive invariant.
THEOREM RelayIsInvariant == ASSUME Relay!RelayAssumption PROVE Relay!Spec => []RelayIInv
<1>1. Relay!Init => RelayIInv
  BY RelayInitIInv
<1>2. RelayIInv /\ [Relay!Next]_(Relay!vars) => RelayIInv'
  BY RelayNextIInv
<1> QED BY <1>1, <1>2, PTL DEF Relay!Spec

\* The variables of the relay's model keep their types.
THEOREM RelayTypeOK == ASSUME Relay!RelayAssumption PROVE Relay!Spec => []Relay!TypeOK
<1>1. RelayIInv => Relay!TypeOK
  BY DEF RelayIInv
<1> QED BY <1>1, RelayIsInvariant, PTL

\* relay.py's "at-least-once delivery": what is marked is in the stream, and
\* what is in the stream was committed, however often the relay died.
THEOREM RelayAtLeastOnce ==
  ASSUME Relay!RelayAssumption
  PROVE  Relay!Spec => []Relay!AtLeastOnce
<1>1. RelayIInv => Relay!AtLeastOnce
  BY DEF RelayIInv
<1> QED BY <1>1, RelayIsInvariant, PTL

\* The stream respects causality, for any batch size and any crashes.
THEOREM RelayCausalOrder ==
  ASSUME Relay!RelayAssumption
  PROVE  Relay!Spec => []Relay!CausalOrder
<1>1. RelayIInv => Relay!CausalOrder
  BY DEF RelayIInv
<1> QED BY <1>1, RelayIsInvariant, PTL

\* An event is published again at most once for each death of the relay.
THEOREM RelayDuplicates ==
  ASSUME Relay!RelayAssumption
  PROVE  Relay!Spec => []Relay!DuplicatesNeedCrashes
<1>1. Relay!Init => RelayIInv /\ CopyInv
  BY RelayInitIInv, InitCopyInv
<1>2. (RelayIInv /\ CopyInv) /\ [Relay!Next]_(Relay!vars) => (RelayIInv /\ CopyInv)'
  BY RelayNextIInv, NextCopyInv
<1>3. RelayIInv /\ CopyInv => Relay!DuplicatesNeedCrashes
  BY CopyInvBounds DEF RelayIInv
<1> QED BY <1>1, <1>2, <1>3, PTL DEF Relay!Spec

-----------------------------------------------------------------------------
(* The alert engine.                                                          *)

\* Between read and read the loop has entries in hand, at each position one.
LoopInv ==
  /\ step = "handle" => inbox # {}
  /\ step \in {"claim", "send", "record"} => entry \in inbox
  /\ Profiles \ asked \subseteq rows

\* The notification in hand: claimed, its message not sent before "send" and,
\* at "record", sent if that is what send returned.
HandInv ==
  step \in {"send", "record"} /\ current \notin asked =>
    /\ notif[current][Alerts!Event] = "claimed"
    /\ step = "send" => sends[current][Alerts!Event] = 0
    /\ step = "record" => sends[current][Alerts!Event] = IF outcome = "sent" THEN 1 ELSE 0

\* No message without a row; a row queued for a digest has had none.
RowInv ==
  \A p \in Profiles \ asked, e \in Events : notif[p][e] = "none" => sends[p][e] = 0

\* The profiles of the entry in hand: still to serve, or with a row.
ServedInv ==
  step \in {"claim", "send", "record"} =>
    \A p \in Wanted[Alerts!Event] \ asked : p \in targets \/ notif[p][Alerts!Event] # "none"

AlertIInv == /\ Alerts!TypeOK /\ LoopInv /\ HandInv /\ RowInv /\ ServedInv
        /\ Alerts!SendOnce /\ Alerts!AckedIsRecorded

-----------------------------------------------------------------------------
LEMMA AlertInitIInv == ASSUME Alerts!AlertAssumption, Alerts!Init PROVE AlertIInv
<1>1. Alerts!TypeOK
  BY DEF Alerts!AlertAssumption, Alerts!Init, Alerts!AlertInit, Alerts!TypeOK,
     Alerts!Status, Alerts!Outcomes
<1> QED BY <1>1 DEF Alerts!Init, Alerts!AlertInit, AlertIInv, LoopInv, HandInv, RowInv,
       ServedInv,
                    Alerts!SendOnce, Alerts!AckedIsRecorded

\* Entries of the stream are events, and stay where they are.
LEMMA StreamGrows ==
  ASSUME Alerts!TypeOK, NEW e \in Events, stream' = Append(stream, e)
  PROVE  /\ stream' \in Seq(Events)
         /\ Len(stream') = Len(stream) + 1
         /\ \A k \in 1..Len(stream) : stream'[k] = stream[k]
BY DEF Alerts!TypeOK

\* The entry being handled is an event.
LEMMA EventType ==
  ASSUME Alerts!TypeOK, step \in {"claim", "send", "record"}
  PROVE  /\ entry \in 1..cursor /\ entry \in 1..Len(stream) /\ entry \in inbox
         /\ Alerts!Event \in Events
BY DEF Alerts!TypeOK, Alerts!Event

\* Writing one cell of the tables.
LEMMA CellUpdate ==
  ASSUME Alerts!TypeOK, NEW p \in Profiles, NEW e \in Events, NEW v
  PROVE  /\ v \in Alerts!Status =>
              [notif EXCEPT ![p][e] = v] \in [Profiles -> [Events -> Alerts!Status]]
         /\ v \in Nat => [sends EXCEPT ![p][e] = v] \in [Profiles -> [Events -> Nat]]
         /\ sends[p][e] \in Nat
         /\ \A q \in Profiles, f \in Events :
              /\ [notif EXCEPT ![p][e] = v][q][f] = IF q = p /\ f = e THEN v ELSE notif[q][f]
              /\ [sends EXCEPT ![p][e] = v][q][f] = IF q = p /\ f = e THEN v ELSE sends[q][f]
BY DEF Alerts!TypeOK

LEMMA AbandonType ==
  ASSUME Alerts!TypeOK, Alerts!AbandonEntry, UNCHANGED stream,
         sends' \in [Profiles -> [Events -> Nat]]
  PROVE  Alerts!TypeOK'
<1>1. step' \in {"read", "handle"}
  BY DEF Alerts!AbandonEntry
<1>2. inbox' \subseteq pending' /\ targets' \subseteq Profiles /\ interruptions' \in Nat
  BY DEF Alerts!AbandonEntry, Alerts!TypeOK
<1> QED BY <1>1, <1>2 DEF Alerts!AbandonEntry, Alerts!TypeOK

LEMMA AlertTypePreserved ==
  ASSUME Alerts!AlertAssumption, Alerts!TypeOK, LoopInv, [Alerts!Next]_(Alerts!vars)
  PROVE  Alerts!TypeOK'
<1> USE DEF Alerts!consumerVars, Alerts!tableVars, Alerts!alertVars
<1>1. CASE Alerts!Arrive
  <2>1. PICK e \in Events : stream' = Append(stream, e) /\ UNCHANGED Alerts!alertVars
    BY <1>1 DEF Alerts!Arrive
  <2> QED BY <2>1, StreamGrows DEF Alerts!TypeOK
<1>2. CASE Alerts!ReadGroup
  BY <1>2 DEF Alerts!ReadGroup, Alerts!Reads, Alerts!TypeOK
<1>3. CASE Alerts!LostRead
  BY <1>3 DEF Alerts!LostRead, Alerts!Reads, Alerts!TypeOK
<1>4. CASE Alerts!StartEntry
  BY <1>4 DEF Alerts!StartEntry, Alerts!TypeOK, Alerts!AlertAssumption
<1>5. CASE Alerts!Send
  <2>1. Alerts!Event \in Events /\ current \in Profiles
    BY <1>5, EventType DEF Alerts!Send, Alerts!TypeOK
  <2>2. sends' \in [Profiles -> [Events -> Nat]]
    BY <1>5, <2>1, CellUpdate DEF Alerts!Send, Alerts!TypeOK
  <2> QED BY <1>5, <2>2, EventType DEF Alerts!Send, Alerts!TypeOK, Alerts!Outcomes
<1>6. CASE Alerts!Record
  <2>1. Alerts!Event \in Events /\ current \in Profiles /\ outcome \in Alerts!Status
    BY <1>6, EventType DEF Alerts!Record, Alerts!TypeOK, Alerts!Outcomes, Alerts!Status
  <2>2. notif' \in [Profiles -> [Events -> Alerts!Status]]
    BY <1>6, <2>1, CellUpdate DEF Alerts!Record, Alerts!TypeOK
  <2> QED BY <1>6, <2>2, EventType DEF Alerts!Record, Alerts!TypeOK
<1>7. CASE Alerts!Ack
  BY <1>7, EventType DEF Alerts!Ack, Alerts!TypeOK
<1>8. ASSUME NEW p \in Profiles, Alerts!SkipClaimed(p) PROVE Alerts!TypeOK'
  BY <1>8 DEF Alerts!SkipClaimed, Alerts!TypeOK
<1>9. ASSUME NEW p \in Profiles, Alerts!Claim(p) PROVE Alerts!TypeOK'
  <2>1. Alerts!Event \in Events /\ "claimed" \in Alerts!Status
    BY <1>9, EventType DEF Alerts!Claim, Alerts!Status
  <2>2. notif' \in [Profiles -> [Events -> Alerts!Status]]
    BY <1>9, <2>1, CellUpdate DEF Alerts!Claim
  <2> QED BY <1>9, <2>2, EventType DEF Alerts!Claim, Alerts!TypeOK, Alerts!Outcomes
<1>10. CASE Alerts!Raise
  <2>1. Alerts!Event \in Events /\ current \in Profiles
    BY <1>10, EventType DEF Alerts!Raise, Alerts!TypeOK
  <2>2. sends' \in [Profiles -> [Events -> Nat]]
    <3>1. sends \in [Profiles -> [Events -> Nat]]
      BY DEF Alerts!TypeOK
    <3>2. sends[current][Alerts!Event] + 1 \in Nat
      BY <2>1, <3>1
    <3>3. [sends EXCEPT ![current][Alerts!Event] = sends[current][Alerts!Event] + 1]
            \in [Profiles -> [Events -> Nat]]
      BY <2>1, <3>2, CellUpdate
    <3>4. sends' = sends \/ sends' = [sends EXCEPT ![current][Alerts!Event] = @ + 1]
      BY <1>10 DEF Alerts!Raise
    <3> QED BY <3>1, <3>3, <3>4
  <2>3. Alerts!AbandonEntry /\ UNCHANGED stream
    BY <1>10 DEF Alerts!Raise, Alerts!AbandonEntry
  <2> QED BY <2>2, <2>3, AbandonType
<1>11. ASSUME NEW p \in Profiles, Alerts!ForeignKeyError(p) PROVE Alerts!TypeOK'
  <2>1. Alerts!AbandonEntry /\ UNCHANGED stream /\ UNCHANGED sends
    BY <1>11 DEF Alerts!ForeignKeyError, Alerts!AbandonEntry
  <2> QED BY <2>1, AbandonType DEF Alerts!TypeOK
<1>12. CASE Alerts!Crash
  BY <1>12 DEF Alerts!Crash, Alerts!TypeOK
<1>13. ASSUME NEW p \in Profiles, Alerts!DeleteNotifications(p) PROVE Alerts!TypeOK'
  BY <1>13 DEF Alerts!DeleteNotifications, Alerts!TypeOK, Alerts!Status
<1>14. ASSUME NEW p \in Profiles, Alerts!DeleteProfile(p) PROVE Alerts!TypeOK'
  BY <1>14 DEF Alerts!DeleteProfile, Alerts!TypeOK
<1>15. CASE UNCHANGED Alerts!vars
  BY <1>15 DEF Alerts!vars, Alerts!TypeOK
<1> QED BY <1>1, <1>2, <1>3, <1>4, <1>5, <1>6, <1>7, <1>8, <1>9, <1>10, <1>11,
           <1>12, <1>13, <1>14, <1>15
        DEF Alerts!Next, Alerts!AlertNext, Alerts!Consume, Alerts!Trouble, Alerts!Console

-----------------------------------------------------------------------------
\* A delivered entry is an event, for known profiles.
LEMMA DeliveredType ==
  ASSUME Alerts!AlertAssumption, Alerts!TypeOK, NEW k \in 1..cursor
  PROVE  stream[k] \in Events /\ Wanted[stream[k]] \subseteq Profiles
<1>1. stream \in Seq(Events) /\ k \in 1..Len(stream)
  BY DEF Alerts!TypeOK
<1>2. stream[k] \in Events
  BY <1>1
<1> QED BY <1>2 DEF Alerts!AlertAssumption

\* The loop goes on with what is left of the read.
LEMMA RestOfRead ==
  ASSUME NEW S, NEW k \in S, S # {k} PROVE S \ {k} # {}
<1>1. PICK l \in S : l # k
  OBVIOUS
<1> QED BY <1>1

\* Whichever way an entry is put down, the loop goes on.
LEMMA PutDown ==
  ASSUME entry \in inbox, inbox' = inbox \ {entry},
         step' = IF inbox = {entry} THEN "read" ELSE "handle"
  PROVE  step' = "read" \/ (step' = "handle" /\ inbox' # {})
<1>1. CASE inbox = {entry}
  BY <1>1
<1>2. CASE inbox # {entry}
  <2>1. inbox \ {entry} # {}
    BY <1>2, RestOfRead
  <2> QED BY <1>2, <2>1
<1> QED BY <1>1, <1>2

\* A read takes over nothing that was delivered before.
LEMMA ReadKeepsAcked ==
  ASSUME Alerts!TypeOK, NEW last \in Alerts!Reads
  PROVE  /\ (1..last) \ (pending \cup (cursor + 1)..last) = (1..cursor) \ pending
         /\ last \in (cursor + 1)..last
<1>1. cursor \in Nat /\ last \in Nat /\ cursor < last /\ pending \subseteq 1..cursor
  BY DEF Alerts!Reads, Alerts!TypeOK
<1> QED BY <1>1

\* One more message, to a profile that had none about the event.
LEMMA FirstMessage ==
  ASSUME Alerts!TypeOK, RowInv, Alerts!SendOnce, current \in Profiles, Alerts!Event \in Events,
         current \notin asked =>
           notif[current][Alerts!Event] = "claimed" /\ sends[current][Alerts!Event] = 0,
         sends' = [sends EXCEPT ![current][Alerts!Event] = @ + 1],
         UNCHANGED <<notif, asked>>
  PROVE  /\ RowInv' /\ Alerts!SendOnce'
         /\ current \notin asked => sends'[current][Alerts!Event] = 1
<1>1. sends \in [Profiles -> [Events -> Nat]]
  BY DEF Alerts!TypeOK
<1>2. \A q \in Profiles, f \in Events :
        sends'[q][f] = IF q = current /\ f = Alerts!Event THEN sends[q][f] + 1 ELSE sends[q][f]
  BY <1>1
<1>3. ASSUME NEW q \in Profiles \ asked, NEW f \in Events
      PROVE  /\ notif[q][f] = "none" => sends'[q][f] = 0
             /\ sends'[q][f] <= 1
             /\ notif[q][f] = "sent" => sends'[q][f] = 1
  <2>1. CASE q = current /\ f = Alerts!Event
    BY <1>2, <2>1
  <2>2. CASE ~(q = current /\ f = Alerts!Event)
    BY <1>2, <2>2 DEF RowInv, Alerts!SendOnce
  <2> QED BY <2>1, <2>2
<1>4. current \notin asked => sends'[current][Alerts!Event] = 1
  BY <1>2
<1> QED BY <1>3, <1>4 DEF RowInv, Alerts!SendOnce

\* What the steps that leave the tables and the entry in hand alone preserve.
LEMMA TablesKept ==
  ASSUME Alerts!TypeOK, AlertIInv, UNCHANGED <<stream, rows, notif, sends, asked>>
  PROVE  RowInv' /\ Alerts!SendOnce' /\ (Profiles \ asked \subseteq rows)'
BY DEF AlertIInv, LoopInv, RowInv, Alerts!SendOnce

LEMMA AlertNextIInv ==
  ASSUME Alerts!AlertAssumption, AlertIInv, [Alerts!Next]_(Alerts!vars) PROVE AlertIInv'
<1>0. Alerts!TypeOK /\ LoopInv /\ Alerts!TypeOK'
  BY AlertTypePreserved DEF AlertIInv
<1> USE DEF Alerts!consumerVars, Alerts!tableVars, Alerts!alertVars
<1>1. CASE Alerts!Arrive
  <2>1. PICK e \in Events : stream' = Append(stream, e) /\ UNCHANGED Alerts!alertVars
    BY <1>1 DEF Alerts!Arrive
  <2>2. \A k \in 1..Len(stream) : stream'[k] = stream[k]
    BY <1>0, <2>1, StreamGrows
  <2>3. step \in {"claim", "send", "record"} => Alerts!Event' = Alerts!Event
    BY <1>0, <2>1, <2>2, EventType DEF Alerts!Event
  <2>4. Alerts!AckedIsRecorded'
    BY <1>0, <2>1, <2>2 DEF AlertIInv, Alerts!AckedIsRecorded, Alerts!TypeOK
  <2> QED BY <1>0, <2>1, <2>3, <2>4
          DEF AlertIInv, LoopInv, HandInv, RowInv, ServedInv, Alerts!SendOnce
<1>2. CASE Alerts!ReadGroup
  <2>1. RowInv' /\ Alerts!SendOnce' /\ (Profiles \ asked \subseteq rows)'
    BY <1>0, <1>2, TablesKept DEF Alerts!ReadGroup
  <2>2. Alerts!AckedIsRecorded' /\ inbox' # {} /\ step' = "handle"
    BY <1>0, <1>2, ReadKeepsAcked DEF Alerts!ReadGroup, AlertIInv, Alerts!AckedIsRecorded
  <2> QED BY <1>0, <2>1, <2>2 DEF AlertIInv, LoopInv, HandInv, ServedInv
<1>3. CASE Alerts!LostRead
  <2>1. RowInv' /\ Alerts!SendOnce' /\ (Profiles \ asked \subseteq rows)'
    BY <1>0, <1>3, TablesKept DEF Alerts!LostRead
  <2>2. Alerts!AckedIsRecorded' /\ step' = "read"
    BY <1>0, <1>3, ReadKeepsAcked DEF Alerts!LostRead, AlertIInv, Alerts!AckedIsRecorded
  <2> QED BY <1>0, <2>1, <2>2 DEF AlertIInv, LoopInv, HandInv, ServedInv
<1>4. CASE Alerts!StartEntry
  <2>1. RowInv' /\ Alerts!SendOnce' /\ (Profiles \ asked \subseteq rows)'
    BY <1>0, <1>4, TablesKept DEF Alerts!StartEntry
  <2>2. entry' \in inbox' /\ step' = "claim" /\ targets' = Wanted[Alerts!Event'] \cap rows
    BY <1>4 DEF Alerts!StartEntry, Alerts!Event
  <2>3. ServedInv'
    <3>1. Alerts!Event' \in Events
      BY <1>0, <2>2 DEF Alerts!TypeOK, Alerts!Event
    <3> QED BY <1>0, <1>4, <2>2, <3>1
           DEF Alerts!StartEntry, LoopInv, ServedInv, Alerts!AlertAssumption
  <2>4. Alerts!AckedIsRecorded'
    BY <1>4 DEF Alerts!StartEntry, AlertIInv, Alerts!AckedIsRecorded
  <2> QED BY <1>0, <2>1, <2>2, <2>3, <2>4 DEF AlertIInv, LoopInv, HandInv
<1>5. CASE Alerts!Send
  <2>1. /\ Alerts!Event \in Events /\ current \in Profiles /\ Alerts!Event' = Alerts!Event
        /\ step = "send" /\ step' = "record"
        /\ UNCHANGED <<stream, cursor, pending, inbox, entry, targets, current, rows,
                       notif, asked>>
    BY <1>0, <1>5, EventType DEF Alerts!Send, Alerts!TypeOK, Alerts!Event
  <2>2. current \notin asked =>
          notif[current][Alerts!Event] = "claimed" /\ sends[current][Alerts!Event] = 0
    BY <2>1 DEF AlertIInv, HandInv
  <2>3. ASSUME outcome' = "sent" PROVE RowInv' /\ Alerts!SendOnce' /\ HandInv'
    <3>1. sends' = [sends EXCEPT ![current][Alerts!Event] = @ + 1]
      BY <1>5, <2>3 DEF Alerts!Send
    <3>2. /\ RowInv' /\ Alerts!SendOnce'
          /\ (current \notin asked => sends'[current][Alerts!Event] = 1)
      BY <1>0, <2>1, <2>2, <3>1, FirstMessage DEF AlertIInv
    <3> QED BY <2>1, <2>2, <2>3, <3>2 DEF HandInv
  <2>4. ASSUME outcome' # "sent" PROVE RowInv' /\ Alerts!SendOnce' /\ HandInv'
    <3>1. sends' = sends
      BY <1>5, <2>4 DEF Alerts!Send
    <3> QED BY <2>1, <2>2, <2>4, <3>1 DEF HandInv, AlertIInv, RowInv, Alerts!SendOnce
  <2>5. RowInv' /\ Alerts!SendOnce' /\ HandInv'
    BY <2>3, <2>4
  <2>6. ServedInv' /\ Alerts!AckedIsRecorded' /\ LoopInv'
    BY <1>0, <2>1 DEF AlertIInv, ServedInv, Alerts!AckedIsRecorded, LoopInv
  <2> QED BY <1>0, <2>5, <2>6 DEF AlertIInv
<1>6. CASE Alerts!Record
  <2>1. /\ Alerts!Event \in Events /\ current \in Profiles /\ Alerts!Event' = Alerts!Event
        /\ step = "record" /\ step' = "claim"
        /\ UNCHANGED <<stream, cursor, pending, inbox, entry, targets, rows, sends, asked>>
    BY <1>0, <1>6, EventType DEF Alerts!Record, Alerts!TypeOK, Alerts!Event
  <2>2. \A q \in Profiles, f \in Events :
          notif'[q][f] = IF q = current /\ f = Alerts!Event /\ notif[q][f] # "none"
                         THEN outcome ELSE notif[q][f]
    <3>1. \A q \in Profiles, f \in Events :
            [notif EXCEPT ![current][Alerts!Event] = outcome][q][f] =
              IF q = current /\ f = Alerts!Event THEN outcome ELSE notif[q][f]
      BY <1>0, <2>1 DEF Alerts!TypeOK
    <3> QED BY <1>6, <2>1, <3>1 DEF Alerts!Record
  <2>3. outcome # "none"
    BY <1>0 DEF Alerts!TypeOK, Alerts!Outcomes
  <2>4. current \notin asked =>
          sends[current][Alerts!Event] = IF outcome = "sent" THEN 1 ELSE 0
    BY <2>1 DEF AlertIInv, HandInv
  <2>5. RowInv' /\ Alerts!SendOnce'
    BY <1>0, <2>1, <2>2, <2>3, <2>4 DEF AlertIInv, RowInv, Alerts!SendOnce
  <2>6. ServedInv'
    <3>1. \A q \in Profiles : notif[q][Alerts!Event] # "none" => notif'[q][Alerts!Event] # "none"
      BY <2>1, <2>2, <2>3
    <3>2. Wanted[Alerts!Event] \subseteq Profiles
      BY <2>1 DEF Alerts!AlertAssumption
    <3> QED BY <2>1, <3>1, <3>2 DEF AlertIInv, ServedInv
  <2>7. Alerts!AckedIsRecorded'
    <3>1. \A k \in 1..cursor : stream[k] \in Events /\ Wanted[stream[k]] \subseteq Profiles
      BY <1>0, DeliveredType
    <3> QED BY <2>1, <2>2, <2>3, <3>1 DEF AlertIInv, Alerts!AckedIsRecorded
  <2> QED BY <1>0, <2>1, <2>5, <2>6, <2>7 DEF AlertIInv, LoopInv, HandInv
<1>7. CASE Alerts!Ack
  <2>1. RowInv' /\ Alerts!SendOnce' /\ (Profiles \ asked \subseteq rows)'
    BY <1>0, <1>7, TablesKept DEF Alerts!Ack
  <2>2. Alerts!AckedIsRecorded'
    <3>1. \A p \in Wanted[stream[entry]] \ asked : notif[p][stream[entry]] # "none"
      BY <1>7 DEF Alerts!Ack, AlertIInv, ServedInv, Alerts!Event
    <3> QED BY <1>7, <3>1 DEF Alerts!Ack, AlertIInv, Alerts!AckedIsRecorded
  <2>3. step' = "read" \/ (step' = "handle" /\ inbox' # {})
    BY <1>0, <1>7, EventType, PutDown DEF Alerts!Ack
  <2> QED BY <1>0, <2>1, <2>2, <2>3 DEF AlertIInv, LoopInv, HandInv, ServedInv
<1>8. ASSUME NEW p \in Profiles, Alerts!SkipClaimed(p) PROVE AlertIInv'
  <2>1. RowInv' /\ Alerts!SendOnce' /\ (Profiles \ asked \subseteq rows)'
    BY <1>0, <1>8, TablesKept DEF Alerts!SkipClaimed
  <2> QED BY <1>0, <1>8, <2>1
          DEF Alerts!SkipClaimed, AlertIInv, LoopInv, HandInv, ServedInv,
             Alerts!AckedIsRecorded, Alerts!Event
<1>9. ASSUME NEW p \in Profiles, Alerts!Claim(p) PROVE AlertIInv'
  <2>1. /\ Alerts!Event \in Events /\ Alerts!Event' = Alerts!Event /\ notif[p][Alerts!Event] = "none"
        /\ step = "claim" /\ step' \in {"send", "record"}
        /\ targets' = targets \ {p} /\ current' = p /\ outcome' = "queued"
        /\ UNCHANGED <<stream, cursor, pending, inbox, entry, rows, sends, asked>>
    BY <1>0, <1>9, EventType DEF Alerts!Claim, Alerts!IsUnclaimed, Alerts!Event
  <2>2. \A q \in Profiles, f \in Events :
          notif'[q][f] = IF q = p /\ f = Alerts!Event THEN "claimed" ELSE notif[q][f]
    <3>1. notif' = [notif EXCEPT ![p][Alerts!Event] = "claimed"]
      BY <1>9 DEF Alerts!Claim
    <3> QED BY <1>0, <2>1, <3>1 DEF Alerts!TypeOK
  <2>3. RowInv' /\ Alerts!SendOnce'
    BY <2>1, <2>2 DEF AlertIInv, RowInv, Alerts!SendOnce
  <2>4. HandInv'
    BY <2>1, <2>2 DEF AlertIInv, RowInv, HandInv
  <2>5. ServedInv'
    <3>1. Wanted[Alerts!Event] \subseteq Profiles
      BY <2>1 DEF Alerts!AlertAssumption
    <3> QED BY <2>1, <2>2, <3>1 DEF AlertIInv, ServedInv
  <2>6. Alerts!AckedIsRecorded'
    <3>1. \A k \in 1..cursor : stream[k] \in Events /\ Wanted[stream[k]] \subseteq Profiles
      BY <1>0, DeliveredType
    <3> QED BY <2>1, <2>2, <3>1 DEF AlertIInv, Alerts!AckedIsRecorded
  <2> QED BY <1>0, <2>1, <2>3, <2>4, <2>5, <2>6 DEF AlertIInv, LoopInv
<1>10. CASE Alerts!Raise
  <2>1. /\ Alerts!Event \in Events /\ current \in Profiles /\ entry \in inbox
        /\ UNCHANGED <<stream, cursor, pending, rows, notif, asked>>
    BY <1>0, <1>10, EventType DEF Alerts!Raise, Alerts!AbandonEntry, Alerts!TypeOK
  <2>2. step' = "read" \/ (step' = "handle" /\ inbox' # {})
    BY <1>10, <2>1, PutDown DEF Alerts!Raise, Alerts!AbandonEntry
  <2>3. step = "send" /\ current \notin asked =>
          notif[current][Alerts!Event] = "claimed" /\ sends[current][Alerts!Event] = 0
    BY DEF AlertIInv, HandInv
  <2>4. ASSUME step = "send", sends' = [sends EXCEPT ![current][Alerts!Event] = @ + 1]
        PROVE  RowInv' /\ Alerts!SendOnce'
    BY <1>0, <2>1, <2>3, <2>4, FirstMessage DEF AlertIInv
  <2>5. RowInv' /\ Alerts!SendOnce'
    <3>1. CASE UNCHANGED sends
      BY <2>1, <3>1 DEF AlertIInv, RowInv, Alerts!SendOnce
    <3> QED BY <1>10, <2>4, <3>1 DEF Alerts!Raise
  <2> QED BY <1>0, <2>1, <2>2, <2>5
         DEF AlertIInv, LoopInv, HandInv, ServedInv, Alerts!AckedIsRecorded
<1>11. ASSUME NEW p \in Profiles, Alerts!ForeignKeyError(p) PROVE AlertIInv'
  <2>1. RowInv' /\ Alerts!SendOnce' /\ (Profiles \ asked \subseteq rows)'
    BY <1>0, <1>11, TablesKept DEF Alerts!ForeignKeyError, Alerts!AbandonEntry
  <2>2. /\ entry \in inbox
        /\ step' = "read" \/ (step' = "handle" /\ inbox' # {})
        /\ UNCHANGED <<stream, cursor, pending, notif, asked>>
    BY <1>0, <1>11, EventType, PutDown DEF Alerts!ForeignKeyError, Alerts!AbandonEntry
  <2> QED BY <1>0, <2>1, <2>2
         DEF AlertIInv, LoopInv, HandInv, ServedInv, Alerts!AckedIsRecorded
<1>12. CASE Alerts!Crash
  <2>1. RowInv' /\ Alerts!SendOnce' /\ (Profiles \ asked \subseteq rows)'
    BY <1>0, <1>12, TablesKept DEF Alerts!Crash
  <2> QED BY <1>0, <1>12, <2>1
          DEF Alerts!Crash, AlertIInv, LoopInv, HandInv, ServedInv, Alerts!AckedIsRecorded
<1>13. ASSUME NEW p \in Profiles, Alerts!DeleteNotifications(p) PROVE AlertIInv'
  <2>1. /\ asked' = asked \cup {p} /\ Alerts!Event' = Alerts!Event
        /\ \A q \in Profiles \ asked' : notif'[q] = notif[q]
        /\ UNCHANGED <<stream, Alerts!consumerVars, rows, sends>>
    BY <1>0, <1>13 DEF Alerts!DeleteNotifications, Alerts!TypeOK, Alerts!Event
  <2>2. RowInv' /\ Alerts!SendOnce' /\ HandInv' /\ LoopInv'
    BY <1>0, <2>1 DEF AlertIInv, RowInv, Alerts!SendOnce, HandInv, LoopInv, Alerts!TypeOK
  <2>3. ServedInv'
    <3>1. step \in {"claim", "send", "record"} => Wanted[Alerts!Event] \subseteq Profiles
      BY <1>0, EventType DEF Alerts!AlertAssumption
    <3> QED BY <2>1, <3>1 DEF AlertIInv, ServedInv
  <2>4. Alerts!AckedIsRecorded'
    <3>1. \A k \in 1..cursor : stream[k] \in Events /\ Wanted[stream[k]] \subseteq Profiles
      BY <1>0, DeliveredType
    <3> QED BY <2>1, <3>1 DEF AlertIInv, Alerts!AckedIsRecorded
  <2> QED BY <1>0, <2>2, <2>3, <2>4 DEF AlertIInv
<1>14. ASSUME NEW p \in Profiles, Alerts!DeleteProfile(p) PROVE AlertIInv'
  BY <1>0, <1>14 DEF Alerts!DeleteProfile, AlertIInv, LoopInv, HandInv, RowInv,
     ServedInv, Alerts!SendOnce,
                     Alerts!AckedIsRecorded, Alerts!Event
<1>15. CASE UNCHANGED Alerts!vars
  BY <1>0, <1>15 DEF Alerts!vars, AlertIInv, LoopInv, HandInv, RowInv, ServedInv,
     Alerts!SendOnce,
                     Alerts!AckedIsRecorded, Alerts!Event
<1> QED BY <1>1, <1>2, <1>3, <1>4, <1>5, <1>6, <1>7, <1>8, <1>9, <1>10, <1>11,
           <1>12, <1>13, <1>14, <1>15
        DEF Alerts!Next, Alerts!AlertNext, Alerts!Consume, Alerts!Trouble, Alerts!Console

\* Every reachable state satisfies the inductive invariant.
THEOREM AlertIsInvariant == ASSUME Alerts!AlertAssumption PROVE Alerts!Spec => []AlertIInv
<1>1. Alerts!Init => AlertIInv
  BY AlertInitIInv
<1>2. AlertIInv /\ [Alerts!Next]_(Alerts!vars) => AlertIInv'
  BY AlertNextIInv
<1> QED BY <1>1, <1>2, PTL DEF Alerts!Spec

\* The variables of the alert engine's model keep their types.
THEOREM AlertTypeOK == ASSUME Alerts!AlertAssumption PROVE Alerts!Spec => []Alerts!TypeOK
<1>1. AlertIInv => Alerts!TypeOK
  BY DEF AlertIInv
<1> QED BY <1>1, AlertIsInvariant, PTL

\* alerts.py: whatever the stream repeats and however often the consumer is
\* interrupted, a profile has one message about an event at the most.
THEOREM AlertSendOnce ==
  ASSUME Alerts!AlertAssumption
  PROVE  Alerts!Spec => []Alerts!SendOnce
<1>1. AlertIInv => Alerts!SendOnce
  BY DEF AlertIInv
<1> QED BY <1>1, AlertIsInvariant, PTL

\* alerts.py: an entry is acknowledged only after a notification row was
\* written for each profile it is for.
THEOREM AlertAckedIsRecorded ==
  ASSUME Alerts!AlertAssumption
  PROVE  Alerts!Spec => []Alerts!AckedIsRecorded
<1>1. AlertIInv => Alerts!AckedIsRecorded
  BY DEF AlertIInv
<1> QED BY <1>1, AlertIsInvariant, PTL

-----------------------------------------------------------------------------
(* Stranded notifications. *)

StrandInv == IsFiniteSet(Alerts!Stranded) /\ Cardinality(Alerts!Stranded) <= interruptions

\* An interruption may add one pair, nothing else adds any.
LEMMA StrandStep ==
  ASSUME StrandInv, interruptions \in Nat,
         \/ Alerts!Stranded' \subseteq Alerts!Stranded /\ interruptions' = interruptions
         \/ /\ \E x : Alerts!Stranded' \subseteq Alerts!Stranded \cup {x}
            /\ interruptions' = interruptions + 1
  PROVE  StrandInv'
<1>0. IsFiniteSet(Alerts!Stranded) /\ Cardinality(Alerts!Stranded) \in Nat
  BY FS_CardinalityType DEF StrandInv
<1>1. CASE Alerts!Stranded' \subseteq Alerts!Stranded /\ interruptions' = interruptions
  <2>1. /\ IsFiniteSet(Alerts!Stranded')
        /\ Cardinality(Alerts!Stranded') <= Cardinality(Alerts!Stranded)
        /\ Cardinality(Alerts!Stranded') \in Nat
    BY <1>0, <1>1, FS_Subset, FS_CardinalityType
  <2> QED BY <1>0, <1>1, <2>1 DEF StrandInv
<1>2. ASSUME NEW x, Alerts!Stranded' \subseteq Alerts!Stranded \cup {x},
             interruptions' = interruptions + 1
      PROVE  StrandInv'
  <2>1. /\ IsFiniteSet(Alerts!Stranded \cup {x})
        /\ Cardinality(Alerts!Stranded \cup {x})
             \in {Cardinality(Alerts!Stranded), Cardinality(Alerts!Stranded) + 1}
    BY <1>0, FS_AddElement
  <2>2. /\ IsFiniteSet(Alerts!Stranded') /\ Cardinality(Alerts!Stranded') \in Nat
        /\ Cardinality(Alerts!Stranded') <= Cardinality(Alerts!Stranded \cup {x})
    BY <1>2, <2>1, FS_Subset, FS_CardinalityType
  <2>3. Cardinality(Alerts!Stranded') <= interruptions'
    BY <1>0, <1>2, <2>1, <2>2 DEF StrandInv
  <2> QED BY <2>2, <2>3 DEF StrandInv
<1> QED BY <1>1, <1>2

\* The notification in hand is not counted as stranded.
InHand(pe) == step \in {"send", "record"} /\ current = pe[1] /\ Alerts!Event = pe[2]

\* No pair becomes stranded that was not claimed, or not in hand, before.
LEMMA StrandKept ==
  ASSUME asked \subseteq asked',
         \A pe \in (Profiles \ asked') \X Events :
           notif'[pe[1]][pe[2]] = "claimed" /\ ~InHand(pe)'
             => notif[pe[1]][pe[2]] = "claimed" /\ ~InHand(pe)
  PROVE  Alerts!Stranded' \subseteq Alerts!Stranded
BY DEF Alerts!Stranded, InHand

LEMMA NextStrandInv ==
  ASSUME Alerts!AlertAssumption, AlertIInv, StrandInv, [Alerts!Next]_(Alerts!vars)
  PROVE  StrandInv'
<1>0. Alerts!TypeOK /\ interruptions \in Nat
  BY DEF AlertIInv, Alerts!TypeOK
<1> USE DEF Alerts!consumerVars, Alerts!tableVars, Alerts!alertVars
<1>1. CASE Alerts!Arrive
  <2>1. PICK e \in Events : stream' = Append(stream, e) /\ UNCHANGED Alerts!alertVars
    BY <1>1 DEF Alerts!Arrive
  <2>2. \A k \in 1..Len(stream) : stream'[k] = stream[k]
    BY <1>0, <2>1, StreamGrows
  <2>3. step \in {"send", "record"} => Alerts!Event' = Alerts!Event
    BY <1>0, <2>1, <2>2, EventType DEF Alerts!Event
  <2>4. Alerts!Stranded' \subseteq Alerts!Stranded
    BY <2>1, <2>3, StrandKept DEF InHand
  <2> QED BY <1>0, <2>1, <2>4, StrandStep
<1>2. CASE \/ Alerts!ReadGroup \/ Alerts!StartEntry \/ Alerts!Ack
           \/ \E p \in Profiles : Alerts!SkipClaimed(p)
  <2>1. /\ step \notin {"send", "record"}
        /\ UNCHANGED <<notif, asked, interruptions>>
    BY <1>2 DEF Alerts!ReadGroup, Alerts!StartEntry, Alerts!Ack, Alerts!SkipClaimed
  <2>2. Alerts!Stranded' \subseteq Alerts!Stranded
    BY <2>1, StrandKept DEF InHand
  <2> QED BY <1>0, <2>1, <2>2, StrandStep
<1>3. CASE Alerts!Send
  <2>1. /\ step = "send" /\ step' = "record" /\ Alerts!Event' = Alerts!Event
        /\ UNCHANGED <<current, notif, asked, interruptions>>
    BY <1>3 DEF Alerts!Send, Alerts!Event
  <2>2. Alerts!Stranded' \subseteq Alerts!Stranded
    BY <2>1, StrandKept DEF InHand
  <2> QED BY <1>0, <2>1, <2>2, StrandStep
<1>4. CASE Alerts!Record
  <2>1. /\ Alerts!Event \in Events /\ current \in Profiles /\ step = "record"
        /\ UNCHANGED <<asked, interruptions>>
        /\ outcome # "claimed"
    BY <1>0, <1>4, EventType DEF Alerts!Record, Alerts!TypeOK, Alerts!Outcomes
  <2>2. \A q \in Profiles, f \in Events :
          notif'[q][f] = "claimed" => notif[q][f] = "claimed" /\ ~(q = current /\ f = Alerts!Event)
    <3>1. \A q \in Profiles, f \in Events :
            [notif EXCEPT ![current][Alerts!Event] = outcome][q][f] =
              IF q = current /\ f = Alerts!Event THEN outcome ELSE notif[q][f]
      BY <1>0, <2>1 DEF Alerts!TypeOK
    <3> QED BY <1>4, <2>1, <3>1 DEF Alerts!Record
  <2>3. Alerts!Stranded' \subseteq Alerts!Stranded
    BY <2>1, <2>2, StrandKept DEF InHand
  <2> QED BY <1>0, <2>1, <2>3, StrandStep
<1>5. ASSUME NEW p \in Profiles, Alerts!Claim(p) PROVE StrandInv'
  <2>1. /\ Alerts!Event \in Events /\ Alerts!Event' = Alerts!Event /\ step = "claim" /\ current' = p
        /\ step' \in {"send", "record"}
        /\ notif' = [notif EXCEPT ![p][Alerts!Event] = "claimed"]
        /\ UNCHANGED <<asked, interruptions>>
    BY <1>0, <1>5, EventType DEF Alerts!Claim, Alerts!Event
  <2>2. \A q \in Profiles, f \in Events :
          notif'[q][f] = IF q = p /\ f = Alerts!Event THEN "claimed" ELSE notif[q][f]
    BY <1>0, <2>1 DEF Alerts!TypeOK
  <2>3. Alerts!Stranded' \subseteq Alerts!Stranded
    BY <2>1, <2>2, StrandKept DEF InHand
  <2> QED BY <1>0, <2>1, <2>3, StrandStep
<1>6. ASSUME UNCHANGED <<notif, asked>>, interruptions' = interruptions + 1 PROVE StrandInv'
  <2>1. Alerts!Stranded' \subseteq Alerts!Stranded \cup {<<current, Alerts!Event>>}
    BY <1>6 DEF Alerts!Stranded
  <2> QED BY <1>0, <1>6, <2>1, StrandStep
<1>7. CASE Alerts!Trouble
  BY <1>6, <1>7 DEF Alerts!Trouble, Alerts!LostRead, Alerts!Raise, Alerts!AbandonEntry,
     Alerts!Crash
<1>8. ASSUME NEW p \in Profiles, Alerts!ForeignKeyError(p) PROVE StrandInv'
  BY <1>6, <1>8 DEF Alerts!ForeignKeyError, Alerts!AbandonEntry
<1>9. ASSUME NEW p \in Profiles, Alerts!DeleteNotifications(p) PROVE StrandInv'
  <2>1. /\ asked' = asked \cup {p} /\ Alerts!Event' = Alerts!Event
        /\ \A q \in Profiles \ asked' : notif'[q] = notif[q]
        /\ UNCHANGED <<step, current, interruptions>>
    BY <1>0, <1>9 DEF Alerts!DeleteNotifications, Alerts!TypeOK, Alerts!Event
  <2>2. Alerts!Stranded' \subseteq Alerts!Stranded
    BY <2>1, StrandKept DEF InHand
  <2> QED BY <1>0, <2>1, <2>2, StrandStep
<1>10. CASE UNCHANGED Alerts!vars \/ \E p \in Profiles : Alerts!DeleteProfile(p)
  <2>1. Alerts!Event' = Alerts!Event /\ UNCHANGED <<step, current, notif, asked, interruptions>>
    BY <1>10 DEF Alerts!vars, Alerts!DeleteProfile, Alerts!Event
  <2>2. Alerts!Stranded' \subseteq Alerts!Stranded
    BY <2>1, StrandKept DEF InHand
  <2> QED BY <1>0, <2>1, <2>2, StrandStep
<1> QED BY <1>1, <1>2, <1>3, <1>4, <1>5, <1>7, <1>8, <1>9, <1>10
        DEF Alerts!Next, Alerts!AlertNext, Alerts!Consume, Alerts!Console

\* An interruption of the consumer strands one claimed notification at most.
THEOREM AlertStrands ==
  ASSUME Alerts!AlertAssumption
  PROVE  Alerts!Spec => []Alerts!StrandsAreInterruptions
<1>1. Alerts!Init => AlertIInv /\ StrandInv
  <2>1. Alerts!Init => Alerts!Stranded = {} /\ interruptions = 0
    BY DEF Alerts!Init, Alerts!AlertInit, Alerts!Stranded
  <2> QED BY <2>1, AlertInitIInv, FS_EmptySet DEF StrandInv
<1>2. (AlertIInv /\ StrandInv) /\ [Alerts!Next]_(Alerts!vars) => (AlertIInv /\ StrandInv)'
  BY AlertNextIInv, NextStrandInv
<1>3. AlertIInv /\ StrandInv => Alerts!StrandsAreInterruptions
  BY SameSize DEF StrandInv, Alerts!StrandsAreInterruptions
<1> QED BY <1>1, <1>2, <1>3, PTL DEF Alerts!Spec

-----------------------------------------------------------------------------
(* The pipeline does to each part what the part does alone. *)

\* The alert engine never writes the stream.
LEMMA StreamKept == ASSUME Alerts!AlertNext PROVE UNCHANGED stream
BY DEF Alerts!AlertNext, Alerts!Consume, Alerts!Trouble,
   Alerts!Console, Alerts!ReadGroup, Alerts!LostRead,
   Alerts!StartEntry, Alerts!SkipClaimed, Alerts!Claim,
   Alerts!Send, Alerts!Record, Alerts!Ack, Alerts!AbandonEntry,
   Alerts!Raise, Alerts!ForeignKeyError, Alerts!Crash,
   Alerts!DeleteNotifications, Alerts!DeleteProfile

\* What the alert engine does is nothing to the relay.
LEMMA StepOfRelay == ASSUME [Next]_vars PROVE [Relay!Next]_(Relay!vars)
<1>1. CASE RelaySteps
  BY <1>1 DEF RelaySteps
<1>2. CASE AlertSteps
  BY <1>2, StreamKept DEF AlertSteps, relayOnly, Relay!vars
<1>3. CASE UNCHANGED vars
  BY <1>3 DEF vars, relayOnly, Relay!vars
<1> QED BY <1>1, <1>2, <1>3 DEF Next

\* The pipeline, seen from the outbox and the stream, is the relay.
LEMMA SpecIsRelay == Spec => Relay!Spec
<1>1. Init => Relay!Init
  BY DEF Init
<1>2. [Next]_vars => [Relay!Next]_(Relay!vars)
  BY StepOfRelay
<1> QED BY <1>1, <1>2, PTL DEF Spec, Relay!Spec

\* Ids stay within the bound, so that the stream's entries are events.
IdBound == nextId \in Nat /\ nextId <= MaxEvents + 1

\* The relay's invariant holds of the pipeline.
LEMMA RelayInv ==
  ASSUME PipelineAssumption PROVE Spec => [](RelayIInv /\ IdBound)
<1>0. Relay!RelayAssumption /\ MaxEvents \in Nat
  BY DEF PipelineAssumption, Relay!RelayAssumption
<1>1. Relay!Spec => []RelayIInv
  BY <1>0, RelayIsInvariant
<1>2. Init => IdBound
  BY <1>0 DEF Init, Relay!Init, Relay!OutboxInit, IdBound
<1>3. IdBound /\ [Next]_vars => IdBound'
  <2> SUFFICES ASSUME IdBound, [Relay!Next]_(Relay!vars) PROVE IdBound'
    BY StepOfRelay
  <2>1. CASE Relay!DrawId
    BY <1>0, <2>1 DEF Relay!DrawId, Relay!Draw, IdBound
  <2>2. CASE ~Relay!DrawId
    <3>1. UNCHANGED nextId
      BY <2>2 DEF Relay!Next, Relay!EndTransaction, Relay!CommitId,
         Relay!Rollback, Relay!Relay, Relay!Fetch, Relay!Xadd,
         Relay!Mark, Relay!RelayCrash, Relay!vars, Relay!outboxVars
    <3> QED BY <3>1 DEF IdBound
  <2> QED BY <2>1, <2>2
<1> QED BY <1>1, <1>2, <1>3, SpecIsRelay, PTL DEF Spec

\* What the relay does is, to the alert engine, an arrival or nothing.
LEMMA StepOfAlerts ==
  ASSUME RelayIInv, IdBound, MaxEvents \in Nat, [Next]_vars
  PROVE  [Alerts!Next]_(Alerts!vars)
<1> USE DEF alertsOnly, Alerts!vars
<1>1. CASE RelaySteps
  <2>0. Relay!Next /\ UNCHANGED alertsOnly
    BY <1>1 DEF RelaySteps
  <2>1. CASE Relay!Xadd
    <3>1. PICK i \in todo : stream' = Append(stream, i)
      BY <2>1 DEF Relay!Xadd
    <3>2. i \in Events
      BY <3>1 DEF RelayIInv, Relay!TypeOK, IdBound, Events
    <3>3. Alerts!Arrive
      BY <2>0, <3>1, <3>2 DEF Alerts!Arrive, Alerts!alertVars,
         Alerts!consumerVars, Alerts!tableVars
    <3> QED BY <3>3 DEF Alerts!Next
  <2>2. CASE ~Relay!Xadd
    <3>1. UNCHANGED stream
      BY <2>0, <2>2 DEF Relay!Next, Relay!DrawId, Relay!EndTransaction,
         Relay!Relay, Relay!Fetch, Relay!Mark, Relay!RelayCrash,
         Relay!relayVars
    <3> QED BY <2>0, <3>1
  <2> QED BY <2>1, <2>2
<1>2. CASE AlertSteps
  BY <1>2 DEF AlertSteps, Alerts!Next
<1>3. CASE UNCHANGED vars
  BY <1>3 DEF vars
<1> QED BY <1>1, <1>2, <1>3 DEF Next

\* The pipeline, seen from the notifications, is the alert engine.
LEMMA SpecIsAlerts == ASSUME PipelineAssumption PROVE Spec => Alerts!Spec
<1>0. MaxEvents \in Nat
  BY DEF PipelineAssumption, Relay!RelayAssumption
<1>1. Init => Alerts!Init
  BY DEF Init, Alerts!Init, Relay!Init
<1>2. RelayIInv /\ IdBound /\ [Next]_vars => [Alerts!Next]_(Alerts!vars)
  BY <1>0, StepOfAlerts
<1> QED BY <1>1, <1>2, RelayInv, PTL DEF Spec, Alerts!Spec

-----------------------------------------------------------------------------
(* What the parts guarantee. *)

\* The types of relay and alert engine, together.
THEOREM SpecTypeOK == ASSUME PipelineAssumption PROVE Spec => []TypeOK
<1>1. Spec => []Relay!TypeOK
  <2>1. Relay!Spec => []Relay!TypeOK
    BY RelayTypeOK DEF PipelineAssumption
  <2> QED BY <2>1, SpecIsRelay, PTL
<1>2. Spec => []Alerts!TypeOK
  <2>1. Alerts!Spec => []Alerts!TypeOK
    BY AlertTypeOK DEF PipelineAssumption
  <2> QED BY <2>1, SpecIsAlerts, PTL
<1>3. Relay!TypeOK /\ Alerts!TypeOK => TypeOK
  BY DEF TypeOK, Relay!TypeOK, Relay!TypeOK, Alerts!TypeOK, Alerts!TypeOK,
     Alerts!Status, Alerts!Status, Alerts!Outcomes, Alerts!Outcomes
<1> QED BY <1>1, <1>2, <1>3, PTL

\* relay.py: with the alert engine consuming, too, what is marked relayed is in
\* the stream, and only committed events are.
THEOREM SpecAtLeastOnce == ASSUME PipelineAssumption PROVE Spec => []AtLeastOnce
<1>1. Relay!Spec => []Relay!AtLeastOnce
  BY RelayAtLeastOnce DEF PipelineAssumption
<1>2. Relay!AtLeastOnce => AtLeastOnce
  BY DEF AtLeastOnce, Relay!AtLeastOnce, Relay!AtLeastOnce,
     Relay!InStream, Relay!InStream
<1> QED BY <1>1, <1>2, SpecIsRelay, PTL

\* relay.py: an event follows, in the stream, all that had been committed when
\* it drew its id.
THEOREM SpecCausalOrder == ASSUME PipelineAssumption PROVE Spec => []CausalOrder
<1>1. Relay!Spec => []Relay!CausalOrder
  BY RelayCausalOrder DEF PipelineAssumption
<1>2. Relay!CausalOrder => CausalOrder
  BY DEF CausalOrder, Relay!CausalOrder, Relay!CausalOrder
<1> QED BY <1>1, <1>2, SpecIsRelay, PTL

\* relay.py: an event has no more copies in the stream than the relay crashed,
\* plus one.
THEOREM SpecDuplicates ==
  ASSUME PipelineAssumption PROVE Spec => []DuplicatesNeedCrashes
<1>1. Relay!Spec => []Relay!DuplicatesNeedCrashes
  BY RelayDuplicates DEF PipelineAssumption
<1>2. Relay!DuplicatesNeedCrashes => DuplicatesNeedCrashes
  BY DEF DuplicatesNeedCrashes, Relay!DuplicatesNeedCrashes,
     Relay!DuplicatesNeedCrashes
<1> QED BY <1>1, <1>2, SpecIsRelay, PTL

\* alerts.py: with the relay feeding the stream, too, a profile has at most one
\* message about an event.
THEOREM SpecSendOnce == ASSUME PipelineAssumption PROVE Spec => []SendOnce
<1>1. Alerts!Spec => []Alerts!SendOnce
  BY AlertSendOnce DEF PipelineAssumption
<1>2. Alerts!SendOnce => SendOnce
  BY DEF SendOnce, Alerts!SendOnce, Alerts!SendOnce
<1> QED BY <1>1, <1>2, SpecIsAlerts, PTL

\* alerts.py: an acknowledged entry has its notification rows.
THEOREM SpecAckedIsRecorded ==
  ASSUME PipelineAssumption PROVE Spec => []AckedIsRecorded
<1>1. Alerts!Spec => []Alerts!AckedIsRecorded
  BY AlertAckedIsRecorded DEF PipelineAssumption
<1>2. Alerts!AckedIsRecorded => AckedIsRecorded
  BY DEF AckedIsRecorded, Alerts!AckedIsRecorded, Alerts!AckedIsRecorded
<1> QED BY <1>1, <1>2, SpecIsAlerts, PTL

\* alerts.py: no more notifications are stranded than there were interruptions.
THEOREM SpecStrands ==
  ASSUME PipelineAssumption PROVE Spec => []StrandsAreInterruptions
<1>1. Alerts!Spec => []Alerts!StrandsAreInterruptions
  BY AlertStrands DEF PipelineAssumption
<1>2. Alerts!StrandsAreInterruptions => StrandsAreInterruptions
  BY DEF StrandsAreInterruptions, Alerts!StrandsAreInterruptions,
     Alerts!StrandsAreInterruptions, Alerts!Stranded, Alerts!Stranded,
     Alerts!Event, Alerts!Event
<1> QED BY <1>1, <1>2, SpecIsAlerts, PTL

-----------------------------------------------------------------------------
(* The pipeline implements NotifyOnce. *)

Told == [p \in Profiles |-> [e \in Events |-> IF p \in asked THEN 0 ELSE sends[p][e]]]

\* A table is the old one but for a cell.
LEMMA CellWritten ==
  ASSUME NEW P, NEW E, NEW T \in [P -> [E -> Nat]], NEW U \in [P -> [E -> Nat]],
         NEW p \in P, NEW e \in E, NEW v \in Nat,
         \A q \in P, f \in E : U[q][f] = IF q = p /\ f = e THEN v ELSE T[q][f]
  PROVE  U = [T EXCEPT ![p][e] = v]
<1> DEFINE W == [T EXCEPT ![p][e] = v]
<1>1. W \in [P -> [E -> Nat]]
  OBVIOUS
<1>2. \A q \in P, f \in E : W[q][f] = U[q][f]
  OBVIOUS
<1>3. \A q \in P : W[q] = U[q]
  <2> SUFFICES ASSUME NEW q \in P PROVE W[q] = U[q]
    OBVIOUS
  <2>1. W[q] \in [E -> Nat] /\ U[q] \in [E -> Nat]
    BY <1>1
  <2> HIDE DEF W
  <2> QED BY <1>2, <2>1
<1> HIDE DEF W
<1>4. W = U
  BY <1>1, <1>3
<1> QED BY <1>4 DEF W

\* A message that goes out is the first its profile has about a committed
\* event (or its profile is out of the contract).
LEMMA MessageMeetsContract ==
  ASSUME RelayIInv, AlertIInv, step = "send",
         sends' = [sends EXCEPT ![current][stream[entry]] = @ + 1],
         UNCHANGED <<committed, asked>>
  PROVE  [Contract!NotifyNext]_(Contract!notifyVars)
<1>1. PICK e \in Events : e = stream[entry] /\ e \in committed
  <2>1. Alerts!TypeOK /\ entry \in inbox
    BY DEF AlertIInv, LoopInv
  <2>2. entry \in 1..Len(stream) /\ stream \in Seq(Events)
    BY <2>1 DEF Alerts!TypeOK
  <2>3. entry \in DOMAIN stream /\ stream[entry] \in Events
    BY <2>2
  <2>4. stream[entry] \in committed
    BY <2>3 DEF RelayIInv, Relay!AtLeastOnce, Relay!InStream
  <2> QED BY <2>3, <2>4
<1>2. PICK p \in Profiles : p = current /\ sends \in [Profiles -> [Events -> Nat]]
  BY DEF AlertIInv, Alerts!TypeOK
<1>3. \A q \in Profiles, f \in Events :
        sends'[q][f] = IF q = p /\ f = e THEN sends[q][f] + 1 ELSE sends[q][f]
  BY <1>1, <1>2
<1>4. CASE p \in asked
  <2>1. Told' = Told
    BY <1>1, <1>2, <1>4 DEF Told
  <2> QED BY <2>1 DEF Contract!notifyVars, Told
<1>5. CASE p \notin asked
  <2>1. sends[p][e] = 0
    BY <1>1, <1>2, <1>5 DEF AlertIInv, HandInv, Alerts!Event
  <2>2. Told[p][e] = 0
    BY <1>2, <2>1 DEF Told
  <2>3. \A q \in Profiles, f \in Events :
          Told'[q][f] = IF q = p /\ f = e THEN 1 ELSE Told[q][f]
    BY <1>2, <1>3, <1>5, <2>1 DEF Told
  <2>4. Told' = [Told EXCEPT ![p][e] = 1]
    <3>1. Told \in [Profiles -> [Events -> Nat]] /\ Told' \in [Profiles -> [Events -> Nat]]
      BY <1>2, <1>3 DEF Told
    <3> QED BY <1>2, <2>3, <3>1, CellWritten
  <2>5. Contract!Tell(p, e)
    BY <1>1, <1>5, <2>2, <2>4 DEF Contract!Tell, Told
  <2> QED BY <1>1, <1>2, <2>5 DEF Contract!NotifyNext
<1> QED BY <1>4, <1>5

\* Sending is telling, the deletion of a profile is leaving, the rest is nothing.
LEMMA AlertsMeetContract ==
  ASSUME RelayIInv, AlertIInv, Alerts!AlertNext, UNCHANGED committed
  PROVE  [Contract!NotifyNext]_(Contract!notifyVars)
<1>1. CASE UNCHANGED <<sends, asked>>
  BY <1>1 DEF Contract!notifyVars
<1>2. CASE Alerts!Send \/ Alerts!Raise
  <2>1. /\ UNCHANGED asked
        /\ \/ UNCHANGED sends
           \/ /\ step = "send"
              /\ sends' = [sends EXCEPT ![current][stream[entry]] = @ + 1]
    BY <1>2 DEF Alerts!Send, Alerts!Raise, Alerts!AbandonEntry,
       Alerts!Event
  <2> QED BY <1>1, <2>1, MessageMeetsContract
<1>3. ASSUME NEW p \in Profiles, Alerts!DeleteNotifications(p)
      PROVE  Contract!NotifyNext
  <2>1. asked' = asked \cup {p} /\ UNCHANGED sends
    BY <1>3 DEF Alerts!DeleteNotifications
  <2>2. Told' = [Told EXCEPT ![p] = [e \in Events |-> 0]]
    BY <2>1 DEF Told
  <2>3. Contract!Leave(p)
    BY <2>1, <2>2 DEF Contract!Leave, Told
  <2> QED BY <2>3 DEF Contract!NotifyNext
<1>4. CASE /\ ~(Alerts!Send \/ Alerts!Raise)
           /\ \A p \in Profiles : ~Alerts!DeleteNotifications(p)
  <2>1. UNCHANGED <<sends, asked>>
    BY <1>4 DEF Alerts!AlertNext, Alerts!Consume, Alerts!Trouble,
       Alerts!Console, Alerts!ReadGroup, Alerts!LostRead,
       Alerts!StartEntry, Alerts!SkipClaimed, Alerts!Claim,
       Alerts!Record, Alerts!Ack, Alerts!AbandonEntry,
       Alerts!ForeignKeyError, Alerts!Crash, Alerts!DeleteProfile,
       Alerts!consumerVars, Alerts!tableVars
  <2> QED BY <1>1, <2>1
<1> QED BY <1>2, <1>3, <1>4

\* A commit makes an event known; the rest of the relay is nothing.
LEMMA StepMeetsContract ==
  ASSUME RelayIInv, IdBound, AlertIInv, MaxEvents \in Nat, [Next]_vars
  PROVE  [Contract!NotifyNext]_(Contract!notifyVars)
<1>1. CASE RelaySteps
  <2>0. Relay!Next /\ UNCHANGED <<sends, asked>>
    BY <1>1 DEF RelaySteps, alertsOnly
  <2>1. ASSUME NEW i \in open, Relay!CommitId(i) PROVE Contract!NotifyNext
    <3>1. i \in Events
      BY DEF RelayIInv, Relay!TypeOK, IdBound, Events
    <3>2. Contract!Happen(i)
      BY <2>0, <2>1 DEF Relay!CommitId, Contract!Happen
    <3> QED BY <3>1, <3>2 DEF Contract!NotifyNext
  <2>2. CASE UNCHANGED committed
    BY <2>0, <2>2 DEF Contract!notifyVars
  <2>3. UNCHANGED committed \/ \E i \in open : Relay!CommitId(i)
    BY <2>0 DEF Relay!Next, Relay!DrawId, Relay!Draw,
       Relay!EndTransaction, Relay!Rollback, Relay!Relay,
       Relay!Fetch, Relay!Xadd, Relay!Mark, Relay!RelayCrash,
       Relay!outboxVars
  <2> QED BY <2>1, <2>2, <2>3
<1>2. CASE AlertSteps
  BY <1>2, AlertsMeetContract DEF AlertSteps, relayOnly
<1>3. CASE UNCHANGED vars
  BY <1>3 DEF vars, relayOnly, alertsOnly, Contract!notifyVars
<1> QED BY <1>1, <1>2, <1>3 DEF Next

\* The two services together do what NotifyOnce promises: a profile is told of
\* nothing but committed events, of each at most once.
THEOREM SpecImplementsContract ==
  ASSUME PipelineAssumption PROVE Spec => ImplementsNotifyOnce
<1>0. MaxEvents \in Nat
  BY DEF PipelineAssumption, Relay!RelayAssumption
<1>1. Init => Contract!NotifyInit
  <2> SUFFICES ASSUME Init PROVE Contract!NotifyInit
    OBVIOUS
  <2>1. committed = {} /\ asked = {} /\ sends = [p \in Profiles |-> [e \in Events |-> 0]]
    BY DEF Init, Relay!Init, Relay!OutboxInit, Alerts!AlertInit
  <2>2. Told = [p \in Profiles |-> [e \in Events |-> 0]]
    BY <2>1 DEF Told
  <2> QED BY <2>1, <2>2 DEF Contract!NotifyInit, Told
<1>2. Alerts!Spec => []AlertIInv
  BY AlertIsInvariant DEF PipelineAssumption
<1>3. RelayIInv /\ IdBound /\ AlertIInv /\ [Next]_vars
        => [Contract!NotifyNext]_(Contract!notifyVars)
  BY <1>0, StepMeetsContract
<1> QED BY <1>1, <1>2, <1>3, RelayInv, SpecIsAlerts, PTL
        DEF Spec, ImplementsNotifyOnce, Contract!NotifySpec
=============================================================================
