------------------------- MODULE TenderUpsertProofs -------------------------
(***************************************************************************)
(* Proofs about TenderUpsert, for any number of tenders, writers, versions *)
(* and lost transactions.  The argument: a transaction that is past its    *)
(* INSERT or UPDATE holds the row lock (LockInv), so the id it draws       *)
(* exceeds those of all committed events of its tender (IdInv), and what   *)
(* it read still says whether the row exists (ReadInv).                    *)
(***************************************************************************)
EXTENDS TenderUpsert, TLAPS

\* A worker holds a lock exactly while it stands between its write and commit.
LockInv ==
  \A w \in Workers, t \in Tenders :
    lock[t] = w <=> pc[w] \in {"event", "commit"} /\ job[w].tender = t

\* Ids come from one sequence; a drawn id is the largest of its tender.
IdInv ==
  /\ \A e \in events : e.id < nextId
  /\ \A w \in Workers : pc[w] = "commit" =>
       /\ eventId[w] < nextId
       /\ \A e \in EventsOf(job[w].tender) : e.id < eventId[w]

\* The branch a worker is on still agrees with the table.
ReadInv ==
  \A w \in Workers :
    /\ pc[w] = "insert" => read[w] = NoRow
    /\ pc[w] = "update" => read[w] # NoRow /\ row[job[w].tender] # NoRow
    /\ pc[w] \in {"event", "commit"} =>
         (read[w] = NoRow <=> row[job[w].tender] = NoRow)

IInv == TypeOK /\ LockInv /\ IdInv /\ ReadInv
        /\ LatestEventDescribesRow /\ CreatedOnceAndFirst

\* A change of an existing row is never announced as a creation.
LEMMA ClassifyType ==
  ASSUME NEW old \in {NoRow} \cup Versions, NEW new \in Versions
  PROVE  /\ Classify(old, new) \in EventTypes
         /\ Classify(old, new) = "tender.created" <=> old = NoRow
BY DEF Classify, EventTypes, NoRow, Versions

LEMMA InitIInv == Init => IInv
<1> SUFFICES ASSUME Init PROVE IInv
  OBVIOUS
<1>1. TypeOK
  BY UpsertAssumption DEF Init, TypeOK, Versions, NoRow, Job
<1>2. LockInv
  BY UpsertAssumption DEF Init, LockInv
<1>3. IdInv /\ ReadInv
  BY DEF Init, IdInv, ReadInv
<1>4. LatestEventDescribesRow /\ CreatedOnceAndFirst
  BY DEF Init, LatestEventDescribesRow, CreatedOnceAndFirst, EventsOf
<1> QED BY <1>1, <1>2, <1>3, <1>4 DEF IInv

LEMMA TypePreserved == TypeOK /\ [Next]_vars => TypeOK'
<1> SUFFICES ASSUME TypeOK, [Next]_vars PROVE TypeOK'
  OBVIOUS
<1> USE DEF TypeOK, Goto, At
<1>1. CASE \E t \in Tenders : Publish(t)
  BY <1>1, UpsertAssumption DEF Publish, Versions, NoRow
<1>2. CASE \E w \in Workers, t \in Tenders : Observe(w, t)
  BY <1>2 DEF Observe, Job
<1>3. ASSUME NEW w \in Workers, Step(w) PROVE TypeOK'
  <2>1. CASE Select(w)
    BY <2>1 DEF Select, Job
  <2>2. CASE Insert(w)
    BY <2>2 DEF Insert, Job
  <2>3. CASE Update(w)
    BY <2>3 DEF Update, Job
  <2>4. CASE InsertEvent(w)
    BY <2>4 DEF InsertEvent
  <2>5. CASE Commit(w)
    <3>1. Classify(read[w], job[w].version) \in EventTypes
      BY ClassifyType DEF Job
    <3>2. events' \subseteq Event
      BY <2>5, <3>1 DEF Commit, Event, Job
    <3> QED BY <2>5, <3>2 DEF Commit, Job
  <2> QED BY <1>3, <2>1, <2>2, <2>3, <2>4, <2>5 DEF Step
<1>4. ASSUME NEW w \in Workers, Abort(w) PROVE TypeOK'
  BY <1>4, UpsertAssumption DEF Abort, Job
<1>5. CASE UNCHANGED vars
  BY <1>5 DEF vars
<1> QED BY <1>1, <1>2, <1>3, <1>4, <1>5 DEF Next

\* Steps that neither lock, draw an id nor commit leave the invariant alone.
LEMMA NextIInv == IInv /\ [Next]_vars => IInv'
<1> SUFFICES ASSUME IInv, [Next]_vars PROVE IInv'
  OBVIOUS
<1>0. TypeOK /\ TypeOK'
  BY TypePreserved DEF IInv
<1> USE <1>0, UpsertAssumption
<1>1. CASE \E t \in Tenders : Publish(t)
  BY <1>1 DEF Publish, IInv, LockInv, IdInv, ReadInv, EventsOf,
              LatestEventDescribesRow, CreatedOnceAndFirst
<1>2. ASSUME NEW w \in Workers, NEW t \in Tenders, Observe(w, t) PROVE IInv'
  BY <1>2 DEF Observe, Goto, At, TypeOK, IInv, LockInv, IdInv, ReadInv, EventsOf,
              LatestEventDescribesRow, CreatedOnceAndFirst
<1>3. ASSUME NEW w \in Workers, Select(w) PROVE IInv'
  BY <1>3 DEF Select, Goto, At, TypeOK, IInv, LockInv, IdInv, ReadInv, EventsOf,
              LatestEventDescribesRow, CreatedOnceAndFirst
<1>4. ASSUME NEW w \in Workers, Insert(w) PROVE IInv'
  <2>1. LockInv'
    BY <1>4 DEF Insert, Goto, At, TypeOK, IInv, LockInv, Job
  <2>2. IdInv' /\ ReadInv'
    BY <1>4 DEF Insert, Goto, At, TypeOK, IInv, LockInv, IdInv, ReadInv, EventsOf, Job
  <2>3. LatestEventDescribesRow' /\ CreatedOnceAndFirst'
    BY <1>4 DEF Insert, IInv, EventsOf, LatestEventDescribesRow, CreatedOnceAndFirst
  <2> QED BY <2>1, <2>2, <2>3 DEF IInv
<1>5. ASSUME NEW w \in Workers, Update(w) PROVE IInv'
  <2>1. LockInv'
    BY <1>5 DEF Update, Goto, At, TypeOK, IInv, LockInv, Job
  <2>2. IdInv' /\ ReadInv'
    BY <1>5 DEF Update, Goto, At, TypeOK, IInv, LockInv, IdInv, ReadInv, EventsOf, Job
  <2>3. LatestEventDescribesRow' /\ CreatedOnceAndFirst'
    BY <1>5 DEF Update, IInv, EventsOf, LatestEventDescribesRow, CreatedOnceAndFirst
  <2> QED BY <2>1, <2>2, <2>3 DEF IInv
<1>6. ASSUME NEW w \in Workers, InsertEvent(w) PROVE IInv'
  <2>1. LockInv' /\ ReadInv'
    BY <1>6 DEF InsertEvent, Goto, At, TypeOK, IInv, LockInv, ReadInv
  <2>2. IdInv'
    BY <1>6 DEF InsertEvent, Goto, At, TypeOK, IInv, IdInv, EventsOf, Event
  <2>3. LatestEventDescribesRow' /\ CreatedOnceAndFirst'
    BY <1>6 DEF InsertEvent, IInv, EventsOf, LatestEventDescribesRow, CreatedOnceAndFirst
  <2> QED BY <2>1, <2>2, <2>3 DEF IInv
<1>7. ASSUME NEW w \in Workers, Commit(w) PROVE IInv'
  <2>a. pc[w] = "commit" /\ job[w].tender \in Tenders /\ job[w].version \in Versions
    BY <1>7 DEF Commit, At, TypeOK, Job
  <2>b. PICK t \in Tenders : t = job[w].tender
    BY <2>a
  <2>c. lock[t] = w /\ (read[w] = NoRow <=> row[t] = NoRow)
    BY <2>a, <2>b DEF IInv, LockInv, ReadInv
  <2>d. PICK new : new = [id |-> eventId[w], tender |-> t,
                          type |-> Classify(read[w], job[w].version),
                          to |-> job[w].version, over |-> row[t]]
    OBVIOUS
  <2>e. /\ new.id = eventId[w] /\ new.tender = t /\ new.to = job[w].version
        /\ new.type = "tender.created" <=> row[t] = NoRow
    BY <2>a, <2>c, <2>d, ClassifyType DEF TypeOK
  <2>f. /\ events' = events \cup {new}
        /\ row' = [row EXCEPT ![t] = job[w].version]
    BY <1>7, <2>b, <2>d DEF Commit
  <2>0. /\ t \in Tenders /\ t = job[w].tender /\ job[w].version \in Versions
        /\ pc[w] = "commit" /\ lock[t] = w
        /\ events' = events \cup {new}
        /\ row' = [row EXCEPT ![t] = job[w].version]
        /\ new.id = eventId[w] /\ new.tender = t /\ new.to = job[w].version
        /\ new.type = "tender.created" <=> row[t] = NoRow
    BY <2>a, <2>b, <2>c, <2>e, <2>f
  <2>1. LockInv'
    BY <1>7, <2>0 DEF Commit, Goto, TypeOK, IInv, LockInv
  <2>2. ReadInv'
    BY <1>7, <2>0, <2>1 DEF Commit, Goto, TypeOK, IInv, LockInv, ReadInv, Versions, NoRow
  <2>3. IdInv'
    <3>1. \A x \in Workers : x # w /\ pc[x] = "commit" => job[x].tender # t
      BY <2>0 DEF IInv, LockInv
    <3>2. /\ nextId' = nextId /\ eventId' = eventId /\ job' = job
          /\ \A x \in Workers : pc'[x] = "commit" => pc[x] = "commit" /\ x # w
      BY <1>7 DEF Commit, Goto, TypeOK
    <3>3. \A e \in events' : e.id < nextId'
      BY <2>0, <3>2 DEF IInv, IdInv
    <3>4. ASSUME NEW x \in Workers, pc'[x] = "commit"
          PROVE  EventsOf(job[x].tender)' = EventsOf(job[x].tender)
      BY <2>0, <3>1, <3>2, <3>4 DEF EventsOf
    <3> QED BY <3>2, <3>3, <3>4 DEF IInv, IdInv
  <2>4. /\ EventsOf(t)' = EventsOf(t) \cup {new}
        /\ \A e \in EventsOf(t) : e.id < new.id /\ e.id \in Nat
        /\ new.id \in Nat
        /\ \A u \in Tenders : u # t => EventsOf(u)' = EventsOf(u)
    <3>1. EventsOf(t)' = EventsOf(t) \cup {new}
      BY <2>0, <1>7 DEF EventsOf, Commit
    <3>2. \A u \in Tenders : u # t => EventsOf(u)' = EventsOf(u)
      BY <2>0, <1>7 DEF EventsOf, Commit
    <3>3. \A e \in EventsOf(t) : e.id < new.id /\ e.id \in Nat
      BY <2>0 DEF IInv, IdInv, EventsOf, TypeOK, Event
    <3> QED BY <2>0, <3>1, <3>2, <3>3 DEF TypeOK
  <2>5. LatestEventDescribesRow'
    <3> SUFFICES ASSUME NEW u \in Tenders
                 PROVE  /\ row'[u] = NoRow => EventsOf(u)' = {}
                        /\ row'[u] # NoRow =>
                             \E e \in EventsOf(u)' : /\ e.to = row'[u]
                                                    /\ \A f \in EventsOf(u)' : f.id <= e.id
      BY DEF LatestEventDescribesRow
    <3>1. CASE u # t
      BY <3>1, <2>0, <2>4 DEF IInv, LatestEventDescribesRow, TypeOK
    <3>2. CASE u = t
      <4>1. row'[t] = job[w].version /\ row'[t] # NoRow
        BY <2>0 DEF TypeOK, Versions, NoRow
      <4>2. new \in EventsOf(t)' /\ new.to = row'[t]
        BY <2>0, <2>4, <4>1
      <4>3. \A f \in EventsOf(t)' : f.id <= new.id
        BY <2>4
      <4> QED BY <3>2, <4>1, <4>2, <4>3
    <3> QED BY <3>1, <3>2
  <2>6. CreatedOnceAndFirst'
    <3> SUFFICES ASSUME NEW u \in Tenders, row'[u] # NoRow
                 PROVE  \E e \in EventsOf(u)' :
                          /\ e.type = "tender.created"
                          /\ \A f \in EventsOf(u)' \ {e} :
                               f.type # "tender.created" /\ f.id > e.id
      BY DEF CreatedOnceAndFirst
    <3>1. CASE u # t
      BY <3>1, <2>0, <2>4 DEF IInv, CreatedOnceAndFirst, TypeOK
    <3>2. CASE u = t /\ row[t] = NoRow
      <4>1. EventsOf(t) = {}
        BY <2>0, <3>2 DEF IInv, LatestEventDescribesRow
      <4> QED BY <2>0, <2>4, <3>2, <4>1
    <3>3. CASE u = t /\ row[t] # NoRow
      <4>1. PICK e \in EventsOf(t) :
              /\ e.type = "tender.created"
              /\ \A f \in EventsOf(t) \ {e} : f.type # "tender.created" /\ f.id > e.id
        BY <2>0, <3>3 DEF IInv, CreatedOnceAndFirst
      <4> QED BY <2>0, <2>4, <3>3, <4>1
    <3> QED BY <3>1, <3>2, <3>3
  <2> QED BY <2>1, <2>2, <2>3, <2>5, <2>6 DEF IInv
<1>8. ASSUME NEW w \in Workers, Abort(w) PROVE IInv'
  <2>1. LockInv'
    BY <1>8 DEF Abort, Goto, At, TypeOK, IInv, LockInv, Job
  <2>2. IdInv' /\ ReadInv'
    BY <1>8 DEF Abort, Goto, At, TypeOK, IInv, IdInv, ReadInv, EventsOf
  <2>3. LatestEventDescribesRow' /\ CreatedOnceAndFirst'
    BY <1>8 DEF Abort, IInv, EventsOf, LatestEventDescribesRow, CreatedOnceAndFirst
  <2> QED BY <2>1, <2>2, <2>3 DEF IInv
<1>9. CASE UNCHANGED vars
  BY <1>9 DEF vars, IInv, LockInv, IdInv, ReadInv, EventsOf,
              LatestEventDescribesRow, CreatedOnceAndFirst
<1> QED BY <1>1, <1>2, <1>3, <1>4, <1>5, <1>6, <1>7, <1>8, <1>9 DEF Next, Step

\* Every reachable state satisfies the inductive invariant.
THEOREM SpecIInv == Spec => []IInv
BY InitIInv, NextIInv, PTL DEF Spec

\* The variables of upsert_tender's model keep their types.
THEOREM SpecTypeOK == Spec => []TypeOK
<1>1. IInv => TypeOK
  BY DEF IInv
<1> QED BY <1>1, SpecIInv, PTL

\* db.py's outbox contract: the event of the highest id of a tender describes
\* the row that is stored, whatever transactions interleave, abort or race.
THEOREM SpecLatestEvent == Spec => []LatestEventDescribesRow
<1>1. IInv => LatestEventDescribesRow
  BY DEF IInv
<1> QED BY <1>1, SpecIInv, PTL

\* A tender is announced as created once, before anything else is said of it.
THEOREM SpecCreatedOnce == Spec => []CreatedOnceAndFirst
<1>1. IInv => CreatedOnceAndFirst
  BY DEF IInv
<1> QED BY <1>1, SpecIInv, PTL

-----------------------------------------------------------------------------
(* TenderUpsert implements OutboxTable. *)

\* No two transactions have drawn the same id.
DistinctIds ==
  \A w, x \in Workers :
    pc[w] = "commit" /\ pc[x] = "commit" /\ eventId[w] = eventId[x] => w = x

LEMMA NextDistinctIds ==
  ASSUME IInv, DistinctIds, [Next]_vars PROVE DistinctIds'
<1>0. TypeOK /\ \A w \in Workers : pc[w] = "commit" => eventId[w] < nextId
  BY DEF IInv, IdInv
<1> USE DEF Goto, At
<1>1. ASSUME UNCHANGED eventId, \A w \in Workers : pc'[w] = "commit" => pc[w] = "commit"
      PROVE  DistinctIds'
  BY <1>1 DEF DistinctIds
<1>2. CASE \E w \in Workers : InsertEvent(w)
  <2>1. PICK w \in Workers : InsertEvent(w)
    BY <1>2
  <2>2. /\ eventId'[w] = nextId
        /\ \A x \in Workers : x # w => eventId'[x] = eventId[x] /\ pc'[x] = pc[x]
    BY <1>0, <2>1 DEF InsertEvent, TypeOK
  <2>3. \A x \in Workers : x # w /\ pc[x] = "commit" => eventId[x] # nextId
    BY <1>0 DEF TypeOK
  <2> QED BY <2>2, <2>3 DEF DistinctIds
<1>3. CASE \E t \in Tenders : Publish(t) \/ \E w \in Workers : Observe(w, t)
  BY <1>0, <1>1, <1>3 DEF Publish, Observe, TypeOK
<1>4. CASE \E w \in Workers : Select(w) \/ Insert(w) \/ Update(w) \/ Commit(w)
  BY <1>0, <1>1, <1>4 DEF Select, Insert, Update, Commit, TypeOK
<1>5. CASE \E w \in Workers : Abort(w)
  BY <1>0, <1>1, <1>5 DEF Abort, TypeOK
<1>6. CASE UNCHANGED vars
  BY <1>1, <1>6 DEF vars
<1> QED BY <1>2, <1>3, <1>4, <1>5, <1>6 DEF Next, Step

\* The ids of the transactions that have drawn one and not ended.
Open == {eventId[w] : w \in {x \in Workers : pc[x] = "commit"}}

\* Steps in which no transaction draws or ends leave the table alone.
LEMMA OutboxStutters ==
  ASSUME UNCHANGED <<nextId, events, eventId>>,
         \A w \in Workers : pc'[w] = "commit" <=> pc[w] = "commit"
  PROVE  UNCHANGED Outbox!outboxVars
BY DEF Outbox!outboxVars

\* The end of a transaction takes its own id out of the open ones, and no other.
LEMMA OpenShrinks ==
  ASSUME DistinctIds, NEW w \in Workers, pc[w] = "commit", UNCHANGED eventId,
         \A x \in Workers : pc'[x] = "commit" <=> pc[x] = "commit" /\ x # w
  PROVE  eventId[w] \in Open /\ Open' = Open \ {eventId[w]}
BY DEF DistinctIds, Open

LEMMA StepRefines ==
  ASSUME IInv, DistinctIds, [Next]_vars
  PROVE  [Outbox!OutboxNext]_(Outbox!outboxVars)
<1>0. TypeOK
  BY DEF IInv
<1> USE DEF Goto, At
<1>1. CASE \E t \in Tenders : Publish(t) \/ \E w \in Workers : Observe(w, t)
  BY <1>0, <1>1, OutboxStutters DEF Publish, Observe, TypeOK
<1>2. CASE \E w \in Workers : Select(w) \/ Insert(w) \/ Update(w)
  BY <1>0, <1>2, OutboxStutters DEF Select, Insert, Update, TypeOK
<1>3. ASSUME NEW w \in Workers, InsertEvent(w) PROVE Outbox!Draw
  <2>1. /\ nextId' = nextId + 1 /\ UNCHANGED events
        /\ \A x \in Workers : eventId'[x] = IF x = w THEN nextId ELSE eventId[x]
        /\ \A x \in Workers : pc'[x] = "commit" <=> pc[x] = "commit" \/ x = w
        /\ pc[w] # "commit"
    BY <1>0, <1>3 DEF InsertEvent, TypeOK
  <2>2. Open' = Open \cup {nextId}
    BY <2>1 DEF Open
  <2> QED BY <2>1, <2>2 DEF Outbox!Draw, Open
<1>4. ASSUME NEW w \in Workers, Commit(w)
      PROVE  \E i \in Open : Outbox!CommitId(i)
  <2>1. /\ pc[w] = "commit" /\ UNCHANGED <<nextId, eventId>>
        /\ \A x \in Workers : pc'[x] = "commit" <=> pc[x] = "commit" /\ x # w
    BY <1>0, <1>4 DEF Commit, TypeOK
  <2>2. eventId[w] \in Open /\ Open' = Open \ {eventId[w]}
    BY <2>1, OpenShrinks
  <2>3. PICK new : new.id = eventId[w] /\ events' = events \cup {new}
    BY <1>4 DEF Commit
  <2>4. {e.id : e \in events'} = {e.id : e \in events} \cup {eventId[w]}
    BY <2>3
  <2>5. PICK i \in Open : i = eventId[w]
    BY <2>2
  <2>6. Outbox!CommitId(i)
    BY <2>1, <2>2, <2>4, <2>5 DEF Outbox!CommitId, Open
  <2> QED BY <2>6
<1>5. ASSUME NEW w \in Workers, Abort(w), pc[w] = "commit"
      PROVE  \E i \in Open : Outbox!Rollback(i)
  <2>1. /\ UNCHANGED <<nextId, events, eventId>>
        /\ \A x \in Workers : pc'[x] = "commit" <=> pc[x] = "commit" /\ x # w
    BY <1>0, <1>5 DEF Abort, TypeOK
  <2>2. eventId[w] \in Open /\ Open' = Open \ {eventId[w]}
    BY <1>5, <2>1, OpenShrinks
  <2>3. PICK i \in Open : i = eventId[w]
    BY <2>2
  <2>4. Outbox!Rollback(i)
    BY <2>1, <2>2, <2>3 DEF Outbox!Rollback, Open
  <2> QED BY <2>4
<1>6. ASSUME NEW w \in Workers, Abort(w), pc[w] # "commit"
      PROVE  UNCHANGED Outbox!outboxVars
  BY <1>0, <1>6, OutboxStutters DEF Abort, TypeOK
<1>7. CASE UNCHANGED vars
  BY <1>7, OutboxStutters DEF vars
<1>8. CASE \E w \in Workers : InsertEvent(w)
  BY <1>3, <1>8 DEF Outbox!OutboxNext
<1>9. CASE \E w \in Workers : Commit(w)
  <2>1. PICK i \in Open : Outbox!CommitId(i)
    BY <1>4, <1>9
  <2> QED BY <2>1 DEF Outbox!OutboxNext, Open
<1>10. CASE \E w \in Workers : Abort(w)
  <2>1. CASE UNCHANGED Outbox!outboxVars
    BY <2>1
  <2>2. ASSUME NEW i \in Open, Outbox!Rollback(i) PROVE Outbox!OutboxNext
    BY <2>2 DEF Outbox!OutboxNext, Open
  <2> QED BY <1>5, <1>6, <1>10, <2>1, <2>2
<1> QED BY <1>1, <1>2, <1>7, <1>8, <1>9, <1>10 DEF Next, Step

\* upsert_tender's transactions use the outbox as OutboxTable says, which is
\* all that the relay's proofs assume of its writers.
THEOREM SpecRefinesOutbox == Spec => ImplementsOutbox
<1>1. Init => Outbox!OutboxInit
  BY DEF Init, Outbox!OutboxInit
<1>2. Init => DistinctIds
  BY DEF Init, DistinctIds
<1>3. IInv /\ DistinctIds /\ [Next]_vars => DistinctIds' /\ [Outbox!OutboxNext]_(Outbox!outboxVars)
  BY NextDistinctIds, StepRefines
<1> QED BY <1>1, <1>2, <1>3, SpecIInv, PTL DEF Spec, ImplementsOutbox, Outbox!OutboxSpec
=============================================================================
