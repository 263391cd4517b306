--------------------------- MODULE HarvestProofs ---------------------------
(***************************************************************************)
(* Proofs about the two halves of awards_harvest.py: what the sessions store *)
(* (AwardStore), for any tenders, bid tables and lost sessions, and how they *)
(* walk through history (BackfillWalk), for any page size, any growth of the *)
(* listing and any number of sessions and troubles.                        *)
(***************************************************************************)
EXTENDS AwardStore, BackfillWalk, Integers, TLAPS

-----------------------------------------------------------------------------
(***************************************************************************)
(* The store.  Awards can vanish, when a page without awardees is stored    *)
(* over them; what a transaction counted still says enough when it commits: *)
(* a count above zero means that awards were seen, a count of zero that it  *)
(* began before the awards that are there now (CountInv); and of two        *)
(* transactions on a tender only one holds its rows (DeleteInv).            *)
(***************************************************************************)
InTransaction(w) == pc[w] \in {"delete", "insert"}

CountInv ==
  \A w \in Writers : InTransaction(w) =>
    /\ began[w] >= 1
    /\ had[w] = 0 /\ awards[job[w]] > 0 => began[w] <= risen[job[w]]
    /\ had[w] # 0 => shown[job[w]] # 0

DeleteInv ==
  \A w \in Writers :
    /\ pc[w] # "insert" => deleted[w] = 0
    /\ deleted[w] <= awards[job[w]]
    /\ \A x \in Writers \ {w} :
         job[x] = job[w] => deleted[w] = 0 \/ deleted[x] = 0

\* Awards that are there were seen.
ShownInv == \A t \in Tenders : awards[t] > 0 => shown[t] # 0

IInv == /\ TypeOK /\ CountInv /\ DeleteInv /\ ShownInv
        /\ CutoffPrecedesAwards /\ AnnouncedAtFirstSight

-----------------------------------------------------------------------------
LEMMA InitIInv == Init => IInv
<1> SUFFICES ASSUME Init PROVE IInv
  OBVIOUS
<1>1. TypeOK
  BY AwardAssumption DEF Init, TypeOK, Outcomes, NoResult, Result
<1>2. CountInv /\ DeleteInv /\ ShownInv
  BY <1>1 DEF Init, TypeOK, CountInv, DeleteInv, ShownInv, InTransaction
<1>3. CutoffPrecedesAwards /\ AnnouncedAtFirstSight
  BY <1>1 DEF Init, TypeOK, CutoffPrecedesAwards, AnnouncedAtFirstSight, EventsOf
<1> QED BY <1>1, <1>2, <1>3 DEF IInv

\* The end of a transaction: what becomes of the session's variables.
LEMMA Ended ==
  ASSUME TypeOK, NEW w \in Writers, NEW s \in {"idle", "next", "outcome"},
         EndTransaction(w, s)
  PROVE  /\ pc' = [pc EXCEPT ![w] = s]
         /\ pc' \in [Writers -> {"idle", "next", "count", "delete", "insert", "outcome"}]
         /\ deleted' = [deleted EXCEPT ![w] = 0] /\ deleted' \in [Writers -> Nat]
         /\ had' = [had EXCEPT ![w] = 0] /\ had' \in [Writers -> Nat]
         /\ began' = [began EXCEPT ![w] = 0] /\ began' \in [Writers -> 0..now]
         /\ got' \in [Writers -> Nat] /\ result' \in [Writers -> Result]
<1>1. got' \in [Writers -> Nat]
  <2>1. got \in [Writers -> Nat]
    BY DEF TypeOK
  <2>2. got' = [x \in Writers |-> CASE x = w -> 0
                                  [] x # w /\ WaitsFor(x, w) -> got[x] + 1
                                  [] OTHER -> got[x]]
    BY DEF EndTransaction
  <2>3. \A x \in Writers : got'[x] = 0 \/ got'[x] = got[x] + 1 \/ got'[x] = got[x]
    BY <2>2
  <2> QED BY <2>1, <2>2, <2>3
<1>2. now \in Nat
  BY DEF TypeOK
<1>3. NoResult \in Result
  BY DEF NoResult, Result
<1> QED BY <1>1, <1>2, <1>3 DEF EndTransaction, Goto, TypeOK

\* A fetch gives a result of the right type, and counts one without awardees.
LEMMA FetchedTyped ==
  ASSUME TypeOK, NEW w \in Writers, NEW t \in Tenders, Fetched(w, t)
  PROVE  result' \in [Writers -> Result] /\ setbacks' \in 0..MaxSetbacks
<1>1. /\ result \in [Writers -> Result] /\ setbacks \in 0..MaxSetbacks
      /\ MaxSetbacks \in Nat /\ Len(Bidders[t]) \in Nat
  <2>1. Bidders[t] \in Seq(STRING)
    BY AwardAssumption
  <2>2. \A S, q : q \in Seq(S) => Len(q) \in Nat
    OBVIOUS
  <2>3. Len(Bidders[t]) \in Nat
    BY <2>1, <2>2
  <2> QED BY <2>3, AwardAssumption DEF TypeOK
<1>2. \A n \in Nat, b \in BOOLEAN : [bids |-> n, awardees |-> b] \in Result
  BY DEF Result
<1>3. \A n \in Nat, b \in BOOLEAN :
        [result EXCEPT ![w] = [bids |-> n, awardees |-> b]] \in [Writers -> Result]
  BY <1>1, <1>2
<1>4. CASE result' = [result EXCEPT ![w] = [bids |-> Len(Bidders[t]), awardees |-> TRUE]]
           /\ UNCHANGED setbacks
  BY <1>1, <1>3, <1>4
<1>5. ASSUME setbacks < MaxSetbacks, setbacks' = setbacks + 1,
             NEW n \in 0..Len(Bidders[t]),
             result' = [result EXCEPT ![w] = [bids |-> n, awardees |-> FALSE]]
      PROVE  result' \in [Writers -> Result] /\ setbacks' \in 0..MaxSetbacks
  <2>1. n \in Nat /\ FALSE \in BOOLEAN
    BY <1>1
  <2>2. result' \in [Writers -> Result]
    BY <1>3, <1>5, <2>1
  <2>3. setbacks' \in 0..MaxSetbacks
    BY <1>1, <1>5
  <2> QED BY <2>2, <2>3
<1> QED BY <1>4, <1>5 DEF Fetched

LEMMA TypePreserved ==
  ASSUME IInv, [Next]_vars PROVE TypeOK'
<1>0. TypeOK
  BY DEF IInv
<1> USE DEF sessionVars, txVars, tableVars, Goto, At
<1>1. CASE \E t \in Tenders : Announce(t)
  BY <1>0, <1>1 DEF Announce, TypeOK
<1>2. CASE LaneStep
  <2>0. Lane \in Writers
    BY DEF Writers
  <2>1. CASE CloseLane
    BY <1>0, <2>0, <2>1 DEF CloseLane, TypeOK
  <2>2. CASE OpenLane
    BY <1>0, <2>0, <2>2 DEF OpenLane, TypeOK
  <2>3. ASSUME NEW t \in Tenders, Visit(t) PROVE TypeOK'
    <3>1. result' \in [Writers -> Result] /\ setbacks' \in 0..MaxSetbacks
      BY <1>0, <2>0, <2>3, FetchedTyped DEF Visit
    <3> QED BY <1>0, <2>0, <2>3, <3>1 DEF Visit, TypeOK
  <2> QED BY <1>2, <2>1, <2>2, <2>3 DEF LaneStep
<1>3. CASE Find \/ CloseWatch \/ \E t \in Pursued : Check(t)
  <2>0. Watch \in Writers /\ Pursued \subseteq Tenders
    BY AwardAssumption DEF Writers
  <2>1. CASE Find
    BY <1>0, <2>0, <2>1 DEF Find, TypeOK
  <2>2. CASE CloseWatch
    BY <1>0, <2>0, <2>2 DEF CloseWatch, TypeOK
  <2>3. ASSUME NEW t \in Pursued, Check(t) PROVE TypeOK'
    <3>1. /\ result' \in [Writers -> Result] /\ setbacks' \in 0..MaxSetbacks
          /\ pc' \in [Writers -> {"idle", "next", "count", "delete", "insert", "outcome"}]
      <4>1. CASE Fetched(Watch, t) /\ Goto(Watch, "count")
        BY <1>0, <2>0, <4>1, FetchedTyped DEF TypeOK
      <4>2. CASE Goto(Watch, "next") /\ UNCHANGED <<result, setbacks>>
        BY <1>0, <2>0, <4>2 DEF TypeOK
      <4> QED BY <2>3, <4>1, <4>2 DEF Check
    <3> QED BY <1>0, <2>0, <2>3, <3>1 DEF Check, TypeOK
  <2> QED BY <1>3, <2>1, <2>2, <2>3
<1>4. CASE BackfillOutcome
  BY <1>0, <1>4 DEF BackfillOutcome, TypeOK, Writers, Lane, Watch, Outcomes
<1>5. ASSUME NEW w \in Writers, Count(w) PROVE TypeOK'
  <2>1. now' = now + 1 /\ now \in Nat /\ \A n \in 0..now : n \in 0..now'
    BY <1>0, <1>5 DEF Count, TypeOK
  <2>2. began' \in [Writers -> 0..now'] /\ had' \in [Writers -> Nat]
    BY <1>0, <1>5, <2>1 DEF Count, TypeOK
  <2>3. /\ firstSeen' \in [Tenders -> 0..now'] /\ shown' \in [Tenders -> 0..now']
        /\ risen' \in [Tenders -> 0..now']
    BY <1>0, <1>5, <2>1 DEF Count, TypeOK
  <2>4. /\ pc' \in [Writers -> {"idle", "next", "count", "delete", "insert", "outcome"}]
        /\ result' \in [Writers -> Result]
    BY <1>0, <1>5 DEF Count, TypeOK
  <2>5. UNCHANGED <<announced, awards, events, outcome, draft, todo, job, deleted, got, setbacks>>
    BY <1>5 DEF Count
  <2>6. now' \in Nat
    BY <2>1
  <2> QED BY <1>0, <2>2, <2>3, <2>4, <2>5, <2>6 DEF TypeOK
<1>6. ASSUME NEW w \in Writers, Delete(w) PROVE TypeOK'
  BY <1>0, <1>6 DEF Delete, TypeOK
<1>7. ASSUME NEW w \in Writers, InsertBidder(w) PROVE TypeOK'
  BY <1>0, <1>7 DEF InsertBidder, TypeOK
<1>8. ASSUME NEW w \in Writers, Commit(w) PROVE TypeOK'
  <2>1. PICK t \in Tenders : t = job[w]
    BY <1>0 DEF TypeOK
  <2>2. awards' \in [Tenders -> Nat]
    <3>1. deleted[w] <= awards[t] /\ deleted[w] \in Nat /\ awards[t] \in Nat
      BY <1>0, <2>1 DEF IInv, DeleteInv, TypeOK
    <3>2. \A n \in {0, 1} : (awards[t] - deleted[w]) + n \in Nat
      BY <3>1
    <3>3. PICK n \in {0, 1} : awards' = [awards EXCEPT ![t] = (awards[t] - deleted[w]) + n]
      BY <1>8, <2>1 DEF Commit
    <3> QED BY <1>0, <3>2, <3>3 DEF TypeOK
  <2>a. \A n \in 0..now : n \in Nat
    BY <1>0 DEF TypeOK
  <2>b. now \in 0..now /\ began[w] \in 0..now /\ risen[t] \in 0..now
    BY <1>0, <2>1 DEF TypeOK
  <2>3. /\ firstSeen' \in [Tenders -> 0..now] /\ shown' \in [Tenders -> 0..now]
        /\ risen' \in [Tenders -> 0..now]
    BY <1>0, <1>8, <2>1, <2>b DEF Commit, TypeOK, FirstSeen
  <2>4. events' \in Seq(AwardEvent)
    <3>1. [tender |-> t, created |-> began[w],
           sight |-> IF awards[t] > 0 THEN risen[t] ELSE now] \in AwardEvent
      BY <1>0, <2>1, <2>a, <2>b DEF TypeOK, AwardEvent
    <3> QED BY <1>0, <1>8, <2>1, <3>1 DEF Commit, TypeOK
  <2>5. /\ EndTransaction(w, IF w = Watch THEN "outcome" ELSE "next")
        /\ UNCHANGED <<announced, now, outcome, draft, todo, job, setbacks>>
    BY <1>8 DEF Commit
  <2> QED BY <1>0, <2>2, <2>3, <2>4, <2>5, Ended DEF TypeOK
<1>9. ASSUME NEW w \in Writers, DeadlockVictim(w) PROVE TypeOK'
  BY <1>0, <1>9, Ended DEF DeadlockVictim, TypeOK
<1>10. ASSUME NEW w \in Writers, Abort(w) PROVE TypeOK'
  <2>1. setbacks' \in 0..MaxSetbacks
    BY <1>0, <1>10, AwardAssumption DEF Abort, TypeOK
  <2> QED BY <1>0, <1>10, <2>1, Ended DEF Abort, TypeOK
<1>11. ASSUME NEW t \in Pursued, LogRead(t) \/ LogWrite(t) PROVE TypeOK'
  BY <1>0, <1>11 DEF LogRead, LogWrite, TypeOK, Outcomes
<1>12. CASE UNCHANGED vars
  BY <1>0, <1>12 DEF vars, TypeOK
<1> QED BY <1>1, <1>2, <1>3, <1>4, <1>5, <1>6, <1>7, <1>8, <1>9, <1>10, <1>11, <1>12
        DEF Next, WatchStep, Transaction

-----------------------------------------------------------------------------
\* Steps that leave tables and transactions alone: a session moves between
\* "idle", "next", "count" and "outcome", and may take another tender.
LEMMA Between ==
  ASSUME IInv, TypeOK',
         UNCHANGED <<now, tableVars, txVars>>,
         \A w \in Writers :
           \/ pc'[w] = pc[w] /\ job'[w] = job[w]
           \/ ~InTransaction(w) /\ ~InTransaction(w)'
  PROVE  IInv'
<1>0. TypeOK
  BY DEF IInv
<1> USE DEF tableVars, txVars
<1>1. CountInv'
  BY DEF IInv, CountInv, InTransaction
<1>2. DeleteInv'
  <2>1. \A w \in Writers : ~InTransaction(w) => deleted[w] = 0
    BY DEF IInv, DeleteInv, InTransaction
  <2>2. \A w \in Writers : awards[job'[w]] \in Nat /\ deleted[w] \in Nat
    BY <1>0 DEF TypeOK
  <2> QED BY <2>1, <2>2 DEF IInv, DeleteInv, InTransaction
<1>3. ShownInv' /\ CutoffPrecedesAwards' /\ AnnouncedAtFirstSight'
  BY DEF IInv, ShownInv, CutoffPrecedesAwards, AnnouncedAtFirstSight, EventsOf
<1> QED BY <1>1, <1>2, <1>3 DEF IInv

\* A transaction that is lost leaves no trace in the tables.
LEMMA Lost ==
  ASSUME IInv, TypeOK', NEW w \in Writers, EndTransaction(w, "idle"),
         UNCHANGED <<now, tableVars, job>>
  PROVE  IInv'
<1>0. TypeOK
  BY DEF IInv
<1>1. /\ pc' = [pc EXCEPT ![w] = "idle"] /\ deleted' = [deleted EXCEPT ![w] = 0]
      /\ had' = [had EXCEPT ![w] = 0] /\ began' = [began EXCEPT ![w] = 0]
  BY <1>0, Ended
<1> USE DEF tableVars
<1>2. CountInv'
  BY <1>0, <1>1 DEF IInv, CountInv, InTransaction, TypeOK
<1>3. DeleteInv'
  <2>1. \A x \in Writers : /\ deleted'[x] = 0 \/ (deleted'[x] = deleted[x] /\ pc'[x] = pc[x])
                           /\ awards[job[x]] \in Nat
    BY <1>0, <1>1 DEF TypeOK
  <2> QED BY <2>1 DEF IInv, DeleteInv
<1>4. ShownInv' /\ CutoffPrecedesAwards' /\ AnnouncedAtFirstSight'
  BY DEF IInv, ShownInv, CutoffPrecedesAwards, AnnouncedAtFirstSight, EventsOf
<1> QED BY <1>2, <1>3, <1>4 DEF IInv

\* The commit of a transaction, seen from the tables.
LEMMA Committed ==
  ASSUME IInv, TypeOK', NEW w \in Writers, Commit(w) PROVE IInv'
<1>0. TypeOK
  BY DEF IInv
<1>1. PICK t \in Tenders : t = job[w]
  BY <1>0 DEF TypeOK
<1> DEFINE f == result[w].awardees
           a == awards[t] - deleted[w] + (IF f THEN 1 ELSE 0)
           sight == IF awards[t] > 0 THEN risen[t] ELSE now
<1>2. /\ awards[t] \in Nat /\ deleted[w] \in Nat /\ deleted[w] <= awards[t]
      /\ began[w] \in Nat /\ began[w] <= now /\ now \in Nat /\ began[w] >= 1
      /\ firstSeen[t] \in Nat /\ shown[t] \in Nat /\ risen[t] \in Nat
  BY <1>0, <1>1 DEF Commit, At, IInv, DeleteInv, CountInv, InTransaction, TypeOK
<1>3. /\ a \in Nat /\ (deleted[w] = 0 => a >= awards[t])
      /\ ~f /\ a > 0 => awards[t] > 0
  BY <1>2
<1>4. /\ awards' = [awards EXCEPT ![t] = a]
      /\ firstSeen' = IF f THEN [firstSeen EXCEPT ![t] = IF firstSeen[t] = 0 THEN began[w]
                                                         ELSE firstSeen[t]]
                      ELSE firstSeen
      /\ shown' = IF f /\ shown[t] = 0 THEN [shown EXCEPT ![t] = now] ELSE shown
      /\ risen' = IF f THEN [risen EXCEPT ![t] = sight] ELSE risen
      /\ UNCHANGED <<now, job>>
  BY <1>1 DEF Commit, FirstSeen
<1>5. /\ pc' = [pc EXCEPT ![w] = IF w = Watch THEN "outcome" ELSE "next"]
      /\ deleted' = [deleted EXCEPT ![w] = 0]
      /\ had' = [had EXCEPT ![w] = 0] /\ began' = [began EXCEPT ![w] = 0]
  BY <1>0, Ended DEF Commit
<1>e. events' = IF f /\ had[w] = 0
                THEN Append(events, [tender |-> t, created |-> began[w], sight |-> sight])
                ELSE events
  BY <1>1 DEF Commit, Emits
<1>s. /\ sight \in Nat /\ (awards[t] > 0 => sight = risen[t]) /\ (~(awards[t] > 0) => sight = now)
  BY <1>2
<1>f. f \in BOOLEAN
  BY <1>0 DEF TypeOK, Result
<1> HIDE DEF a, f, sight
<1>6. /\ \A u \in Tenders : u # t => /\ awards'[u] = awards[u] /\ shown'[u] = shown[u]
                                     /\ firstSeen'[u] = firstSeen[u] /\ risen'[u] = risen[u]
      /\ awards'[t] = a
      /\ shown'[t] = (IF f /\ shown[t] = 0 THEN now ELSE shown[t])
      /\ firstSeen'[t] = (IF f /\ firstSeen[t] = 0 THEN began[w] ELSE firstSeen[t])
      /\ risen'[t] = (IF f THEN sight ELSE risen[t])
  BY <1>0, <1>4 DEF TypeOK
<1>7. ShownInv'
  BY <1>2, <1>3, <1>6 DEF IInv, ShownInv
<1>8. CutoffPrecedesAwards'
  BY <1>2, <1>6 DEF IInv, CutoffPrecedesAwards
<1>9. CountInv'
  <2> SUFFICES ASSUME NEW x \in Writers, InTransaction(x)'
               PROVE  /\ began'[x] >= 1
                      /\ had'[x] = 0 /\ awards'[job[x]] > 0 => began'[x] <= risen'[job[x]]
                      /\ had'[x] # 0 => shown'[job[x]] # 0
    BY <1>4 DEF CountInv
  <2>1. x # w
    BY <1>0, <1>5 DEF InTransaction, TypeOK
  <2>2. /\ InTransaction(x) /\ had'[x] = had[x] /\ began'[x] = began[x]
        /\ began[x] \in 0..now /\ job[x] \in Tenders
    BY <1>0, <1>5, <2>1 DEF InTransaction, TypeOK
  <2> QED BY <1>2, <1>3, <1>s, <1>6, <2>2 DEF IInv, CountInv
<1>10. DeleteInv'
  <2>1. ASSUME NEW x \in Writers
        PROVE  /\ pc'[x] # "insert" => deleted'[x] = 0
               /\ deleted'[x] <= awards'[job[x]]
    <3>1. awards'[job[x]] \in Nat /\ deleted[x] \in Nat /\ job[x] \in Tenders
      BY <1>0, <1>3, <1>6 DEF TypeOK
    <3>2. CASE x = w
      BY <1>0, <1>5, <3>1, <3>2 DEF TypeOK
    <3>3. CASE x # w
      <4>1. deleted'[x] = deleted[x] /\ pc'[x] = pc[x]
        BY <1>0, <1>5, <3>3 DEF TypeOK
      <4>2. job[x] = t => deleted[x] = 0 \/ deleted[w] = 0
        BY <1>1, <3>3 DEF IInv, DeleteInv
      <4> QED BY <1>2, <1>3, <1>6, <3>1, <4>1, <4>2 DEF IInv, DeleteInv
    <3> QED BY <3>2, <3>3
  <2>2. \A x, y \in Writers : x # y /\ job[x] = job[y] => deleted'[x] = 0 \/ deleted'[y] = 0
    BY <1>0, <1>5 DEF IInv, DeleteInv, TypeOK
  <2> QED BY <1>4, <2>1, <2>2 DEF DeleteInv
<1>11. AnnouncedAtFirstSight'
  <2> DEFINE e == [tender |-> t, created |-> began[w], sight |-> sight]
             n == Len(events) + 1
  <2>0. events \in Seq(AwardEvent)
    BY <1>0 DEF TypeOK
  <2>a. \A u \in Tenders :
          /\ shown[u] = 0 <=> EventsOf(u) = {}
          /\ \A k \in EventsOf(u) :
               /\ events[k].created <= events[k].sight
               /\ (\A j \in EventsOf(u) : k <= j) => events[k].created = firstSeen[u]
          /\ awards[u] > 0 => shown[u] # 0
          /\ shown[u] = 0 <=> firstSeen[u] = 0
    BY DEF IInv, AnnouncedAtFirstSight, ShownInv, CutoffPrecedesAwards
  <2>b. \A u \in Tenders : awards'[u] > 0 => shown'[u] # 0
    BY <1>7 DEF ShownInv
  <2>1. CASE f /\ had[w] = 0
    <3>1. events' = Append(events, e)
      BY <1>e, <2>1
    <3>2. e.tender = t /\ e.created = began[w] /\ e.sight = sight
      OBVIOUS
    <3> HIDE DEF e
    <3>3. /\ DOMAIN events' = DOMAIN events \cup {n} /\ n \notin DOMAIN events
          /\ \A k \in DOMAIN events : events'[k] = events[k] /\ k \in Nat /\ k < n
          /\ events'[n] = e /\ n \in Nat
      BY <2>0, <3>1
    <3> HIDE DEF n
    <3>4. /\ \A u \in Tenders : u # t => EventsOf(u)' = EventsOf(u)
          /\ EventsOf(t)' = EventsOf(t) \cup {n}
      BY <3>2, <3>3 DEF EventsOf
    <3>5. \A u \in Tenders : EventsOf(u) \subseteq DOMAIN events
      BY DEF EventsOf
    <3>6. began[w] <= sight
      <4>1. awards[t] > 0 => began[w] <= risen[t]
        BY <1>1, <2>1 DEF Commit, At, IInv, CountInv, InTransaction
      <4> QED BY <1>2, <1>s, <4>1
    <3>7. shown'[t] # 0
      BY <1>2, <1>6, <2>1
    <3>8. ASSUME NEW u \in Tenders, NEW k \in EventsOf(u)'
          PROVE  /\ events'[k].created <= events'[k].sight
                 /\ (\A j \in EventsOf(u)' : k <= j) => events'[k].created = firstSeen'[u]
      <4>1. CASE u # t
        <5>1. k \in EventsOf(u) /\ events'[k] = events[k] /\ EventsOf(u)' = EventsOf(u)
          BY <3>3, <3>4, <3>5, <3>8, <4>1
        <5> QED BY <1>6, <2>a, <4>1, <5>1
      <4>2. CASE u = t /\ k # n
        <5>1. k \in EventsOf(t) /\ events'[k] = events[k] /\ EventsOf(t) \subseteq EventsOf(t)'
          BY <3>3, <3>4, <3>5, <3>8, <4>2
        <5>2. firstSeen[t] # 0
          BY <2>a, <5>1
        <5>3. firstSeen'[t] = firstSeen[t]
          BY <1>6, <5>2
        <5> QED BY <2>a, <4>2, <5>1, <5>3
      <4>3. CASE u = t /\ k = n
        <5>1. events'[k].created = began[w] /\ events'[k].sight = sight
          BY <3>2, <3>3, <4>3
        <5>2. ASSUME \A j \in EventsOf(t)' : n <= j PROVE EventsOf(t) = {}
          <6>1. \A j \in EventsOf(t) : j \in Nat /\ j < n /\ n <= j
            BY <3>3, <3>4, <3>5, <5>2
          <6> QED BY <3>3, <6>1
        <5>3. EventsOf(t) = {} => firstSeen'[t] = began[w]
          BY <1>6, <2>1, <2>a
        <5> QED BY <3>6, <4>3, <5>1, <5>2, <5>3
      <4> QED BY <4>1, <4>2, <4>3
    <3>9. \A u \in Tenders : shown'[u] = 0 <=> EventsOf(u)' = {}
      BY <1>6, <2>a, <3>4, <3>7
    <3>10. \A u \in Tenders : awards'[u] > 0 => EventsOf(u)' # {}
      BY <2>b, <3>9
    <3> QED BY <3>8, <3>9, <3>10 DEF AnnouncedAtFirstSight
  <2>2. CASE ~(f /\ had[w] = 0)
    <3>1. events' = events
      BY <1>e, <2>2
    <3>2. \A u \in Tenders : EventsOf(u)' = EventsOf(u)
      BY <3>1 DEF EventsOf
    <3>3. f => shown[t] # 0
      BY <1>1, <2>2 DEF Commit, At, IInv, CountInv, InTransaction
    <3>4. \A u \in Tenders : shown'[u] = shown[u] /\ firstSeen'[u] = firstSeen[u]
      BY <1>6, <2>a, <3>3
    <3>5. \A u \in Tenders : awards'[u] > 0 => EventsOf(u)' # {}
      BY <2>a, <2>b, <3>2, <3>4
    <3> QED BY <2>a, <3>1, <3>2, <3>4, <3>5 DEF AnnouncedAtFirstSight
  <2> QED BY <2>1, <2>2
<1> QED BY <1>7, <1>8, <1>9, <1>10, <1>11 DEF IInv

-----------------------------------------------------------------------------
LEMMA NextIInv ==
  ASSUME IInv, [Next]_vars PROVE IInv'
<1>0. TypeOK /\ TypeOK'
  BY TypePreserved DEF IInv
<1> USE DEF sessionVars, txVars, tableVars, Goto, At
<1>1. CASE \E t \in Tenders : Announce(t)
  BY <1>0, <1>1, Between DEF Announce
<1>2. CASE LaneStep
  <2>1. UNCHANGED <<now, tableVars, txVars>>
    BY <1>2 DEF LaneStep, CloseLane, OpenLane, Visit
  <2>2. /\ ~InTransaction(Lane) /\ ~InTransaction(Lane)'
        /\ pc'[Watch] = pc[Watch] /\ job'[Watch] = job[Watch]
    BY <1>0, <1>2 DEF LaneStep, CloseLane, OpenLane, Visit, InTransaction, TypeOK,
                      Writers, Lane, Watch
  <2> QED BY <1>0, <2>1, <2>2, Between DEF Writers
<1>3. CASE WatchStep
  <2>1. UNCHANGED <<now, tableVars, txVars>>
    BY <1>3 DEF WatchStep, Find, CloseWatch, Check, BackfillOutcome
  <2>2. /\ ~InTransaction(Watch) /\ ~InTransaction(Watch)'
        /\ pc'[Lane] = pc[Lane] /\ job'[Lane] = job[Lane]
    BY <1>0, <1>3 DEF WatchStep, Find, CloseWatch, Check, BackfillOutcome, InTransaction,
                      TypeOK, Writers, Lane, Watch
  <2> QED BY <1>0, <2>1, <2>2, Between DEF Writers
<1>4. ASSUME NEW w \in Writers, Count(w) PROVE IInv'
  <2>1. /\ now' = now + 1 /\ now \in Nat /\ job[w] \in Tenders
        /\ began' = [began EXCEPT ![w] = now'] /\ had' = [had EXCEPT ![w] = awards[job[w]]]
        /\ pc' = [pc EXCEPT ![w] = "delete"] /\ pc[w] = "count"
        /\ UNCHANGED <<tableVars, job, deleted>>
    BY <1>0, <1>4 DEF Count, TypeOK
  <2>2. CountInv'
    <3> SUFFICES ASSUME NEW x \in Writers, InTransaction(x)'
                 PROVE  /\ began'[x] >= 1
                        /\ had'[x] = 0 /\ awards[job[x]] > 0 => began'[x] <= risen[job[x]]
                        /\ had'[x] # 0 => shown[job[x]] # 0
      BY <2>1 DEF CountInv
    <3>1. CASE x = w
      <4>1. began'[x] = now + 1 /\ had'[x] = awards[job[x]] /\ awards[job[x]] \in Nat
        BY <1>0, <2>1, <3>1 DEF TypeOK
      <4> QED BY <1>0, <2>1, <3>1, <4>1 DEF IInv, ShownInv, TypeOK
    <3>2. CASE x # w
      <4>1. InTransaction(x) /\ began'[x] = began[x] /\ had'[x] = had[x]
        BY <1>0, <2>1, <3>2 DEF InTransaction, TypeOK
      <4> QED BY <4>1 DEF IInv, CountInv
    <3> QED BY <3>1, <3>2
  <2>3. DeleteInv'
    BY <1>0, <2>1 DEF IInv, DeleteInv, TypeOK
  <2>4. ShownInv' /\ CutoffPrecedesAwards' /\ AnnouncedAtFirstSight'
    BY <2>1 DEF IInv, ShownInv, CutoffPrecedesAwards, AnnouncedAtFirstSight, EventsOf
  <2> QED BY <1>0, <2>2, <2>3, <2>4 DEF IInv
<1>5. ASSUME NEW w \in Writers, Delete(w) PROVE IInv'
  <2>1. /\ deleted' = [deleted EXCEPT ![w] = awards[job[w]]] /\ pc[w] = "delete"
        /\ pc' = [pc EXCEPT ![w] = "insert"] /\ job[w] \in Tenders
        /\ \A x \in Writers \ {w} : job[x] = job[w] => deleted[x] = 0
        /\ UNCHANGED <<now, tableVars, job, began, had>>
    BY <1>0, <1>5 DEF Delete, TypeOK
  <2>2. CountInv'
    BY <1>0, <2>1 DEF IInv, CountInv, InTransaction, TypeOK
  <2>3. DeleteInv'
    <3>1. \A x \in Writers : /\ deleted'[x] = IF x = w THEN awards[job[w]] ELSE deleted[x]
                             /\ awards[job[x]] \in Nat
                             /\ pc'[x] = IF x = w THEN "insert" ELSE pc[x]
      BY <1>0, <2>1 DEF TypeOK
    <3> QED BY <2>1, <3>1 DEF IInv, DeleteInv
  <2>4. ShownInv' /\ CutoffPrecedesAwards' /\ AnnouncedAtFirstSight'
    BY <2>1 DEF IInv, ShownInv, CutoffPrecedesAwards, AnnouncedAtFirstSight, EventsOf
  <2> QED BY <1>0, <2>2, <2>3, <2>4 DEF IInv
<1>6. ASSUME NEW w \in Writers, InsertBidder(w) PROVE IInv'
  <2>1. UNCHANGED <<now, tableVars, pc, job, began, had, deleted>>
    BY <1>6 DEF InsertBidder
  <2> QED BY <1>0, <2>1 DEF IInv, CountInv, InTransaction, DeleteInv, ShownInv,
                            CutoffPrecedesAwards, AnnouncedAtFirstSight, EventsOf
<1>7. ASSUME NEW w \in Writers, Commit(w) PROVE IInv'
  BY <1>0, <1>7, Committed
<1>8. ASSUME NEW w \in Writers, DeadlockVictim(w) \/ Abort(w) PROVE IInv'
  BY <1>0, <1>8, Lost DEF DeadlockVictim, Abort
<1>9. ASSUME NEW t \in Pursued, LogRead(t) \/ LogWrite(t) PROVE IInv'
  BY <1>0, <1>9, Between DEF LogRead, LogWrite
<1>10. CASE UNCHANGED vars
  BY <1>0, <1>10, Between DEF vars
<1> QED BY <1>1, <1>2, <1>3, <1>4, <1>5, <1>6, <1>7, <1>8, <1>9, <1>10
        DEF Next, Transaction

\* Every reachable state satisfies the inductive invariant.
THEOREM SpecIInv == Spec => []IInv
<1>1. IInv /\ [Next]_vars => IInv'
  BY NextIInv
<1> QED BY <1>1, InitIInv, PTL DEF Spec

\* The variables of the award store's model keep their types: the count of
\* award rows, in particular, never falls below what a DELETE takes.
THEOREM SpecTypeOK == Spec => []TypeOK
<1>1. IInv => TypeOK
  BY DEF IInv
<1> QED BY <1>1, SpecIInv, PTL

\* The blindness cutoff of prediction scoring exists as soon as awards can be
\* read and is never later, for any overlap of the two award jobs.
THEOREM SpecCutoff == Spec => []CutoffPrecedesAwards
<1>1. IInv => CutoffPrecedesAwards
  BY DEF IInv
<1> QED BY <1>1, SpecIInv, PTL

\* A tender is announced when awards of it are first seen, with the time of the
\* cutoff, and no transaction that began after awards could be read announces
\* those again: also when pages without awardees take awards away in between.
THEOREM SpecAnnounced == Spec => []AnnouncedAtFirstSight
<1>1. IInv => AnnouncedAtFirstSight
  BY DEF IInv
<1> QED BY <1>1, SpecIInv, PTL

-----------------------------------------------------------------------------
(***************************************************************************)
(* The walk.  A listing that grows at its head moves tenders to later pages *)
(* only, so what Covered(p) says of a page stays true; a session has covered *)
(* what lies before the page in hand, and stored or holds what that page   *)
(* adds (SessionInv); a run without a note still reads as page 0 (RunInv). *)
(***************************************************************************)
RunInv ==
  \A r \in DOMAIN runs, p \in Nat : runs[r].lastPage = p =>
    Covered(p) /\ (~runs[r].noted => p = 0)

SessionInv ==
  /\ phase \in {"fetch", "rows"} => page >= 1 /\ Covered(page - 1)
  /\ phase = "rows" =>
       \A i \in 1..Initial : Position(i) <= Upto(page) => i \in stored \cup hand

\* The page in hand is beyond what any session could resume after.
ProgressInv ==
  phase \in {"fetch", "rows"} => \A p \in Nat : Loads(p) => p < page

WalkInv == WalkTypeOK /\ listed >= Initial /\ RunInv /\ SessionInv /\ ProgressInv

-----------------------------------------------------------------------------
LEMMA UptoType == \A p \in Nat : Upto(p) \in Nat
BY WalkAssumption DEF Upto

\* Page 0 ends before the first row.
LEMMA CoveredZero ==
  ASSUME WalkTypeOK, listed >= Initial PROVE Covered(0)
<1>1. Upto(0) = 0
  BY WalkAssumption DEF Upto
<1>2. \A i \in 1..Initial : Position(i) >= 1
  BY WalkAssumption DEF Position, WalkTypeOK
<1>3. \A i \in 1..Initial : Position(i) \in Int
  BY WalkAssumption DEF Position, WalkTypeOK
<1>4. \A i \in 1..Initial : ~(Position(i) <= Upto(0))
  BY <1>1, <1>2, <1>3
<1> QED BY <1>4 DEF Covered

\* A larger number stays larger when both are shifted.
LEMMA Shift ==
  ASSUME NEW a \in Int, NEW b \in Int, NEW i \in Int, a <= b
  PROVE  a - i + 1 <= b - i + 1 /\ a - i + 1 \in Int /\ b - i + 1 \in Int
OBVIOUS

\* The listing only grows and the table only gains rows: what is covered stays.
LEMMA CoveredStays ==
  ASSUME WalkTypeOK, listed' \in Nat, listed' >= listed, stored \subseteq stored',
         NEW p \in Nat, Covered(p)
  PROVE  Covered(p)'
<1> SUFFICES ASSUME NEW i \in 1..Initial, Position(i)' <= Upto(p)
             PROVE  i \in stored'
  BY DEF Covered, Upto
<1>0. i \in Int /\ listed \in Int /\ listed' \in Int
  BY WalkAssumption DEF WalkTypeOK
<1>1. Position(i) <= Position(i)' /\ Position(i) \in Int /\ Position(i)' \in Int
  <2>1. listed <= listed'
    BY <1>0
  <2>2. /\ listed - i + 1 <= listed' - i + 1
        /\ listed - i + 1 \in Int /\ listed' - i + 1 \in Int
    BY <1>0, <2>1, Shift
  <2> QED BY <2>2 DEF Position
<1>2. Position(i) <= Upto(p)
  BY <1>1, UptoType
<1> QED BY <1>2 DEF Covered

\* What the page in hand adds to what was covered before it.
LEMMA PageCovers ==
  ASSUME WalkTypeOK, listed >= Initial, page >= 1, Covered(page - 1)
  PROVE  \A i \in 1..Initial : Position(i) <= Upto(page) => i \in stored \cup Page(page)
<1> SUFFICES ASSUME NEW i \in 1..Initial, Position(i) <= Upto(page)
             PROVE  i \in stored \cup Page(page)
  OBVIOUS
<1>1. i \in 1..listed /\ Position(i) \in Int
  BY WalkAssumption DEF Position, WalkTypeOK
<1>2. page - 1 \in Nat /\ Upto(page - 1) \in Nat
  BY UptoType DEF WalkTypeOK
<1>3. CASE Position(i) <= Upto(page - 1)
  BY <1>3 DEF Covered
<1>4. CASE Upto(page - 1) < Position(i)
  BY <1>1, <1>4 DEF Page
<1> QED BY <1>1, <1>2, <1>3, <1>4

LEMMA PageType == ASSUME WalkTypeOK PROVE Page(page) \subseteq 1..listed
BY DEF Page

-----------------------------------------------------------------------------
LEMMA WalkStarts == WalkInit => WalkInv
<1> SUFFICES ASSUME WalkInit PROVE WalkInv
  OBVIOUS
<1>1. WalkTypeOK
  BY WalkAssumption DEF WalkInit, WalkTypeOK, Run
<1> QED BY <1>1, WalkAssumption DEF WalkInit, WalkInv, RunInv, SessionInv, ProgressInv

\* The pages that runs name are numbers.
LEMMA PagesType ==
  ASSUME WalkTypeOK
  PROVE  (\A r \in DOMAIN runs : runs[r] \in Run /\ runs[r].lastPage \in Nat)
         /\ LastPages \subseteq Nat
<1>1. \A r \in DOMAIN runs : runs[r] \in Run
  BY DEF WalkTypeOK
<1>2. \A x \in Run : x.lastPage \in Nat
  BY DEF Run
<1> QED BY <1>1, <1>2 DEF LastPages

\* Writing a run that is there.
LEMMA RunUpdate ==
  ASSUME WalkTypeOK, NEW r \in DOMAIN runs, NEW x \in Run, runs' = [runs EXCEPT ![r] = x]
  PROVE  /\ runs' \in Seq(Run) /\ DOMAIN runs' = DOMAIN runs /\ runs' # <<>>
         /\ \A q \in DOMAIN runs : runs'[q] = IF q = r THEN x ELSE runs[q]
BY DEF WalkTypeOK

\* The current run is a run.
LEMMA CurrentRun ==
  ASSUME WalkTypeOK, phase # "idle" PROVE Current \in DOMAIN runs /\ runs[Current] \in Run
BY DEF WalkTypeOK, Current

\* How the steps that write to one run change it.
LEMMA Written ==
  ASSUME WalkTypeOK, NEW p \in Nat, phase # "idle",
         runs' = [runs EXCEPT ![Current].noted = TRUE, ![Current].lastPage = p]
  PROVE  /\ runs' \in Seq(Run) /\ DOMAIN runs' = DOMAIN runs /\ runs' # <<>>
         /\ Current \in DOMAIN runs
         /\ \A q \in DOMAIN runs : q # Current => runs'[q] = runs[q]
         /\ runs'[Current].noted /\ runs'[Current].lastPage = p
<1>1. Current \in DOMAIN runs /\ runs[Current] \in Run
  BY CurrentRun
<1> DEFINE x == [runs[Current] EXCEPT !.noted = TRUE, !.lastPage = p]
<1>2. x \in Run /\ x.noted /\ x.lastPage = p
  BY <1>1 DEF Run
<1>3. runs' = [runs EXCEPT ![Current] = x]
  BY <1>1 DEF WalkTypeOK
<1> QED BY <1>1, <1>2, <1>3, RunUpdate

\* Closing a run leaves its note alone.
LEMMA Closed ==
  ASSUME WalkTypeOK, NEW b \in BOOLEAN, phase # "idle",
         runs' = [runs EXCEPT ![Current].finished = TRUE, ![Current].failed = b]
  PROVE  /\ runs' \in Seq(Run) /\ DOMAIN runs' = DOMAIN runs /\ runs' # <<>>
         /\ \A q \in DOMAIN runs : /\ runs'[q].noted = runs[q].noted
                                   /\ runs'[q].lastPage = runs[q].lastPage
<1>1. Current \in DOMAIN runs /\ runs[Current] \in Run
  BY CurrentRun
<1> DEFINE x == [runs[Current] EXCEPT !.finished = TRUE, !.failed = b]
<1>2. x \in Run /\ x.noted = runs[Current].noted /\ x.lastPage = runs[Current].lastPage
  BY <1>1 DEF Run
<1>3. runs' = [runs EXCEPT ![Current] = x]
  BY <1>1 DEF WalkTypeOK
<1> QED BY <1>1, <1>2, <1>3, RunUpdate

\* The watchdog's checkpoint has no last_page.
LEMMA Stalled ==
  ASSUME WalkTypeOK, NEW r \in DOMAIN runs,
         runs' = [runs EXCEPT ![r] = [finished |-> TRUE, failed |-> TRUE,
                                      noted |-> TRUE, lastPage |-> 0]]
  PROVE  /\ runs' \in Seq(Run) /\ DOMAIN runs' = DOMAIN runs /\ runs' # <<>>
         /\ \A q \in DOMAIN runs : q # r => runs'[q] = runs[q]
         /\ runs'[r].noted /\ runs'[r].lastPage = 0
<1> DEFINE x == [finished |-> TRUE, failed |-> TRUE, noted |-> TRUE, lastPage |-> 0]
<1>1. x \in Run /\ x.noted /\ x.lastPage = 0
  BY DEF Run
<1>2. runs' = [runs EXCEPT ![r] = x]
  OBVIOUS
<1> HIDE DEF x
<1> QED BY <1>1, <1>2, RunUpdate

\* An acknowledgement notes a run and keeps its page.
LEMMA Acknowledged ==
  ASSUME WalkTypeOK, NEW r \in DOMAIN runs, runs' = [runs EXCEPT ![r].noted = TRUE]
  PROVE  /\ runs' \in Seq(Run) /\ DOMAIN runs' = DOMAIN runs /\ runs' # <<>>
         /\ \A q \in DOMAIN runs : q # r => runs'[q] = runs[q]
         /\ runs'[r].noted /\ runs'[r].lastPage = runs[r].lastPage
<1> DEFINE x == [runs[r] EXCEPT !.noted = TRUE]
<1>0. runs[r] \in Run
  BY PagesType
<1>1. x \in Run /\ x.noted /\ x.lastPage = runs[r].lastPage
  BY <1>0 DEF Run
<1>2. runs' = [runs EXCEPT ![r] = x]
  BY DEF WalkTypeOK
<1> HIDE DEF x
<1> QED BY <1>1, <1>2, RunUpdate

\* A new run has no note.
LEMMA Opened ==
  ASSUME WalkTypeOK,
         runs' = Append(runs, [finished |-> FALSE, failed |-> FALSE,
                               noted |-> FALSE, lastPage |-> 0])
  PROVE  /\ runs' \in Seq(Run) /\ runs' # <<>>
         /\ DOMAIN runs' = DOMAIN runs \cup {Len(runs) + 1}
         /\ Len(runs) + 1 \notin DOMAIN runs
         /\ \A q \in DOMAIN runs : runs'[q] = runs[q]
         /\ ~runs'[Len(runs) + 1].noted /\ runs'[Len(runs) + 1].lastPage = 0
<1> DEFINE x == [finished |-> FALSE, failed |-> FALSE, noted |-> FALSE, lastPage |-> 0]
<1>1. x \in Run /\ ~x.noted /\ x.lastPage = 0
  BY DEF Run
<1>2. runs' = Append(runs, x) /\ runs \in Seq(Run)
  BY DEF WalkTypeOK
<1> HIDE DEF x
<1>3. /\ runs' \in Seq(Run) /\ Len(runs) \in Nat
      /\ DOMAIN runs = 1..Len(runs) /\ DOMAIN runs' = 1..(Len(runs) + 1)
      /\ \A q \in DOMAIN runs : runs'[q] = runs[q]
      /\ runs'[Len(runs) + 1] = x
  BY <1>1, <1>2
<1>4. runs' # <<>>
  BY <1>3
<1> QED BY <1>1, <1>3, <1>4

LEMMA WalkTypesKept ==
  ASSUME WalkTypeOK, SessionInv, [WalkNext]_walkVars PROVE WalkTypeOK'
<1> USE WalkAssumption
<1>1. CASE ListTender
  BY <1>1 DEF ListTender, WalkTypeOK
<1>2. CASE OpenRun
  <2>1. runs' \in Seq(Run) /\ runs' # <<>>
    BY <1>2, Opened DEF OpenRun
  <2> QED BY <1>2, <2>1 DEF OpenRun, WalkTypeOK
<1>3. CASE LoadCheckpoint
  <2>1. PICK p \in LastPages : start' = p + 1 /\ page' = p + 1
    BY <1>3 DEF LoadCheckpoint
  <2>2. p \in Nat
    BY PagesType
  <2> QED BY <1>3, <2>1, <2>2 DEF LoadCheckpoint, WalkTypeOK
<1>4. CASE FetchPage \/ Pause \/ StoreRow
  BY <1>4, PageType DEF FetchPage, Pause, StoreRow, WalkTypeOK
<1>5. CASE Checkpoint
  <2>1. runs' \in Seq(Run) /\ runs' # <<>>
    BY <1>5, Written DEF Checkpoint, WalkTypeOK
  <2> QED BY <1>5, <2>1 DEF Checkpoint, WalkTypeOK
<1>6. CASE CoolOff
  <2>1. CoolOffPage \in Nat
    BY <1>6 DEF CoolOff, WalkTypeOK, CoolOffPage, SessionInv
  <2>2. runs' \in Seq(Run) /\ runs' # <<>>
    BY <1>6, <2>1, Written DEF CoolOff
  <2> QED BY <1>6, <2>2 DEF CoolOff, Trouble, WalkTypeOK
<1>7. CASE Fail \/ Kill
  <2>1. troubles' \in 0..MaxTroubles
    BY <1>7 DEF Fail, Kill, Trouble, WalkTypeOK
  <2>2. /\ phase # "idle" /\ phase' \in {"idle", "failed"} /\ hand' = {}
        /\ UNCHANGED <<listed, stored, runs, page, start, best>>
    BY <1>7 DEF Fail, Kill
  <2> QED BY <2>1, <2>2 DEF WalkTypeOK
<1>8. CASE Close
  <2>1. runs' \in Seq(Run) /\ runs' # <<>>
    BY <1>8, Closed DEF Close
  <2> QED BY <1>8, <2>1 DEF Close, WalkTypeOK
<1>9. CASE CloseStalled
  <2>1. runs' \in Seq(Run) /\ runs' # <<>>
    BY <1>9, Stalled DEF CloseStalled
  <2> QED BY <1>9, <2>1 DEF CloseStalled, Trouble, WalkTypeOK
<1>10. CASE Acknowledge
  <2>1. runs' \in Seq(Run) /\ runs' # <<>>
    BY <1>10, Acknowledged DEF Acknowledge
  <2> QED BY <1>10, <2>1 DEF Acknowledge, Trouble, WalkTypeOK
<1>11. CASE UNCHANGED walkVars
  BY <1>11 DEF walkVars, WalkTypeOK
<1> QED BY <1>1, <1>2, <1>3, <1>4, <1>5, <1>6, <1>7, <1>8, <1>9, <1>10, <1>11
        DEF WalkNext, SessionStep

\* A run keeps its page, reads as page 0, or gets the note of a covered page.
LEMMA RunInvStays ==
  ASSUME WalkTypeOK, WalkTypeOK', RunInv, listed >= Initial,
         listed' >= listed, stored \subseteq stored',
         \A r \in DOMAIN runs' :
           \/ /\ r \in DOMAIN runs /\ runs'[r].lastPage = runs[r].lastPage
              /\ runs[r].noted => runs'[r].noted
           \/ runs'[r].lastPage = 0
           \/ /\ runs'[r].noted
              /\ \A p \in Nat : runs'[r].lastPage = p => Covered(p)
  PROVE  RunInv'
<1> SUFFICES ASSUME NEW r \in DOMAIN runs', NEW p \in Nat, runs'[r].lastPage = p
             PROVE  Covered(p)' /\ (~runs'[r].noted => p = 0)
  BY DEF RunInv
<1>1. Covered(p)
  BY CoveredZero DEF RunInv
<1>2. listed' \in Nat
  BY DEF WalkTypeOK
<1>3. Covered(p)'
  BY <1>1, <1>2, CoveredStays
<1>4. ~runs'[r].noted => p = 0
  BY DEF RunInv
<1> QED BY <1>3, <1>4

-----------------------------------------------------------------------------
(* What a session resumes after, and how the steps change it. *)

LEMMA LoadsUnique ==
  ASSUME WalkTypeOK, NEW p, NEW q, Loads(p), Loads(q) PROVE p = q
<1>1. \A r \in DOMAIN runs : r \in Nat
  BY DEF WalkTypeOK
<1>2. ASSUME NEW r \in DOMAIN runs, NEW s \in DOMAIN runs, IsLatestNote(r), IsLatestNote(s)
      PROVE  r = s
  <2>1. ~(r > s) /\ ~(s > r)
    BY <1>2 DEF IsLatestNote
  <2> QED BY <1>1, <2>1
<1> QED BY <1>2 DEF Loads, IsLatestNote

LEMMA LoadsSame ==
  ASSUME NEW q, Loads(q)', DOMAIN runs' = DOMAIN runs,
         \A r \in DOMAIN runs : /\ runs'[r].noted = runs[r].noted
                                /\ runs'[r].lastPage = runs[r].lastPage
  PROVE  Loads(q)
BY DEF Loads, IsLatestNote

LEMMA LoadsOpened ==
  ASSUME WalkTypeOK, NEW q, Loads(q)', OpenRun PROVE Loads(q)
<1>1. /\ DOMAIN runs' = DOMAIN runs \cup {Len(runs) + 1}
      /\ \A r \in DOMAIN runs : runs'[r] = runs[r]
      /\ ~runs'[Len(runs) + 1].noted
  BY Opened DEF OpenRun
<1> QED BY <1>1 DEF Loads, IsLatestNote

LEMMA LoadsWritten ==
  ASSUME WalkTypeOK, NEW p \in Nat, NEW q, Loads(q)', phase # "idle",
         runs' = [runs EXCEPT ![Current].noted = TRUE, ![Current].lastPage = p]
  PROVE  q = p
<1>1. /\ DOMAIN runs' = DOMAIN runs /\ Current \in DOMAIN runs
      /\ runs'[Current].noted /\ runs'[Current].lastPage = p
  BY Written
<1>2. \A r \in DOMAIN runs : r \in Nat /\ r <= Current
  BY DEF WalkTypeOK, Current
<1>3. \A r \in DOMAIN runs : r # Current => Current > r
  BY <1>1, <1>2
<1>4. PICK r \in DOMAIN runs' : IsLatestNote(r)' /\ q = runs'[r].lastPage
  BY <1>1 DEF Loads
<1>5. r = Current
  BY <1>1, <1>3, <1>4 DEF IsLatestNote
<1> QED BY <1>1, <1>4, <1>5

LEMMA LoadsStalled ==
  ASSUME WalkTypeOK, NEW q, Loads(q)', CloseStalled PROVE Loads(q) \/ q = 0
<1>1. PICK r \in DOMAIN runs :
        runs' = [runs EXCEPT ![r] = [finished |-> TRUE, failed |-> TRUE,
                                     noted |-> TRUE, lastPage |-> 0]]
  BY DEF CloseStalled
<1>2. /\ DOMAIN runs' = DOMAIN runs
      /\ \A s \in DOMAIN runs : s # r => runs'[s] = runs[s]
      /\ runs'[r].noted /\ runs'[r].lastPage = 0
  BY <1>1, Stalled
<1> QED BY <1>2 DEF Loads, IsLatestNote

LEMMA LoadsAcknowledged ==
  ASSUME WalkTypeOK, RunInv, NEW q, Loads(q)', Acknowledge PROVE Loads(q) \/ q = 0
<1>1. PICK r \in DOMAIN runs : runs' = [runs EXCEPT ![r].noted = TRUE]
  BY DEF Acknowledge
<1>2. /\ DOMAIN runs' = DOMAIN runs
      /\ \A s \in DOMAIN runs : s # r => runs'[s] = runs[s]
      /\ runs'[r].noted /\ runs'[r].lastPage = runs[r].lastPage
  BY <1>1, Acknowledged
<1>3. ~runs[r].noted => runs[r].lastPage = 0
  BY PagesType DEF RunInv
<1> QED BY <1>2, <1>3 DEF Loads, IsLatestNote

-----------------------------------------------------------------------------
\* What holds between what could be resumed after before and after a step.
Resumes == \A p, q \in Nat : Loads(p) /\ Loads(q)' => q >= p \/ q = 0

\* Steps after which the same page, or page 0, would be resumed after.
LEMMA ResumesSame ==
  ASSUME WalkTypeOK, \A q \in Nat : Loads(q)' => Loads(q) \/ q = 0 PROVE Resumes
BY LoadsUnique DEF Resumes

LEMMA WalkSteps ==
  ASSUME WalkInv, [WalkNext]_walkVars PROVE WalkInv' /\ Resumes
<1>0. WalkTypeOK /\ SessionInv /\ WalkTypeOK' /\ listed >= Initial /\ listed \in Nat /\ page \in Nat
  BY WalkTypesKept DEF WalkInv, WalkTypeOK
<1> DEFINE Kept == /\ DOMAIN runs' = DOMAIN runs
                   /\ \A r \in DOMAIN runs : /\ runs'[r].noted = runs[r].noted
                                             /\ runs'[r].lastPage = runs[r].lastPage
<1>a. ASSUME Kept, listed' >= listed, stored \subseteq stored', SessionInv',
             phase' \in {"fetch", "rows"} => phase \in {"fetch", "rows"} /\ page' = page
      PROVE  WalkInv' /\ Resumes
  <2>1. \A q \in Nat : Loads(q)' => Loads(q)
    BY <1>a, LoadsSame
  <2>2. RunInv'
    BY <1>0, <1>a, RunInvStays DEF WalkInv
  <2>3. ProgressInv'
    BY <1>a, <2>1 DEF WalkInv, ProgressInv
  <2>4. Resumes
    BY <1>0, <2>1, ResumesSame
  <2>5. listed' >= Initial
    BY <1>0, <1>a, WalkAssumption DEF WalkTypeOK
  <2> QED BY <1>0, <1>a, <2>2, <2>3, <2>4, <2>5 DEF WalkInv
<1>1. CASE ListTender
  <2>1. /\ listed' = listed + 1 /\ UNCHANGED <<stored, runs, phase, page, hand>>
    BY <1>1 DEF ListTender
  <2>2. listed' >= listed /\ listed' \in Nat
    BY <1>0, <2>1
  <2>3. SessionInv'
    <3>1. phase \in {"fetch", "rows"} => page >= 1 /\ Covered(page - 1)'
      BY <1>0, <2>1, <2>2, CoveredStays DEF SessionInv
    <3>2. ASSUME phase = "rows", NEW i \in 1..Initial, Position(i)' <= Upto(page)
          PROVE  i \in stored \cup hand
      <4>1. /\ i \in Int /\ Upto(page) \in Int /\ listed \in Int /\ listed' \in Int
            /\ listed <= listed'
        BY <1>0, <2>2, UptoType, WalkAssumption
      <4>2. /\ listed - i + 1 <= listed' - i + 1
            /\ listed - i + 1 \in Int /\ listed' - i + 1 \in Int
        BY <4>1, Shift
      <4>3. Position(i) <= Upto(page)
        BY <3>2, <4>1, <4>2 DEF Position
      <4> QED BY <1>0, <3>2, <4>3 DEF SessionInv
    <3> QED BY <2>1, <3>1, <3>2 DEF SessionInv, Covered, Upto
  <2> QED BY <1>a, <2>1, <2>2, <2>3
<1>2. CASE OpenRun
  <2>1. phase' = "load" /\ UNCHANGED <<listed, stored>>
    BY <1>2 DEF OpenRun
  <2>2. RunInv'
    <3>1. \A r \in DOMAIN runs' :
            (r \in DOMAIN runs /\ runs'[r] = runs[r]) \/ runs'[r].lastPage = 0
      BY <1>0, <1>2, Opened DEF OpenRun
    <3> QED BY <1>0, <2>1, <3>1, RunInvStays DEF WalkInv
  <2>3. Resumes
    BY <1>0, <1>2, LoadsOpened, ResumesSame
  <2> QED BY <1>0, <2>1, <2>2, <2>3 DEF WalkInv, SessionInv, ProgressInv
<1>3. CASE LoadCheckpoint
  <2>1. PICK p \in LastPages : Loads(p) /\ start' = p + 1 /\ page' = p + 1
    BY <1>3 DEF LoadCheckpoint
  <2>2. p \in Nat
    BY <1>0, PagesType
  <2>3. phase' = "fetch" /\ UNCHANGED <<listed, stored, runs, hand>>
    BY <1>3 DEF LoadCheckpoint
  <2>4. Covered(p)
    BY <1>0, <2>1, <2>2, CoveredZero DEF WalkInv, RunInv, Loads
  <2>5. SessionInv'
    <3>1. page' >= 1 /\ page' - 1 = p
      BY <2>1, <2>2
    <3>2. Covered(p)'
      BY <1>0, <2>2, <2>3, <2>4, CoveredStays
    <3> QED BY <2>3, <3>1, <3>2 DEF SessionInv, Covered
  <2>6. \A q \in Nat : Loads(q)' => Loads(q)
    BY <2>3 DEF Loads, IsLatestNote
  <2>7. ProgressInv'
    BY <1>0, <2>1, <2>2, <2>6, LoadsUnique DEF ProgressInv
  <2>8. RunInv'
    BY <2>3 DEF WalkInv, RunInv, Covered, Position, Upto
  <2>9. Resumes
    BY <1>0, <2>6, ResumesSame
  <2> QED BY <1>0, <2>3, <2>5, <2>7, <2>8, <2>9 DEF WalkInv
<1>4. CASE FetchPage
  <2>1. /\ phase = "fetch" /\ phase' \in {"close", "rows"} /\ hand' = Page(page)
        /\ UNCHANGED <<listed, stored, runs, page>>
    BY <1>4 DEF FetchPage
  <2>2. SessionInv'
    BY <1>0, <2>1, PageCovers DEF SessionInv, Covered, Position, Upto
  <2> QED BY <1>0, <1>a, <2>1, <2>2
<1>5. CASE Pause
  <2>1. phase' = "close" /\ UNCHANGED <<listed, stored, runs>>
    BY <1>5 DEF Pause
  <2> QED BY <1>0, <1>a, <2>1 DEF SessionInv
<1>6. CASE StoreRow
  <2>1. PICK i \in hand : stored' = stored \cup {i} /\ hand' = hand \ {i}
    BY <1>6 DEF StoreRow
  <2>2. phase = "rows" /\ UNCHANGED <<listed, runs, phase, page>>
    BY <1>6 DEF StoreRow
  <2>3. SessionInv'
    BY <1>0, <2>1, <2>2 DEF SessionInv, Covered, Position, Upto
  <2> QED BY <1>0, <1>a, <2>1, <2>2, <2>3
<1>7. CASE Checkpoint
  <2>1. /\ phase = "rows" /\ hand = {} /\ phase' = "fetch" /\ page' = page + 1
        /\ runs' = [runs EXCEPT ![Current].noted = TRUE, ![Current].lastPage = page]
        /\ UNCHANGED <<listed, stored>>
    BY <1>7 DEF Checkpoint
  <2>2. Covered(page)
    BY <1>0, <2>1 DEF SessionInv, Covered
  <2>3. RunInv'
    <3>1. \A r \in DOMAIN runs' :
            \/ r \in DOMAIN runs /\ runs'[r] = runs[r]
            \/ runs'[r].noted /\ runs'[r].lastPage = page
      BY <1>0, <2>1, Written
    <3> QED BY <1>0, <2>1, <2>2, <3>1, RunInvStays DEF WalkInv
  <2>4. SessionInv'
    <3>1. page' >= 1 /\ page' - 1 = page
      BY <1>0, <2>1
    <3>2. PICK p \in Nat : p = page
      BY <1>0
    <3>3. Covered(p)'
      BY <1>0, <2>1, <2>2, <3>2, CoveredStays
    <3> QED BY <2>1, <3>1, <3>2, <3>3 DEF SessionInv, Covered, Upto
  <2>5. \A q \in Nat : Loads(q)' => q = page
    BY <1>0, <2>1, LoadsWritten
  <2>6. ProgressInv'
    BY <1>0, <2>1, <2>5 DEF ProgressInv
  <2>7. Resumes
    <3>1. \A p \in Nat : Loads(p) => p < page
      BY <2>1 DEF WalkInv, ProgressInv
    <3> QED BY <1>0, <2>5, <3>1 DEF Resumes
  <2> QED BY <1>0, <2>1, <2>3, <2>4, <2>6, <2>7 DEF WalkInv
<1>8. CASE CoolOff
  <2>1. /\ phase = "fetch" /\ phase' = "close"
        /\ runs' = [runs EXCEPT ![Current].noted = TRUE, ![Current].lastPage = page - 1]
        /\ UNCHANGED <<listed, stored>>
    BY <1>8 DEF CoolOff, CoolOffPage
  <2>2. page - 1 \in Nat /\ Covered(page - 1)
    BY <1>0, <2>1 DEF SessionInv
  <2>3. RunInv'
    <3>1. \A r \in DOMAIN runs' :
            \/ r \in DOMAIN runs /\ runs'[r] = runs[r]
            \/ runs'[r].noted /\ runs'[r].lastPage = page - 1
      BY <1>0, <2>1, <2>2, Written
    <3> QED BY <1>0, <2>1, <2>2, <3>1, RunInvStays DEF WalkInv
  <2>4. \A q \in Nat : Loads(q)' => q = page - 1
    BY <1>0, <2>1, <2>2, LoadsWritten
  <2>5. Resumes
    <3>1. \A p \in Nat : Loads(p) => p < page
      BY <2>1 DEF WalkInv, ProgressInv
    <3> QED BY <1>0, <2>4, <3>1 DEF Resumes
  <2> QED BY <1>0, <2>1, <2>3, <2>5 DEF WalkInv, SessionInv, ProgressInv
<1>9. CASE Fail \/ Kill
  <2>1. phase' \in {"failed", "idle"} /\ UNCHANGED <<listed, stored, runs>>
    BY <1>9 DEF Fail, Kill
  <2> QED BY <1>0, <1>a, <2>1 DEF SessionInv
<1>10. CASE Close
  <2>1. phase' = "idle" /\ phase # "idle" /\ UNCHANGED <<listed, stored>>
    BY <1>10 DEF Close
  <2>2. Kept
    BY <1>0, <1>10, <2>1, Closed DEF Close
  <2> QED BY <1>0, <1>a, <2>1, <2>2 DEF SessionInv
<1>11. CASE CloseStalled \/ Acknowledge
  <2>1. UNCHANGED <<listed, stored, phase, page, hand>>
    BY <1>11 DEF CloseStalled, Acknowledge
  <2>2. \A q \in Nat : Loads(q)' => Loads(q) \/ q = 0
    BY <1>0, <1>11, LoadsStalled, LoadsAcknowledged DEF WalkInv
  <2>3. SessionInv'
    BY <1>0, <2>1 DEF SessionInv, Covered, Position, Upto
  <2>4. ProgressInv'
    BY <1>0, <2>1, <2>2 DEF WalkInv, SessionInv, ProgressInv
  <2>5. RunInv'
    <3>1. CASE CloseStalled
      <4>1. \A r \in DOMAIN runs' :
              (r \in DOMAIN runs /\ runs'[r] = runs[r]) \/ runs'[r].lastPage = 0
        BY <1>0, <3>1, Stalled DEF CloseStalled
      <4> QED BY <1>0, <2>1, <4>1, RunInvStays DEF WalkInv
    <3>2. CASE Acknowledge
      <4>1. \A r \in DOMAIN runs' :
              /\ r \in DOMAIN runs /\ runs'[r].lastPage = runs[r].lastPage
              /\ runs[r].noted => runs'[r].noted
        BY <1>0, <3>2, Acknowledged DEF Acknowledge
      <4> QED BY <1>0, <2>1, <4>1, RunInvStays DEF WalkInv
    <3> QED BY <1>11, <3>1, <3>2
  <2>6. Resumes
    BY <1>0, <2>2, ResumesSame
  <2> QED BY <1>0, <2>1, <2>3, <2>4, <2>5, <2>6 DEF WalkInv
<1>12. CASE UNCHANGED walkVars
  BY <1>0, <1>12, <1>a DEF walkVars, SessionInv, Covered, Position, Upto
<1> QED BY <1>1, <1>2, <1>3, <1>4, <1>5, <1>6, <1>7, <1>8, <1>9, <1>10, <1>11, <1>12
        DEF WalkNext, SessionStep

\* Every reachable state satisfies the inductive invariant.
THEOREM WalkIsInvariant == WalkSpec => []WalkInv
<1>1. WalkInv /\ [WalkNext]_walkVars => WalkInv'
  BY WalkSteps
<1> QED BY <1>1, WalkStarts, PTL DEF WalkSpec

\* The variables of the walk's model keep their types.
THEOREM WalkTypes == WalkSpec => []WalkTypeOK
<1>1. WalkInv => WalkTypeOK
  BY DEF WalkInv
<1> QED BY <1>1, WalkIsInvariant, PTL

\* No session resumes behind a gap, for any page size and any growth of the
\* listing, whatever fails and whoever else writes a checkpoint.
THEOREM SpecNoGap == WalkSpec => []NoGapBehindCheckpoint
<1>1. WalkInv => NoGapBehindCheckpoint
  BY PagesType DEF WalkInv, RunInv, NoGapBehindCheckpoint
<1> QED BY <1>1, WalkIsInvariant, PTL

\* A cool-off, an exception or a kill never erodes the progress of the walk.
THEOREM SpecProgress == WalkSpec => ProgressIsNotEroded
<1>1. WalkInv /\ WalkInv' /\ [WalkNext]_walkVars =>
        [\A p \in LastPages, q \in LastPages' : Loads(p) /\ Loads(q)' => q >= p \/ q = 0]_walkVars
  <2> SUFFICES ASSUME WalkInv, WalkInv', [WalkNext]_walkVars,
                      NEW p \in LastPages, NEW q \in LastPages', Loads(p), Loads(q)'
               PROVE  q >= p \/ q = 0
    OBVIOUS
  <2>1. p \in Nat
    BY PagesType DEF WalkInv
  <2>2. q \in Nat
    <3>1. LastPages' \subseteq Nat
      <4>1. runs' \in Seq(Run)
        BY DEF WalkInv, WalkTypeOK
      <4>2. \A r \in DOMAIN runs' : runs'[r] \in Run
        BY <4>1
      <4>3. \A x \in Run : x.lastPage \in Nat
        BY DEF Run
      <4> QED BY <4>2, <4>3 DEF LastPages
    <3> QED BY <3>1
  <2> QED BY <2>1, <2>2, WalkSteps DEF Resumes
<1> QED BY <1>1, WalkIsInvariant, PTL DEF WalkSpec, ProgressIsNotEroded
=============================================================================
