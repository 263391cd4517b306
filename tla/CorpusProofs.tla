---------------------------- MODULE CorpusProofs ----------------------------
(***************************************************************************)
(* Proofs about the jobs around the corpus (CorpusIsKept): the index       *)
(* follows the rows, migrations run in their turn, a second source's       *)
(* events tell its changes, merging names moves no offer, the checks of    *)
(* what was captured heal and count what they claim to, and a withdrawn    *)
(* document feeds no later benchmark.                                      *)
(*                                                                         *)
(* As in WorkspaceProofs, a behaviour follows one component.  For each     *)
(* there are a lemma that its initial states satisfy the inductive         *)
(* invariant its module states, a lemma that its steps preserve it, with   *)
(* one lemma per action before it where the action needs one, and a lemma  *)
(* that it implies the properties that are not among its conjuncts.        *)
(***************************************************************************)
EXTENDS Corpus, SequenceTheorems, FiniteSetTheorems, WellFoundedInduction, TLAPS

\* A set of numbers has a least member.
LEMMA LeastExists ==
  ASSUME NEW S, S \subseteq Nat, S # {}
  PROVE  \E x \in S : \A y \in S : x <= y
<1>1. PICK x \in S : \A y \in S : ~(<<y, x>> \in OpToRel(<, Nat))
  BY NatLessThanWellFounded, WFMin
<1>2. ASSUME NEW y \in S PROVE x <= y
  <2>1. x \in Nat /\ y \in Nat
    OBVIOUS
  <2>2. ~(y < x)
    BY <1>1, <2>1 DEF OpToRel
  <2> QED BY <2>1, <2>2
<1> QED BY <1>2

\* A set of numbers with a bound has a largest member.
LEMMA LargestExists ==
  ASSUME NEW n \in Nat, NEW S, S \subseteq 0..n, S # {}
  PROVE  \E x \in S : \A y \in S : y <= x
<1> DEFINE T == {n - x : x \in S}
<1>1. T \subseteq Nat /\ T # {}
  <2>1. \A x \in S : n - x \in Nat
    OBVIOUS
  <2> QED BY <2>1, Zenon
<1>2. PICK m \in T : \A y \in T : m <= y
  <2> HIDE DEF T
  <2> QED BY <1>1, LeastExists
<1>3. PICK x \in S : m = n - x
  OBVIOUS
<1>4. ASSUME NEW y \in S PROVE y <= x
  <2>1. n - y \in T /\ x \in 0..n /\ y \in 0..n
    OBVIOUS
  <2> QED BY <1>2, <1>3, <2>1
<1> QED BY <1>4

-----------------------------------------------------------------------------
(***************************************************************************)
(* SearchIndex: the newest change is indexed, missed or on its way.        *)
(* v1 .. v9 are row, stream, group, index, follower, bulk, deaths, missed  *)
(* and raced.                                                              *)
(***************************************************************************)
IndexTender == 1..IndexedRows
IndexVersion == 0..IndexVersions
IndexEntry == [tender : IndexTender, version : IndexVersion]
IndexDocs == UNION {[ids -> IndexVersion] : ids \in SUBSET IndexTender}
IndexFollower == [phase : {"idle", "taken", "read"}, entries : Seq(IndexEntry), docs : IndexDocs]
IndexBulk == [phase : {"off", "ready", "read"}, last : 0..IndexedRows, docs : IndexDocs]

\* The types, by the names above.
LEMMA IndexTypes ==
  Search!TypeOK <=>
    /\ v1 \in [IndexTender -> IndexVersion] /\ v4 \in [IndexTender -> IndexVersion]
    /\ v8 \in [IndexTender -> IndexVersion] /\ v9 \subseteq IndexTender
    /\ v2 \in Seq(IndexEntry) /\ v3 \in BOOLEAN /\ v7 \in 0..IndexDeaths
    /\ v5 \in IndexFollower /\ Len(v5.entries) <= IndexBatch /\ v6 \in IndexBulk
BY DEF Search!TypeOK, Search!Tenders, Search!Versions, Search!Entry, Search!Docs,
       IndexTender, IndexVersion, IndexEntry, IndexDocs, IndexFollower, IndexBulk

\* The types again, of the next state.
LEMMA IndexTypesAfter ==
  ASSUME v1' \in [IndexTender -> IndexVersion], v4' \in [IndexTender -> IndexVersion],
         v8' \in [IndexTender -> IndexVersion], v9' \subseteq IndexTender,
         v2' \in Seq(IndexEntry), v3' \in BOOLEAN, v7' \in 0..IndexDeaths,
         v5' \in IndexFollower, Len(v5'.entries) <= IndexBatch, v6' \in IndexBulk
  PROVE  Search!TypeOK'
BY DEF Search!TypeOK, Search!Tenders, Search!Versions, Search!Entry, Search!Docs,
       IndexTender, IndexVersion, IndexEntry, IndexDocs, IndexFollower, IndexBulk

\* Documents are versions of the tenders that they are of.
LEMMA DocsAreVersions ==
  /\ \A docs \in IndexDocs : /\ DOMAIN docs \subseteq IndexTender
                             /\ \A t \in DOMAIN docs : docs[t] \in IndexVersion
  /\ \A docs : /\ docs = [t \in DOMAIN docs |-> docs[t]] /\ DOMAIN docs \subseteq IndexTender
               /\ \A t \in DOMAIN docs : docs[t] \in IndexVersion
               => docs \in IndexDocs
<1>1. ASSUME NEW docs \in IndexDocs
      PROVE  DOMAIN docs \subseteq IndexTender /\ \A t \in DOMAIN docs : docs[t] \in IndexVersion
  <2>1. PICK ids \in SUBSET IndexTender : docs \in [ids -> IndexVersion]
    BY DEF IndexDocs
  <2> QED BY <2>1
<1>2. ASSUME NEW docs, docs = [t \in DOMAIN docs |-> docs[t]], DOMAIN docs \subseteq IndexTender,
             \A t \in DOMAIN docs : docs[t] \in IndexVersion
      PROVE  docs \in IndexDocs
  <2>1. docs \in [DOMAIN docs -> IndexVersion]
    BY <1>2
  <2> QED BY <1>2, <2>1 DEF IndexDocs
<1> QED BY <1>1, <1>2

\* Nothing in hand.
LEMMA EmptyHands ==
  /\ Search!NoDocs \in IndexDocs /\ DOMAIN Search!NoDocs = {}
  /\ Search!Idle \in IndexFollower /\ Search!Idle.phase = "idle" /\ Search!Idle.entries = << >>
  /\ Search!Idle.docs = Search!NoDocs /\ Len(Search!Idle.entries) <= IndexBatch
  /\ Search!Off \in IndexBulk /\ Search!Off.phase = "off" /\ Search!Off.docs = Search!NoDocs
  /\ Search!Range(<< >>) = {}
<1>1. << >> \in Seq(IndexVersion) /\ << >> \in Seq(IndexEntry) /\ Len(<< >>) = 0
  BY EmptySeq
<1>2. DOMAIN << >> = {} /\ << >> \in [{} -> IndexVersion]
  <2>1. << >> \in [1..0 -> IndexVersion] /\ DOMAIN << >> = 1..0
    BY <1>1, LenProperties
  <2>2. 1..0 = {}
    OBVIOUS
  <2> QED BY <2>1, <2>2
<1>3. Search!NoDocs \in IndexDocs
  BY <1>2 DEF Search!NoDocs, IndexDocs
<1>4. Search!Range(<< >>) = {}
  BY <1>2 DEF Search!Range
<1>5. 0 \in 0..IndexedRows /\ 0 <= IndexBatch
  BY CorpusAssumption
<1>6. Search!Idle \in IndexFollower /\ Search!Idle.phase = "idle" /\ Search!Idle.entries = << >>
      /\ Search!Idle.docs = Search!NoDocs
  BY <1>1, <1>3 DEF Search!Idle, IndexFollower
<1>7. Search!Off \in IndexBulk /\ Search!Off.phase = "off" /\ Search!Off.docs = Search!NoDocs
  BY <1>3, <1>5 DEF Search!Off, IndexBulk
<1> QED BY <1>1, <1>2, <1>3, <1>4, <1>5, <1>6, <1>7 DEF Search!NoDocs

\* The initial states.
LEMMA IndexInit == ASSUME Search!Init PROVE Search!IndexInv
<1>1. /\ v1 = [t \in IndexTender |-> 0] /\ v4 = v1 /\ v8 = v1 /\ v9 = {} /\ v2 = << >>
      /\ v3 = FALSE /\ v7 = 0 /\ v5 = Search!Idle /\ v6 = Search!Off
  BY DEF Search!Init, Search!Tenders, IndexTender
<1>2. 0 \in IndexVersion /\ 0 \in 0..IndexDeaths /\ << >> \in Seq(IndexEntry)
  BY CorpusAssumption, EmptySeq DEF IndexVersion
<1>3. Search!TypeOK
  <2>1. v1 \in [IndexTender -> IndexVersion]
    BY <1>1, <1>2
  <2> QED BY <1>1, <1>2, <2>1, EmptyHands, IndexTypes
<1>4. Search!DocsInv
  BY <1>1, EmptyHands DEF Search!DocsInv
<1>5. Search!NewestInv
  BY <1>1, EmptyHands
     DEF Search!NewestInv, Search!Followed, Search!Tenders, IndexTender
<1> QED BY <1>3, <1>4, <1>5 DEF Search!IndexInv

\* The first entries of the stream and the others.
LEMMA StreamSplits ==
  ASSUME NEW s \in Seq(IndexEntry), NEW n \in 1..Search!Min({IndexBatch, Len(s)})
  PROVE  /\ SubSeq(s, 1, n) \in Seq(IndexEntry) /\ Len(SubSeq(s, 1, n)) <= IndexBatch
         /\ SubSeq(s, n + 1, Len(s)) \in Seq(IndexEntry)
         /\ Search!Range(s) = Search!Range(SubSeq(s, 1, n))
                              \cup Search!Range(SubSeq(s, n + 1, Len(s)))
<1>1. Len(s) \in Nat /\ DOMAIN s = 1..Len(s) /\ \A i \in 1..Len(s) : s[i] \in IndexEntry
  BY LenProperties
<1>2. n \in Nat /\ 1 <= n /\ n <= Len(s) /\ n <= IndexBatch /\ IndexBatch \in Nat
  <2>1. {IndexBatch, Len(s)} \subseteq Nat
    BY <1>1, CorpusAssumption
  <2>2. \E x \in {IndexBatch, Len(s)} : \A y \in {IndexBatch, Len(s)} : x <= y
    BY <2>1, LeastExists
  <2>3. /\ Search!Min({IndexBatch, Len(s)}) \in {IndexBatch, Len(s)}
        /\ \A y \in {IndexBatch, Len(s)} : Search!Min({IndexBatch, Len(s)}) <= y
    BY <2>2 DEF Search!Min
  <2> QED BY <2>1, <2>3
<1> DEFINE a == SubSeq(s, 1, n)
           b == SubSeq(s, n + 1, Len(s))
<1>3. a \in Seq(IndexEntry) /\ Len(a) = n /\ \A i \in 1..n : a[i] = s[i]
  <2>1. \A i \in 1..n : s[i] \in IndexEntry
    BY <1>1, <1>2
  <2>2. /\ a \in Seq(IndexEntry) /\ Len(a) = IF 1 <= n THEN n - 1 + 1 ELSE 0
        /\ \A i \in 1..(n - 1 + 1) : a[i] = s[1 + i - 1]
    BY <1>2, <2>1, SubSeqProperties
  <2> HIDE DEF a
  <2> QED BY <1>2, <2>2
<1>4. /\ b \in Seq(IndexEntry) /\ Len(b) = Len(s) - n
      /\ \A i \in 1..(Len(s) - n) : b[i] = s[n + i]
  <2>1. \A i \in (n + 1)..Len(s) : s[i] \in IndexEntry
    BY <1>1, <1>2
  <2>2. /\ b \in Seq(IndexEntry) /\ Len(b) = IF n + 1 <= Len(s) THEN Len(s) - (n + 1) + 1 ELSE 0
        /\ \A i \in 1..(Len(s) - (n + 1) + 1) : b[i] = s[n + 1 + i - 1]
    BY <1>1, <1>2, <2>1, SubSeqProperties
  <2> HIDE DEF b
  <2>3. Len(s) - (n + 1) + 1 = Len(s) - n /\ (IF n + 1 <= Len(s) THEN Len(s) - n ELSE 0) = Len(s) - n
    <3>1. \A len, m \in Nat : m <= len =>
            len - (m + 1) + 1 = len - m /\ (IF m + 1 <= len THEN len - m ELSE 0) = len - m
      OBVIOUS
    <3> QED BY <1>1, <1>2, <3>1
  <2>4. \A i \in 1..(Len(s) - n) : n + 1 + i - 1 = n + i
    BY <1>1, <1>2
  <2> QED BY <2>2, <2>3, <2>4
<1>5. DOMAIN a = 1..n /\ DOMAIN b = 1..(Len(s) - n)
  <2> HIDE DEF a, b
  <2> QED BY <1>3, <1>4, LenProperties
<1>6. Search!Range(s) = Search!Range(a) \cup Search!Range(b)
  <2> HIDE DEF a, b
  <2>1. ASSUME NEW i \in 1..Len(s) PROVE s[i] \in Search!Range(a) \cup Search!Range(b)
    <3>1. CASE i <= n
      <4>1. i \in 1..n
        BY <1>1, <1>2, <3>1
      <4> QED BY <1>3, <1>5, <4>1 DEF Search!Range
    <3>2. CASE ~(i <= n)
      <4>1. i - n \in 1..(Len(s) - n) /\ n + (i - n) = i
        BY <1>1, <1>2, <3>2
      <4>2. b[i - n] = s[i]
        BY <1>4, <4>1
      <4> QED BY <1>5, <4>1, <4>2 DEF Search!Range
    <3> QED BY <3>1, <3>2
  <2>2. \A i \in 1..n : a[i] = s[i] /\ i \in 1..Len(s)
    BY <1>1, <1>2, <1>3
  <2>3. \A i \in 1..(Len(s) - n) : b[i] = s[n + i] /\ n + i \in 1..Len(s)
    BY <1>1, <1>2, <1>4
  <2> QED BY <1>1, <1>5, <2>1, <2>2, <2>3 DEF Search!Range
<1> HIDE DEF a, b
<1>7. Len(a) <= IndexBatch
  BY <1>2, <1>3
<1> QED BY <1>3, <1>4, <1>6, <1>7 DEF a, b

\* What is missed with the entries: no version is beyond the row, and the newest counts.
LEMMA MissedWithEntries ==
  ASSUME Search!TypeOK, \A t \in IndexTender : v8[t] <= v1[t],
         NEW entries \in Seq(IndexEntry), NEW ids,
         \A e \in Search!Range(entries) : e.version <= v1[e.tender]
  PROVE  /\ Search!Missing(entries, ids) \in [IndexTender -> IndexVersion]
         /\ \A t \in IndexTender :
              LET m == Search!Missing(entries, ids)[t]
              IN /\ m <= v1[t] /\ (v8[t] = v1[t] => m = v1[t])
                 /\ (t \in ids /\ Search!Newest(t, entries) => m = v1[t])
<1>0. /\ v1 \in [IndexTender -> IndexVersion] /\ v8 \in [IndexTender -> IndexVersion]
      /\ IndexVersions \in Nat
  BY IndexTypes, CorpusAssumption
<1>1. Search!Range(entries) \subseteq IndexEntry
  <2>1. DOMAIN entries = 1..Len(entries) /\ \A i \in 1..Len(entries) : entries[i] \in IndexEntry
    BY LenProperties
  <2> QED BY <2>1 DEF Search!Range
<1> DEFINE of(t) == {e.version : e \in {x \in Search!Range(entries) : x.tender = t /\ t \in ids}}
           m(t) == Search!Max({v8[t]} \cup of(t))
<1>2. Search!Missing(entries, ids) = [t \in IndexTender |-> m(t)]
  BY DEF Search!Missing, Search!Tenders, IndexTender
<1>3. ASSUME NEW t \in IndexTender
      PROVE  /\ m(t) \in IndexVersion /\ m(t) <= v1[t] /\ (v8[t] = v1[t] => m(t) = v1[t])
             /\ (t \in ids /\ Search!Newest(t, entries) => m(t) = v1[t])
  <2> DEFINE S == {v8[t]} \cup of(t)
  <2>1. \A x \in S : x \in IndexVersion /\ x <= v1[t]
    <3>1. v8[t] \in IndexVersion /\ v8[t] <= v1[t]
      BY <1>0
    <3>2. ASSUME NEW x \in of(t) PROVE x \in IndexVersion /\ x <= v1[t]
      <4>1. PICK e \in Search!Range(entries) : x = e.version /\ e.tender = t
        OBVIOUS
      <4>2. e \in IndexEntry
        BY <1>1
      <4> QED BY <4>1, <4>2 DEF IndexEntry
    <3> QED BY <3>1, <3>2
  <2>2. v8[t] \in S
    OBVIOUS
  <2>3. t \in ids /\ Search!Newest(t, entries) => v1[t] \in S
    <3>1. ASSUME t \in ids, Search!Newest(t, entries) PROVE v1[t] \in of(t)
      <4> DEFINE e == [tender |-> t, version |-> v1[t]]
      <4>1. e \in Search!Range(entries) /\ e.tender = t /\ e.version = v1[t]
        BY <3>1 DEF Search!Newest
      <4> HIDE DEF e
      <4> QED BY <3>1, <4>1
    <3> QED BY <3>1
  <2> HIDE DEF S
  <2>4. \E x \in S : \A y \in S : y <= x
    <3>1. S \subseteq 0..IndexVersions /\ S # {}
      BY <2>1, <2>2 DEF IndexVersion
    <3> QED BY <1>0, <3>1, LargestExists
  <2>5. \E x \in S : \A y \in S : x >= y
    BY <1>0, <2>1, <2>4 DEF IndexVersion
  <2>6. Search!Max(S) \in S /\ \A y \in S : Search!Max(S) >= y
    BY <2>5 DEF Search!Max
  <2>7. m(t) = Search!Max(S)
    BY DEF S
  <2> HIDE DEF m
  <2>8. v1[t] \in S => Search!Max(S) = v1[t]
    <3>1. Search!Max(S) \in IndexVersion /\ Search!Max(S) <= v1[t] /\ v1[t] \in IndexVersion
      BY <1>0, <2>1, <2>6
    <3> QED BY <1>0, <2>6, <3>1 DEF IndexVersion
  <2> QED BY <2>1, <2>2, <2>3, <2>6, <2>7, <2>8
<1> HIDE DEF m
<1> QED BY <1>2, <1>3

\* A row changes: with its entry, or missed.
LEMMA IndexChanges ==
  ASSUME Search!IndexInv, NEW t \in IndexTender, Search!Announced(t) \/ Search!Silent(t)
  PROVE  Search!IndexInv'
<1>0. /\ v1 \in [IndexTender -> IndexVersion] /\ v8 \in [IndexTender -> IndexVersion]
      /\ v2 \in Seq(IndexEntry) /\ IndexVersions \in Nat /\ v5 \in IndexFollower
      /\ UNCHANGED <<v3, v4, v5, v6, v7, v9>> /\ v6 \in IndexBulk
  BY IndexTypes, CorpusAssumption DEF Search!IndexInv, Search!Announced, Search!Silent
<1>1. /\ v1' \in [IndexTender -> IndexVersion] /\ v1'[t] = v1[t] + 1
      /\ \A u \in IndexTender : u # t => v1'[u] = v1[u]
  <2>1. v1' = [v1 EXCEPT ![t] = @ + 1] /\ v1[t] + 1 \in IndexVersion
    <3>1. v1[t] < IndexVersions
      <4>1. CASE Search!Announced(t)
        BY <4>1 DEF Search!Announced
      <4>2. CASE Search!Silent(t)
        BY <1>0, <4>2 DEF Search!Silent
      <4> QED BY <4>1, <4>2
    <3> QED BY <1>0, <3>1 DEF Search!Announced, Search!Silent, IndexVersion
  <2> QED BY <1>0, <2>1
<1> DEFINE new == [tender |-> t, version |-> v1[t] + 1]
<1>2. \/ v2' = Append(v2, new) /\ v8' = v8
      \/ v2' = v2 /\ v8' = [v8 EXCEPT ![t] = v1[t] + 1]
  BY DEF Search!Announced, Search!Silent
<1>3. new \in IndexEntry /\ new.tender = t /\ new.version = v1[t] + 1
  BY <1>0, <1>1 DEF IndexEntry
<1> HIDE DEF new
<1>4. /\ v2' \in Seq(IndexEntry) /\ v8' \in [IndexTender -> IndexVersion]
      /\ Search!Range(v2) \subseteq Search!Range(v2')
      /\ Search!Range(v2') \subseteq Search!Range(v2) \cup {new}
      /\ \A u \in IndexTender : u # t => v8'[u] = v8[u]
      /\ v8'[t] = v8[t] \/ v8'[t] = v1[t] + 1
      /\ v8'[t] = v1[t] + 1 \/ new \in Search!Range(v2')
  <2>1. CASE v2' = Append(v2, new) /\ v8' = v8
    <3>1. Len(v2) \in Nat /\ DOMAIN v2 = 1..Len(v2)
      BY <1>0, LenProperties
    <3>2. /\ v2' \in Seq(IndexEntry) /\ Len(v2') = Len(v2) + 1
          /\ \A i \in 1..Len(v2) : v2'[i] = v2[i]
          /\ v2'[Len(v2) + 1] = new
      BY <1>0, <1>3, <2>1, AppendProperties
    <3>3. DOMAIN v2' = 1..Len(v2) \cup {Len(v2) + 1}
      <4>1. DOMAIN v2' = 1..(Len(v2) + 1)
        BY <3>2, LenProperties
      <4> QED BY <3>1, <4>1
    <3> QED BY <1>0, <2>1, <3>1, <3>2, <3>3 DEF Search!Range
  <2>2. CASE v2' = v2 /\ v8' = [v8 EXCEPT ![t] = v1[t] + 1]
    <3>1. v1[t] + 1 \in IndexVersion
      BY <1>3 DEF IndexEntry
    <3> QED BY <1>0, <2>2, <3>1
  <2> QED BY <1>2, <2>1, <2>2
<1>5. Search!TypeOK'
  BY <1>0, <1>1, <1>4, IndexTypes, IndexTypesAfter DEF Search!IndexInv
<1>6. \A u \in IndexTender : \A held : Search!Followed(u, held) \/ u = t
        => held = v1'[u] \/ v8'[u] = v1'[u] \/ [tender |-> u, version |-> v1'[u]] \in Search!Range(v2')
  <2>1. new = [tender |-> t, version |-> v1'[t]]
    BY <1>1 DEF new
  <2> QED BY <1>1, <1>4, <2>1 DEF Search!Followed, Search!Newest
<1>7. \A u \in IndexTender \ {t} : Search!Newest(u, v5.entries)
        => [tender |-> u, version |-> v1'[u]] \in Search!Range(v5'.entries)
  BY <1>0, <1>1 DEF Search!Newest
<1>8. Search!DocsInv'
  <2>1. DOMAIN v5.docs \subseteq IndexTender /\ DOMAIN v6.docs \subseteq IndexTender
    BY <1>0, DocsAreVersions DEF IndexFollower, IndexBulk
  <2>2. \A u \in DOMAIN v5'.docs : Search!Followed(u, v5.docs[u])'
    BY <1>0, <1>6, <2>1
       DEF Search!IndexInv, Search!DocsInv, Search!Followed, Search!Newest
  <2>3. \A u \in DOMAIN v6'.docs \ v9' :
          Search!Followed(u, v6.docs[u])' \/ Search!Newest(u, v5.entries)'
    BY <1>0, <1>6, <1>7, <2>1
       DEF Search!IndexInv, Search!DocsInv, Search!Followed, Search!Newest
  <2> QED BY <1>0, <2>2, <2>3 DEF Search!IndexInv, Search!DocsInv, Search!Ids
<1>9. Search!NewestInv'
  <2>1. \A u \in IndexTender \ v9' :
          Search!Followed(u, v4[u])' \/ Search!Newest(u, v5.entries)'
    BY <1>0, <1>6, <1>7
       DEF Search!IndexInv, Search!NewestInv, Search!Followed, Search!Newest, Search!Tenders,
           IndexTender
  <2>2. \A u \in IndexTender : v8'[u] <= v1'[u]
    <3>1. \A u \in IndexTender : v8[u] <= v1[u] /\ v8[u] \in Nat /\ v1[u] \in Nat
      BY <1>0 DEF Search!IndexInv, Search!NewestInv, Search!Tenders, IndexTender, IndexVersion
    <3> QED BY <1>1, <1>4, <3>1
  <2>3. \A e \in Search!Range(v2') \cup Search!Range(v5'.entries) : e.version <= v1'[e.tender]
    <3>1. ASSUME NEW e \in Search!Range(v2) \cup Search!Range(v5.entries)
          PROVE  e.version <= v1'[e.tender]
      <4>1. e \in IndexEntry /\ e.version <= v1[e.tender]
        <5>1. /\ DOMAIN v2 = 1..Len(v2) /\ \A i \in 1..Len(v2) : v2[i] \in IndexEntry
          BY <1>0, LenProperties
        <5>2. v5.entries \in Seq(IndexEntry)
          BY <1>0 DEF IndexFollower
        <5>3. /\ DOMAIN v5.entries = 1..Len(v5.entries)
              /\ \A i \in 1..Len(v5.entries) : v5.entries[i] \in IndexEntry
          BY <5>2, LenProperties
        <5> QED BY <3>1, <5>1, <5>3 DEF Search!IndexInv, Search!NewestInv, Search!Range
      <4>2. e.tender \in IndexTender /\ e.version \in Nat /\ v1[e.tender] \in Nat
        BY <1>0, <4>1 DEF IndexEntry, IndexVersion
      <4> QED BY <1>1, <4>1, <4>2
    <3>2. new.version <= v1'[new.tender]
      <4>1. v1[t] + 1 \in Nat
        BY <1>0 DEF IndexVersion
      <4> QED BY <1>1, <1>3, <4>1
    <3> QED BY <1>0, <1>4, <3>1, <3>2
  <2> QED BY <2>1, <2>2, <2>3 DEF Search!NewestInv, Search!Tenders, IndexTender
<1> QED BY <1>5, <1>8, <1>9 DEF Search!IndexInv

\* The entries of a sequence of entries are entries.
LEMMA EntriesAreEntries ==
  \A s \in Seq(IndexEntry) : Search!Range(s) \subseteq IndexEntry
<1> TAKE s \in Seq(IndexEntry)
<1>1. DOMAIN s = 1..Len(s) /\ \A i \in 1..Len(s) : s[i] \in IndexEntry
  BY LenProperties
<1> QED BY <1>1 DEF Search!Range

\* The group is created, or takes entries into the follower's hand.
LEMMA IndexTakes ==
  ASSUME Search!IndexInv, Search!Join \/ Search!Take PROVE Search!IndexInv'
<1>0. Search!TypeOK /\ UNCHANGED <<v1, v4, v6, v7, v8, v9>>
  BY DEF Search!IndexInv, Search!Join, Search!Take
<1>1. /\ v5' \in IndexFollower /\ Len(v5'.entries) <= IndexBatch /\ v2' \in Seq(IndexEntry)
      /\ Search!Range(v2) \cup Search!Range(v5.entries)
           = Search!Range(v2') \cup Search!Range(v5'.entries)
      /\ Search!Range(v2') \subseteq Search!Range(v2)
      /\ Search!Range(v5.entries) \subseteq Search!Range(v5'.entries)
      /\ (v5' = v5 /\ v2' = v2) \/ (v5'.phase = "taken" /\ v5'.docs = Search!NoDocs)
  <2>1. CASE Search!Join
    BY <1>0, <2>1, IndexTypes DEF Search!Join
  <2>2. CASE Search!Take
    <3>1. PICK n \in 1..Search!Min({IndexBatch, Len(v2)}) :
            /\ v5' = [Search!Idle EXCEPT !.phase = "taken", !.entries = SubSeq(v2, 1, n)]
            /\ v2' = SubSeq(v2, n + 1, Len(v2))
      BY <2>2 DEF Search!Take, Search!Entries
    <3>2. v5.entries = << >> /\ v2 \in Seq(IndexEntry)
      BY <1>0, <2>2, IndexTypes DEF Search!IndexInv, Search!DocsInv, Search!Take
    <3> DEFINE a == SubSeq(v2, 1, n)
    <3>3. /\ a \in Seq(IndexEntry) /\ Len(a) <= IndexBatch /\ v2' \in Seq(IndexEntry)
          /\ Search!Range(v2) = Search!Range(a) \cup Search!Range(v2')
      BY <3>1, <3>2, StreamSplits
    <3> HIDE DEF a
    <3>4. v5' = [phase |-> "taken", entries |-> a, docs |-> Search!NoDocs]
      BY <3>1 DEF Search!Idle, a
    <3>5. v5' \in IndexFollower /\ v5'.entries = a /\ v5'.phase = "taken" /\ v5'.docs = Search!NoDocs
      BY <3>3, <3>4, EmptyHands DEF IndexFollower
    <3> QED BY <3>2, <3>3, <3>5, EmptyHands
  <2> QED BY <2>1, <2>2
<1>2. Search!TypeOK'
  <2>1. v3' \in BOOLEAN
    BY <1>0, IndexTypes DEF Search!Join, Search!Take
  <2> QED BY <1>0, <1>1, <2>1, IndexTypes, IndexTypesAfter
<1>3. ASSUME NEW t, NEW held, Search!Followed(t, held) \/ Search!Newest(t, v5.entries)
      PROVE  held = v1'[t] \/ v8'[t] = v1'[t]
             \/ [tender |-> t, version |-> v1'[t]] \in Search!Range(v2')
             \/ [tender |-> t, version |-> v1'[t]] \in Search!Range(v5'.entries)
  BY <1>0, <1>1, <1>3 DEF Search!Followed, Search!Newest
<1>4. Search!DocsInv'
  <2>1. CASE v5' = v5 /\ v2' = v2
    BY <1>0, <2>1
       DEF Search!IndexInv, Search!DocsInv, Search!Followed, Search!Newest, Search!Ids
  <2>2. CASE v5'.phase = "taken" /\ v5'.docs = Search!NoDocs
    <3>1. \A t \in DOMAIN v6'.docs \ v9' :
            Search!Followed(t, v6.docs[t])' \/ Search!Newest(t, v5.entries)'
      BY <1>0, <1>3 DEF Search!IndexInv, Search!DocsInv, Search!Followed, Search!Newest
    <3>2. v6'.phase # "read" => v6'.docs = Search!NoDocs
      BY <1>0 DEF Search!IndexInv, Search!DocsInv
    <3>3. DOMAIN v5'.docs = {}
      BY <2>2, EmptyHands
    <3> QED BY <1>0, <2>2, <3>1, <3>2, <3>3 DEF Search!DocsInv, Search!NoDocs
  <2> QED BY <1>1, <2>1, <2>2
<1>5. Search!NewestInv'
  <2>1. \A t \in IndexTender \ v9' : Search!Followed(t, v4[t])' \/ Search!Newest(t, v5.entries)'
    BY <1>0, <1>3
       DEF Search!IndexInv, Search!NewestInv, Search!Followed, Search!Newest, Search!Tenders,
           IndexTender
  <2> QED BY <1>0, <1>1, <2>1 DEF Search!IndexInv, Search!NewestInv, Search!Tenders, IndexTender
<1> QED BY <1>2, <1>4, <1>5 DEF Search!IndexInv

\* The reply is lost, or the follower dies: its entries are missed.
LEMMA IndexLoses ==
  ASSUME Search!IndexInv, Search!LoseReply \/ Search!FollowerDies PROVE Search!IndexInv'
<1>0. Search!TypeOK /\ UNCHANGED <<v1, v3, v4, v6, v9>> /\ v7' = v7 + 1 /\ v7 < IndexDeaths
  BY DEF Search!IndexInv, Search!LoseReply, Search!FollowerDies
<1>1. /\ v5 \in IndexFollower /\ v5.entries \in Seq(IndexEntry) /\ v2 \in Seq(IndexEntry)
      /\ v7' \in 0..IndexDeaths
      /\ \A t \in IndexTender : v8[t] <= v1[t]
      /\ \A e \in Search!Range(v2) \cup Search!Range(v5.entries) : e.version <= v1[e.tender]
  <2>1. v7' \in 0..IndexDeaths
    BY <1>0, IndexTypes, CorpusAssumption
  <2>2. v5 \in IndexFollower /\ v2 \in Seq(IndexEntry)
    BY <1>0, IndexTypes
  <2>3. v5.entries \in Seq(IndexEntry)
    BY <2>2 DEF IndexFollower
  <2> QED BY <2>1, <2>2, <2>3
          DEF Search!IndexInv, Search!NewestInv, Search!Tenders, IndexTender
<1>2. PICK lost \in Seq(IndexEntry) :
        /\ v2' \in Seq(IndexEntry) /\ v5' = Search!Idle
        /\ v8' = Search!Missing(lost, IndexTender)
        /\ Search!Range(v2) \cup Search!Range(v5.entries)
             = Search!Range(v2') \cup Search!Range(lost)
        /\ Search!Range(v2') \subseteq Search!Range(v2)
  <2>1. CASE Search!LoseReply
    <3>1. PICK n \in 1..Search!Min({IndexBatch, Len(v2)}) :
            /\ v8' = Search!Missing(SubSeq(v2, 1, n), IndexTender)
            /\ v2' = SubSeq(v2, n + 1, Len(v2))
      BY <2>1 DEF Search!LoseReply, Search!Entries, Search!Tenders, IndexTender
    <3>2. v5.entries = << >> /\ v5' = v5 /\ v5.phase = "idle" /\ v5.docs = Search!NoDocs
      BY <2>1 DEF Search!IndexInv, Search!DocsInv, Search!LoseReply
    <3>3. v5' = Search!Idle
      BY <1>1, <3>2 DEF IndexFollower, Search!Idle
    <3>4. /\ SubSeq(v2, 1, n) \in Seq(IndexEntry) /\ v2' \in Seq(IndexEntry)
          /\ Search!Range(v2) = Search!Range(SubSeq(v2, 1, n)) \cup Search!Range(v2')
      BY <1>1, <3>1, StreamSplits
    <3> QED BY <3>1, <3>2, <3>3, <3>4, EmptyHands
  <2>2. CASE Search!FollowerDies
    BY <1>1, <2>2 DEF Search!FollowerDies, Search!Tenders, IndexTender
  <2> QED BY <2>1, <2>2
<1>3. /\ v8' \in [IndexTender -> IndexVersion]
      /\ \A t \in IndexTender :
           /\ v8'[t] <= v1[t] /\ (v8[t] = v1[t] => v8'[t] = v1[t])
           /\ (Search!Newest(t, lost) => v8'[t] = v1[t])
  <2>1. \A e \in Search!Range(lost) : e.version <= v1[e.tender]
    BY <1>1, <1>2
  <2> QED BY <1>0, <1>1, <1>2, <2>1, MissedWithEntries
<1>4. Search!TypeOK'
  BY <1>0, <1>1, <1>2, <1>3, IndexTypes, IndexTypesAfter, EmptyHands
<1>5. ASSUME NEW t \in IndexTender, NEW held,
             Search!Followed(t, held) \/ Search!Newest(t, v5.entries)
      PROVE  held = v1'[t] \/ v8'[t] = v1'[t]
             \/ [tender |-> t, version |-> v1'[t]] \in Search!Range(v2')
  BY <1>0, <1>2, <1>3, <1>5 DEF Search!Followed, Search!Newest
<1>6. Search!DocsInv'
  <2>1. DOMAIN v6.docs \subseteq IndexTender
    BY <1>0, IndexTypes, DocsAreVersions DEF IndexBulk
  <2>2. \A t \in DOMAIN v6'.docs \ v9' : Search!Followed(t, v6.docs[t])'
    BY <1>0, <1>5, <2>1 DEF Search!IndexInv, Search!DocsInv, Search!Followed, Search!Newest
  <2> QED BY <1>0, <1>2, <2>2, EmptyHands DEF Search!IndexInv, Search!DocsInv
<1>7. Search!NewestInv'
  <2>1. \A t \in IndexTender \ v9' : Search!Followed(t, v4[t])'
    BY <1>0, <1>5
       DEF Search!IndexInv, Search!NewestInv, Search!Followed, Search!Newest, Search!Tenders,
           IndexTender
  <2>2. Search!Range(v5'.entries) = {}
    BY <1>2, EmptyHands
  <2> QED BY <1>0, <1>1, <1>2, <1>3, <2>1, <2>2 DEF Search!NewestInv, Search!Tenders, IndexTender
<1> QED BY <1>4, <1>6, <1>7 DEF Search!IndexInv

\* The follower fetches the rows of its entries.
LEMMA IndexFetches ==
  ASSUME Search!IndexInv, Search!Fetch PROVE Search!IndexInv'
<1>0. Search!TypeOK /\ UNCHANGED <<v1, v2, v3, v4, v6, v7, v8>> /\ v5.phase = "taken"
  BY DEF Search!IndexInv, Search!Fetch
<1> DEFINE docs == [t \in Search!Ids(v5.entries) |-> v1[t]]
<1>1. /\ v5' = [v5 EXCEPT !.phase = "read", !.docs = docs]
      /\ v9' = v9 \cup (DOMAIN docs \cap DOMAIN v6.docs)
  BY DEF Search!Fetch
<1>2. v5 \in IndexFollower /\ v5.entries \in Seq(IndexEntry) /\ v6 \in IndexBulk
  BY <1>0, IndexTypes DEF IndexFollower
<1>3. /\ DOMAIN docs = Search!Ids(v5.entries) /\ docs \in IndexDocs
      /\ \A t \in DOMAIN docs : docs[t] = v1[t]
  <2>1. Search!Ids(v5.entries) \subseteq IndexTender
    BY <1>2, EntriesAreEntries DEF Search!Ids, IndexEntry
  <2>2. \A t \in IndexTender : v1[t] \in IndexVersion
    BY <1>0, IndexTypes
  <2> QED BY <2>1, <2>2, DocsAreVersions
<1> HIDE DEF docs
<1>4. /\ v5'.phase = "read" /\ v5'.entries = v5.entries /\ v5'.docs = docs
      /\ v5' \in IndexFollower /\ Len(v5'.entries) <= IndexBatch
  <2>1. v5'.phase = "read" /\ v5'.entries = v5.entries /\ v5'.docs = docs /\ v5' \in IndexFollower
    BY <1>1, <1>2, <1>3 DEF IndexFollower
  <2> QED BY <1>0, <2>1, IndexTypes
<1>5. Search!TypeOK'
  <2>1. DOMAIN v6.docs \subseteq IndexTender
    BY <1>2, DocsAreVersions DEF IndexBulk
  <2>2. v9' \subseteq IndexTender
    BY <1>0, <1>1, <2>1, IndexTypes
  <2> QED BY <1>0, <1>4, <2>2, IndexTypes, IndexTypesAfter
<1>6. Search!DocsInv'
  <2>1. DOMAIN v5'.docs \cap DOMAIN v6'.docs \subseteq v9'
    BY <1>0, <1>1, <1>4
  <2>2. \A t \in DOMAIN v5'.docs : Search!Followed(t, v5.docs[t])'
    BY <1>0, <1>3, <1>4 DEF Search!Followed
  <2>3. DOMAIN v5'.docs = Search!Ids(v5.entries)'
    BY <1>3, <1>4 DEF Search!Ids
  <2>4. \A t \in DOMAIN v6'.docs \ v9' :
          Search!Followed(t, v6.docs[t])' \/ Search!Newest(t, v5.entries)'
    BY <1>0, <1>1, <1>4
       DEF Search!IndexInv, Search!DocsInv, Search!Followed, Search!Newest
  <2> QED BY <1>0, <1>4, <2>1, <2>2, <2>3, <2>4 DEF Search!IndexInv, Search!DocsInv
<1>7. Search!NewestInv'
  BY <1>0, <1>1, <1>4
     DEF Search!IndexInv, Search!NewestInv, Search!Followed, Search!Newest
<1> QED BY <1>5, <1>6, <1>7 DEF Search!IndexInv

\* The follower stores its documents, except those that the server refuses.
LEMMA IndexStores ==
  ASSUME Search!IndexInv, NEW refused, Search!Upsert(refused) PROVE Search!IndexInv'
<1>0. Search!TypeOK /\ UNCHANGED <<v1, v2, v3, v6, v9>> /\ v5' = Search!Idle
      /\ v5.phase = "read" /\ refused \subseteq DOMAIN v5.docs
      /\ v4' = Search!Stored(v5.docs, refused) /\ v8' = Search!Missing(v5.entries, refused)
  BY DEF Search!IndexInv, Search!Upsert
<1>1. v5 \in IndexFollower /\ v5.entries \in Seq(IndexEntry) /\ v5.docs \in IndexDocs
  BY <1>0, IndexTypes DEF IndexFollower
<1>2. v7' \in 0..IndexDeaths
  <2>1. v7 \in Nat /\ IndexDeaths \in Nat
    BY <1>0, IndexTypes, CorpusAssumption
  <2>2. PICK d \in {0, 1} : v7' = v7 + d /\ v7 + d <= IndexDeaths
    BY DEF Search!Upsert
  <2> QED BY <2>1, <2>2
<1>3. /\ v8' \in [IndexTender -> IndexVersion]
      /\ \A t \in IndexTender :
           /\ v8'[t] <= v1[t] /\ (v8[t] = v1[t] => v8'[t] = v1[t])
           /\ (t \in refused /\ Search!Newest(t, v5.entries) => v8'[t] = v1[t])
  <2>1. \A t \in IndexTender : v8[t] <= v1[t]
    BY DEF Search!IndexInv, Search!NewestInv, Search!Tenders, IndexTender
  <2>2. \A e \in Search!Range(v5.entries) : e.version <= v1[e.tender]
    BY DEF Search!IndexInv, Search!NewestInv
  <2> QED BY <1>0, <1>1, <2>1, <2>2, MissedWithEntries
<1>4. /\ v4' \in [IndexTender -> IndexVersion]
      /\ \A t \in IndexTender :
           v4'[t] = IF t \in DOMAIN v5.docs \ refused THEN v5.docs[t] ELSE v4[t]
  <2>1. v4' = [t \in IndexTender |-> IF t \in DOMAIN v5.docs \ refused THEN v5.docs[t] ELSE v4[t]]
    BY <1>0 DEF Search!Stored, Search!Tenders, IndexTender
  <2>2. \A t \in IndexTender : v4[t] \in IndexVersion
    BY <1>0, IndexTypes
  <2>3. \A t \in DOMAIN v5.docs : v5.docs[t] \in IndexVersion
    BY <1>1, DocsAreVersions
  <2> QED BY <2>1, <2>2, <2>3
<1>5. Search!TypeOK'
  BY <1>0, <1>2, <1>3, <1>4, IndexTypes, IndexTypesAfter, EmptyHands
<1>6. ASSUME NEW t \in IndexTender, NEW held, Search!Followed(t, held)
      PROVE  Search!Followed(t, held)' \/ held = v1'[t] \/ v8'[t] = v1'[t]
             \/ [tender |-> t, version |-> v1'[t]] \in Search!Range(v2')
  BY <1>0, <1>3, <1>6 DEF Search!Followed, Search!Newest
<1>7. \A t \in IndexTender : Search!Newest(t, v5.entries) => t \in DOMAIN v5.docs
  BY <1>0 DEF Search!IndexInv, Search!DocsInv, Search!Newest, Search!Ids
<1>8. Search!DocsInv'
  <2>1. DOMAIN v6.docs \subseteq IndexTender
    BY <1>0, IndexTypes, DocsAreVersions DEF IndexBulk
  <2>2. \A t \in DOMAIN v6'.docs \ v9' : Search!Followed(t, v6.docs[t])'
    <3> SUFFICES ASSUME NEW t \in DOMAIN v6.docs \ v9
                 PROVE  v6.docs[t] = v1'[t] \/ v8'[t] = v1'[t]
                        \/ [tender |-> t, version |-> v1'[t]] \in Search!Range(v2')
      BY <1>0 DEF Search!Followed, Search!Newest
    <3>1. ~Search!Newest(t, v5.entries)
      BY <1>7, <2>1 DEF Search!IndexInv, Search!DocsInv
    <3>2. Search!Followed(t, v6.docs[t])
      BY <3>1 DEF Search!IndexInv, Search!DocsInv
    <3> QED BY <1>0, <1>3, <2>1, <3>2 DEF Search!Followed, Search!Newest
  <2> QED BY <1>0, <2>2, EmptyHands DEF Search!IndexInv, Search!DocsInv
<1>9. Search!NewestInv'
  <2>1. ASSUME NEW t \in IndexTender \ v9
        PROVE  v4'[t] = v1'[t] \/ v8'[t] = v1'[t]
               \/ [tender |-> t, version |-> v1'[t]] \in Search!Range(v2')
    <3>1. CASE t \in DOMAIN v5.docs \ refused
      <4>1. Search!Followed(t, v5.docs[t]) /\ v4'[t] = v5.docs[t]
        BY <1>4, <3>1 DEF Search!IndexInv, Search!DocsInv
      <4> QED BY <1>0, <1>3, <4>1 DEF Search!Followed, Search!Newest
    <3>2. CASE t \notin DOMAIN v5.docs \ refused
      <4>1. v4'[t] = v4[t] /\ (Search!Followed(t, v4[t]) \/ Search!Newest(t, v5.entries))
        BY <1>4, <3>2
           DEF Search!IndexInv, Search!NewestInv, Search!Tenders, IndexTender
      <4>2. Search!Newest(t, v5.entries) => t \in refused
        BY <1>7, <3>2
      <4> QED BY <1>0, <1>3, <4>1, <4>2 DEF Search!Followed, Search!Newest
    <3> QED BY <3>1, <3>2
  <2>2. Search!Range(v5'.entries) = {}
    BY <1>0, EmptyHands
  <2>3. \A e \in Search!Range(v2') : e.version <= v1'[e.tender]
    BY <1>0 DEF Search!IndexInv, Search!NewestInv
  <2> QED BY <1>0, <1>3, <2>1, <2>2, <2>3
          DEF Search!NewestInv, Search!Followed, Search!Newest, Search!Tenders, IndexTender
<1> QED BY <1>5, <1>8, <1>9 DEF Search!IndexInv

\* The bulk run starts, fetches a batch, or ends.
LEMMA IndexBulkReads ==
  ASSUME Search!IndexInv, Search!BulkStart \/ Search!BulkFetch \/ Search!BulkDies
  PROVE  Search!IndexInv'
<1>0. Search!TypeOK /\ UNCHANGED <<v1, v2, v3, v4, v5, v7, v8>>
  BY DEF Search!IndexInv, Search!BulkStart, Search!BulkFetch, Search!BulkDies
<1>1. /\ v6' \in IndexBulk /\ v9 \subseteq v9' /\ v9' \subseteq IndexTender
      /\ DOMAIN v5.docs \cap DOMAIN v6'.docs \subseteq v9'
      /\ \A t \in DOMAIN v6'.docs : v6'.docs[t] = v1[t]
      /\ v6'.phase # "read" => v6'.docs = Search!NoDocs
  <2>1. CASE v6' = Search!Off \/ v6' = [Search!Off EXCEPT !.phase = "ready"]
    <3>1. v6' \in IndexBulk /\ v6'.docs = Search!NoDocs
      <4>1. Search!NoDocs \in IndexDocs /\ 0 \in 0..IndexedRows
        BY EmptyHands, CorpusAssumption
      <4> QED BY <2>1, <4>1 DEF Search!Off, IndexBulk
    <3>2. v9 \subseteq v9' /\ v9' \subseteq IndexTender
      <4>1. v9 \subseteq IndexTender /\ Search!NextRows \subseteq IndexTender
        BY <1>0, IndexTypes DEF Search!NextRows, Search!After, Search!Tenders, IndexTender
      <4> QED BY <4>1 DEF Search!BulkStart, Search!BulkFetch, Search!BulkDies
    <3> QED BY <3>1, <3>2, EmptyHands
  <2>2. CASE Search!BulkFetch /\ Search!NextRows # {}
    <3> DEFINE rows == Search!NextRows
               docs == [t \in rows |-> v1[t]]
    <3>1. /\ v6' = [phase |-> "read", last |-> Search!Max(rows), docs |-> docs]
          /\ v9' = v9 \cup (rows \cap DOMAIN v5.docs)
      BY <2>2 DEF Search!BulkFetch
    <3>2. rows \subseteq IndexTender
      BY DEF Search!NextRows, Search!After, Search!Tenders, IndexTender
    <3> HIDE DEF rows
    <3>3. Search!Max(rows) \in 0..IndexedRows
      <4>1. rows \subseteq 0..IndexedRows /\ rows # {} /\ IndexedRows \in Nat
        BY <2>2, <3>2, CorpusAssumption DEF IndexTender, rows
      <4>2. \E x \in rows : \A y \in rows : y <= x
        BY <4>1, LargestExists
      <4>3. \E x \in rows : \A y \in rows : x >= y
        BY <4>1, <4>2
      <4>4. Search!Max(rows) \in rows
        BY <4>3 DEF Search!Max
      <4> QED BY <4>1, <4>4
    <3>4. DOMAIN docs = rows /\ docs \in IndexDocs /\ \A t \in DOMAIN docs : docs[t] = v1[t]
      <4>1. \A t \in IndexTender : v1[t] \in IndexVersion
        BY <1>0, IndexTypes
      <4> QED BY <3>2, <4>1, DocsAreVersions
    <3> HIDE DEF docs
    <3>5. v6' \in IndexBulk /\ v6'.docs = docs /\ v6'.phase = "read"
      BY <3>1, <3>3, <3>4 DEF IndexBulk
    <3>6. v9 \subseteq IndexTender
      BY <1>0, IndexTypes
    <3> QED BY <3>1, <3>2, <3>4, <3>5, <3>6
  <2> QED BY <2>1, <2>2 DEF Search!BulkStart, Search!BulkFetch, Search!BulkDies
<1>2. Search!TypeOK'
  BY <1>0, <1>1, IndexTypes, IndexTypesAfter
<1>3. Search!DocsInv'
  <2>1. \A t \in DOMAIN v6'.docs \ v9' :
          Search!Followed(t, v6.docs[t])' \/ Search!Newest(t, v5.entries)'
    BY <1>0, <1>1 DEF Search!Followed
  <2> QED BY <1>0, <1>1, <2>1
          DEF Search!IndexInv, Search!DocsInv, Search!Followed, Search!Newest, Search!Ids,
              Search!NoDocs
<1>4. Search!NewestInv'
  BY <1>0, <1>1 DEF Search!IndexInv, Search!NewestInv, Search!Followed, Search!Newest
<1> QED BY <1>2, <1>3, <1>4 DEF Search!IndexInv

\* The bulk run stores its batch.
LEMMA IndexBulkStores ==
  ASSUME Search!IndexInv, NEW refused, Search!BulkUpsert(refused) PROVE Search!IndexInv'
<1>0. Search!TypeOK /\ UNCHANGED <<v1, v2, v3, v5, v7, v8, v9>>
      /\ v4' = Search!Stored(v6.docs, refused)
      /\ v6' = [v6 EXCEPT !.phase = "ready", !.docs = Search!NoDocs]
  BY DEF Search!IndexInv, Search!BulkUpsert
<1>1. v6 \in IndexBulk /\ v6.docs \in IndexDocs
  BY <1>0, IndexTypes DEF IndexBulk
<1>2. v6' \in IndexBulk /\ v6'.docs = Search!NoDocs
  BY <1>0, <1>1, EmptyHands DEF IndexBulk
<1>3. /\ v4' \in [IndexTender -> IndexVersion]
      /\ \A t \in IndexTender :
           v4'[t] = IF t \in DOMAIN v6.docs \ refused THEN v6.docs[t] ELSE v4[t]
  <2>1. v4' = [t \in IndexTender |-> IF t \in DOMAIN v6.docs \ refused THEN v6.docs[t] ELSE v4[t]]
    BY <1>0 DEF Search!Stored, Search!Tenders, IndexTender
  <2>2. \A t \in IndexTender : v4[t] \in IndexVersion
    BY <1>0, IndexTypes
  <2>3. \A t \in DOMAIN v6.docs : v6.docs[t] \in IndexVersion
    BY <1>1, DocsAreVersions
  <2> QED BY <2>1, <2>2, <2>3
<1>4. Search!TypeOK'
  BY <1>0, <1>2, <1>3, IndexTypes, IndexTypesAfter
<1>5. Search!DocsInv'
  BY <1>0, <1>2, EmptyHands
     DEF Search!IndexInv, Search!DocsInv, Search!Followed, Search!Newest, Search!Ids
<1>6. Search!NewestInv'
  <2>1. ASSUME NEW t \in IndexTender \ v9
        PROVE  Search!Followed(t, v4'[t]) \/ Search!Newest(t, v5.entries)
    <3>1. CASE t \in DOMAIN v6.docs \ refused
      BY <1>3, <3>1 DEF Search!IndexInv, Search!DocsInv
    <3>2. CASE t \notin DOMAIN v6.docs \ refused
      BY <1>3, <3>2 DEF Search!IndexInv, Search!NewestInv, Search!Tenders, IndexTender
    <3> QED BY <3>1, <3>2
  <2> QED BY <1>0, <2>1
          DEF Search!IndexInv, Search!NewestInv, Search!Followed, Search!Newest, Search!Tenders,
              IndexTender
<1> QED BY <1>4, <1>5, <1>6 DEF Search!IndexInv

\* Every step.
LEMMA IndexStep ==
  ASSUME Search!IndexInv, Search!Next \/ UNCHANGED Search!vars PROVE Search!IndexInv'
<1>1. CASE \E t \in IndexTender : Search!Announced(t) \/ Search!Silent(t)
  BY <1>1, IndexChanges
<1>2. CASE \E refused \in SUBSET IndexTender : Search!Upsert(refused) \/ Search!BulkUpsert(refused)
  BY <1>2, IndexStores, IndexBulkStores
<1>3. CASE UNCHANGED Search!vars
  <2>1. UNCHANGED <<v1, v2, v3, v4, v5, v6, v7, v8, v9>>
    BY <1>3 DEF Search!vars
  <2>2. Search!TypeOK'
    BY <2>1, IndexTypes, IndexTypesAfter DEF Search!IndexInv
  <2>3. Search!DocsInv' /\ Search!NewestInv'
    BY <2>1 DEF Search!IndexInv, Search!DocsInv, Search!NewestInv, Search!Followed,
                Search!Newest, Search!Ids
  <2> QED BY <2>2, <2>3 DEF Search!IndexInv
<1> QED BY <1>1, <1>2, <1>3, IndexTakes, IndexLoses, IndexFetches, IndexBulkReads
        DEF Search!Next, Search!Tenders, IndexTender

\* The index follows the rows.
LEMMA IndexFollows == ASSUME Search!IndexInv PROVE Search!IndexIsCurrent
<1> SUFFICES ASSUME NEW t \in IndexTender \ v9
             PROVE  v4[t] = v1[t] \/ v8[t] = v1[t] \/ t \in Search!Underway
  BY DEF Search!IndexIsCurrent, Search!Tenders, IndexTender
<1>1. Search!Newest(t, v2) \/ Search!Newest(t, v5.entries) => t \in Search!Underway
  <2> DEFINE e == [tender |-> t, version |-> v1[t]]
  <2>1. e.tender = t
    OBVIOUS
  <2>2. Search!Newest(t, v2) \/ Search!Newest(t, v5.entries)
          => e \in Search!Range(v2) \cup Search!Range(v5.entries)
    BY DEF Search!Newest
  <2> HIDE DEF e
  <2> QED BY <2>1, <2>2 DEF Search!Underway
<1> QED BY <1>1
        DEF Search!IndexInv, Search!NewestInv, Search!Followed, Search!Tenders, IndexTender

-----------------------------------------------------------------------------
(***************************************************************************)
(* SchemaMigrations: recorded with its statements, executed in its turn.   *)
(* v1 .. v8 are directory, executed, recorded, runner, runs, baselined,    *)
(* together and late.                                                      *)
(***************************************************************************)
SchemaRunners == [mode : {"off", "apply", "baseline"}, todo : SUBSET SchemaFiles]

\* The initial states.
LEMMA SchemaInit == ASSUME Schema!Init PROVE Schema!SchemaInv
<1>1. v4 \in [Pair -> SchemaRunners] /\ \A r \in Pair : v4[r] = Schema!Off
  BY DEF Schema!Init, Schema!Off, SchemaRunners
<1>2. v2 = << >> /\ DOMAIN v2 = {} /\ v2 \in Seq(SchemaFiles) /\ v5 \in 0..SchemaRuns
  BY CorpusAssumption DEF Schema!Init
<1>3. Schema!TypeOK
  <2>1. v7 \in BOOLEAN
    BY DEF Schema!Init
  <2> QED BY <1>1, <1>2, <2>1 DEF Schema!Init, Schema!TypeOK, Schema!Modes, SchemaRunners
<1>4. Schema!Listed /\ Schema!InTurn
  BY <1>1 DEF Schema!Init, Schema!Off, Schema!Listed, Schema!InTurn, Schema!Running
<1>5. Schema!RecordedIffCommitted /\ Schema!ExecutedOnceInOrder
  BY <1>2 DEF Schema!Init, Schema!RecordedIffCommitted, Schema!ExecutedOnceInOrder, Schema!Range
<1> QED BY <1>3, <1>4, <1>5 DEF Schema!SchemaInv

\* A deployment: a file that comes after a later one is called late.
LEMMA SchemaDeploy ==
  ASSUME Schema!SchemaInv, NEW file \in SchemaFiles, Schema!Deploy(file)
  PROVE  Schema!SchemaInv'
<1>0. Schema!TypeOK /\ v4 \in [Pair -> SchemaRunners]
  BY DEF Schema!SchemaInv, Schema!TypeOK, Schema!Modes, SchemaRunners
<1>1. /\ v1' = v1 \cup {file} /\ file \notin v1 /\ v8 \subseteq v8' /\ v8' \subseteq v8 \cup {file}
      /\ UNCHANGED <<v2, v3, v4, v5, v6, v7>>
      /\ file \notin v8' => \A f \in v3 \cup UNION {v4[r].todo : r \in Pair} : ~(f > file)
  BY DEF Schema!Deploy
<1>2. Schema!TypeOK'
  BY <1>0, <1>1 DEF Schema!TypeOK, Schema!Modes, SchemaRunners
<1>3. Schema!Listed'
  BY <1>1 DEF Schema!SchemaInv, Schema!Listed
<1>4. Schema!InTurn'
  <2>0. v3 \subseteq v1 /\ \A r \in Pair : v4[r].todo \subseteq v1
    BY DEF Schema!SchemaInv, Schema!Listed
  <2>1. \A f \in v3 \cup UNION {v4[r].todo : r \in Pair} : f < file \/ file \in v8'
    <3> TAKE f \in v3 \cup UNION {v4[r].todo : r \in Pair}
    <3>1. f \in v1 /\ v1 \subseteq Nat /\ file \in Nat
      BY <1>0, <2>0, CorpusAssumption DEF Schema!TypeOK
    <3>2. f # file /\ (file \notin v8' => ~(f > file))
      BY <1>1, <3>1
    <3> QED BY <3>1, <3>2
  <2>2. Schema!Running' = Schema!Running
    BY <1>1 DEF Schema!Running
  <2> QED BY <1>1, <2>0, <2>1, <2>2 DEF Schema!SchemaInv, Schema!InTurn, Schema!Running
<1>5. Schema!RecordedIffCommitted' /\ Schema!ExecutedOnceInOrder'
  BY <1>1 DEF Schema!SchemaInv, Schema!RecordedIffCommitted, Schema!ExecutedOnceInOrder,
              Schema!Range
<1> QED BY <1>2, <1>3, <1>4, <1>5 DEF Schema!SchemaInv

\* A run starts or ends.
LEMMA SchemaStart ==
  ASSUME Schema!SchemaInv, NEW r \in Pair, NEW mode \in {"apply", "baseline"},
         Schema!Start(r, mode)
  PROVE  Schema!SchemaInv'
<1> DEFINE runner == v4  new == [mode |-> mode, todo |-> v1 \ v3]
<1>0. Schema!TypeOK /\ runner \in [Pair -> SchemaRunners]
  BY DEF Schema!SchemaInv, Schema!TypeOK, Schema!Modes, SchemaRunners
<1>1. /\ runner' = [runner EXCEPT ![r] = new] /\ runner[r].mode = "off"
      /\ v5 < SchemaRuns /\ v5' = v5 + 1
      /\ v7' = (v7 \/ Schema!Running # {}) /\ UNCHANGED <<v1, v2, v3, v6, v8>>
  BY DEF Schema!Start, Schema!Pending
<1>2. new \in SchemaRunners /\ new.mode # "off" /\ new.todo = v1 \ v3
  BY <1>0 DEF SchemaRunners, Schema!TypeOK
<1> HIDE DEF new
<1>3. /\ runner' \in [Pair -> SchemaRunners] /\ runner'[r] = new
      /\ \A s \in Pair : s # r => runner'[s] = runner[s]
  BY <1>0, <1>1, <1>2
<1>4. Schema!TypeOK'
  <2>1. v7' \in BOOLEAN
    BY <1>1
  <2> QED BY <1>0, <1>1, <1>3, <2>1, CorpusAssumption
          DEF Schema!TypeOK, Schema!Modes, SchemaRunners
<1>5. Schema!Listed'
  BY <1>1, <1>2, <1>3 DEF Schema!SchemaInv, Schema!Listed
<1>6. Schema!InTurn'
  <2> SUFFICES ASSUME ~v7' PROVE Schema!InTurn'
    BY DEF Schema!InTurn
  <2>1. ~v7 /\ Schema!Running = {}
    BY <1>1
  <2>2. Schema!Running' = {r}
    BY <1>2, <1>3, <2>1 DEF Schema!Running
  <2> QED BY <1>1, <1>2, <1>3, <2>1, <2>2 DEF Schema!SchemaInv, Schema!InTurn
<1>7. Schema!RecordedIffCommitted' /\ Schema!ExecutedOnceInOrder'
  BY <1>1 DEF Schema!SchemaInv, Schema!RecordedIffCommitted, Schema!ExecutedOnceInOrder,
              Schema!Range
<1> QED BY <1>4, <1>5, <1>6, <1>7 DEF Schema!SchemaInv

\* A run ends.
LEMMA SchemaEnd ==
  ASSUME Schema!SchemaInv, (\E r \in Pair : Schema!End(r)) \/ UNCHANGED Schema!vars
  PROVE  Schema!SchemaInv'
<1> DEFINE runner == v4
<1>0. Schema!TypeOK /\ runner \in [Pair -> SchemaRunners]
  BY DEF Schema!SchemaInv, Schema!TypeOK, Schema!Modes, SchemaRunners
<1>1. UNCHANGED <<v1, v2, v3, v5, v6, v7, v8>>
  BY DEF Schema!End, Schema!vars
<1>2. Schema!Off \in SchemaRunners /\ Schema!Off.todo = {} /\ Schema!Off.mode = "off"
  BY DEF Schema!Off, SchemaRunners
<1>3. /\ runner' \in [Pair -> SchemaRunners]
      /\ \A s \in Pair : runner'[s] = runner[s] \/ runner'[s] = Schema!Off
  <2>1. ASSUME NEW r \in Pair, Schema!End(r) PROVE runner' = [runner EXCEPT ![r] = Schema!Off]
    BY <2>1 DEF Schema!End
  <2> QED BY <1>0, <1>2, <2>1 DEF Schema!vars
<1>4. Schema!TypeOK'
  BY <1>0, <1>1, <1>3 DEF Schema!TypeOK, Schema!Modes, SchemaRunners
<1>5. Schema!Listed'
  BY <1>1, <1>2, <1>3 DEF Schema!SchemaInv, Schema!Listed
<1>6. Schema!InTurn'
  <2>1. Schema!Running' \subseteq Schema!Running
        /\ \A s \in Schema!Running' : runner'[s] = runner[s]
    BY <1>2, <1>3 DEF Schema!Running
  <2> QED BY <1>1, <2>1 DEF Schema!SchemaInv, Schema!InTurn
<1>7. Schema!RecordedIffCommitted' /\ Schema!ExecutedOnceInOrder'
  BY <1>1 DEF Schema!SchemaInv, Schema!RecordedIffCommitted, Schema!ExecutedOnceInOrder,
              Schema!Range
<1> QED BY <1>4, <1>5, <1>6, <1>7 DEF Schema!SchemaInv

\* A file is recorded, executed or not.
LEMMA SchemaRecord ==
  ASSUME Schema!SchemaInv, NEW r \in Pair, Schema!Apply(r) \/ Schema!Baseline(r)
  PROVE  Schema!SchemaInv'
<1> DEFINE runner == v4  todo == runner[r].todo  file == Schema!First(todo)
<1>0. /\ Schema!TypeOK /\ runner \in [Pair -> SchemaRunners] /\ todo # {}
      /\ todo \subseteq v1 /\ v1 \subseteq SchemaFiles /\ v3 \subseteq v1 /\ r \in Schema!Running
      /\ v1 \subseteq Nat /\ v2 \in Seq(SchemaFiles)
  BY CorpusAssumption
     DEF Schema!SchemaInv, Schema!TypeOK, Schema!Modes, SchemaRunners, Schema!Listed,
         Schema!Apply, Schema!Baseline, Schema!Running
<1>1. file \in todo /\ \A f \in todo : file <= f
  <2>1. \E x \in todo : \A y \in todo : x <= y
    BY <1>0, LeastExists
  <2> QED BY <2>1 DEF Schema!First
<1> DEFINE new == [runner[r] EXCEPT !.todo = todo \ {file}]
<1>2. new \in SchemaRunners /\ new.mode = runner[r].mode /\ new.todo = todo \ {file}
  BY <1>0 DEF SchemaRunners
<1>3. /\ v3' = v3 \cup {file} /\ runner' = [runner EXCEPT ![r] = new]
      /\ UNCHANGED <<v1, v5, v7, v8>>
  BY DEF Schema!Apply, Schema!Baseline, Schema!Done
<1>4. \/ v2' = Append(v2, file) /\ v6' = v6
      \/ v2' = v2 /\ v6' = v6 \cup {file}
  BY DEF Schema!Apply, Schema!Baseline
<1> HIDE DEF new, file
<1>5. /\ runner' \in [Pair -> SchemaRunners] /\ runner'[r] = new
      /\ \A s \in Pair : s # r => runner'[s] = runner[s]
  BY <1>0, <1>2, <1>3
<1>6. Schema!TypeOK'
  <2>0. file \in SchemaFiles /\ v6 \subseteq SchemaFiles
    BY <1>0, <1>1 DEF Schema!TypeOK
  <2>1. v6' \subseteq SchemaFiles
    BY <1>4, <2>0
  <2>2. v2' \in Seq(SchemaFiles)
    <3>1. v2 \in Seq(SchemaFiles) /\ Append(v2, file) \in Seq(SchemaFiles)
      BY <1>0, <2>0
    <3> QED BY <1>4, <3>1
  <2> QED BY <1>0, <1>1, <1>3, <1>5, <2>1, <2>2 DEF Schema!TypeOK, Schema!Modes, SchemaRunners
<1>7. Schema!Listed'
  BY <1>0, <1>1, <1>2, <1>3, <1>5 DEF Schema!SchemaInv, Schema!Listed
<1>8. Schema!RecordedIffCommitted'
  <2>1. v2' = Append(v2, file) => Schema!Range(v2)' = Schema!Range(v2) \cup {file}
    BY <1>0, <1>1 DEF Schema!Range
  <2>2. v2' = v2 => Schema!Range(v2)' = Schema!Range(v2)
    BY DEF Schema!Range
  <2> QED BY <1>3, <1>4, <2>1, <2>2 DEF Schema!SchemaInv, Schema!RecordedIffCommitted
<1>9. Schema!InTurn'
  <2> SUFFICES ASSUME ~v7 PROVE Schema!InTurn'
    BY <1>3 DEF Schema!InTurn
  <2>1. Schema!Running' = Schema!Running /\ Schema!Running = {r}
    BY <1>0, <1>2, <1>5 DEF Schema!Running, Schema!SchemaInv, Schema!InTurn
  <2>2. /\ todo \cap v3 = {}
        /\ \A f \in v3, g \in v1 \ v3 : f < g \/ g \in v8
        /\ \A f \in todo, g \in v1 \ (v3 \cup todo) : f < g \/ g \in v8
    BY <1>0 DEF Schema!SchemaInv, Schema!InTurn
  <2>3. \A g \in v1 \ (v3 \cup {file}) : file < g \/ g \in v8
    <3> TAKE g \in v1 \ (v3 \cup {file})
    <3>1. CASE g \in todo
      <4>1. file <= g /\ file # g /\ file \in Nat /\ g \in Nat
        BY <1>0, <1>1, <3>1
      <4> QED BY <4>1
    <3> QED BY <1>1, <2>2, <3>1
  <2> QED BY <1>1, <1>2, <1>3, <1>5, <2>1, <2>2, <2>3 DEF Schema!InTurn
<1>10. Schema!ExecutedOnceInOrder'
  <2> SUFFICES ASSUME ~v7, v2' = Append(v2, file), NEW i \in DOMAIN v2', NEW j \in DOMAIN v2', i < j
               PROVE  v2'[i] < v2'[j] \/ v2'[j] \in v8
    BY <1>3, <1>4 DEF Schema!SchemaInv, Schema!ExecutedOnceInOrder
  <2>1. /\ DOMAIN v2 = 1..Len(v2) /\ DOMAIN v2' = 1..(Len(v2) + 1) /\ Len(v2) \in Nat
        /\ v2'[Len(v2) + 1] = file /\ \A k \in 1..Len(v2) : v2'[k] = v2[k]
    BY <1>0, <1>1
  <2>2. CASE j \in DOMAIN v2
    <3>1. i \in DOMAIN v2 /\ v2'[i] = v2[i] /\ v2'[j] = v2[j]
      BY <2>1, <2>2
    <3> QED BY <2>2, <3>1 DEF Schema!SchemaInv, Schema!ExecutedOnceInOrder
  <2>3. CASE j \notin DOMAIN v2
    <3>1. i \in DOMAIN v2 /\ v2'[i] = v2[i] /\ v2'[j] = file
      BY <2>1, <2>3
    <3>2. v2[i] \in v3
      BY <3>1 DEF Schema!SchemaInv, Schema!RecordedIffCommitted, Schema!Range
    <3>3. /\ todo \cap v3 = {}
          /\ \A f \in v3, g \in v1 \ v3 : f < g \/ g \in v8
      BY <1>0 DEF Schema!SchemaInv, Schema!InTurn
    <3> QED BY <1>0, <1>1, <3>1, <3>2, <3>3
  <2> QED BY <2>2, <2>3
<1> QED BY <1>6, <1>7, <1>8, <1>9, <1>10 DEF Schema!SchemaInv

\* Every step.
LEMMA SchemaStep ==
  ASSUME Schema!SchemaInv, [Schema!Next]_(Schema!vars) PROVE Schema!SchemaInv'
BY SchemaDeploy, SchemaStart, SchemaEnd, SchemaRecord DEF Schema!Next

-----------------------------------------------------------------------------
(***************************************************************************)
(* ForsahPull: the events tell the changes of the row.  v1 .. v8 are       *)
(* source, row, pursued, events, pull, changes, overlapped and masked.     *)
(***************************************************************************)
ForsahRows == Forsah!Contents \cup {Forsah!NoRow}
ForsahEvents == [kind : Forsah!Kinds, from : Forsah!Unknown..ForsahBids,
                 to : Forsah!Unknown..ForsahBids]
ForsahPulls == [phase : {"idle", "page", "looked", "compared"}, content : ForsahRows,
                seen : ForsahRows, before : Forsah!Unknown..ForsahBids]

\* The types that the proofs use.
LEMMA ForsahTypes ==
  /\ Forsah!Idle \in ForsahPulls /\ Forsah!Idle.phase = "idle" /\ Forsah!Idle.seen = Forsah!NoRow
  /\ Forsah!NoRow \notin Forsah!Contents /\ Forsah!NoRow.status = "none"
  /\ \A c \in Forsah!Contents : c.status \in {"open", "awarded"} /\ c.bids \in Forsah!Unknown..ForsahBids
  /\ -1 \in Forsah!Unknown..ForsahBids /\ 0 \in Forsah!Unknown..ForsahBids
<1>1. -1 \in Forsah!Unknown..ForsahBids /\ 0 \in Forsah!Unknown..ForsahBids
  BY CorpusAssumption DEF Forsah!Unknown
<1> QED BY <1>1 DEF Forsah!Idle, ForsahPulls, ForsahRows, Forsah!NoRow, Forsah!Contents,
                Forsah!Statuses, Forsah!Unknown

\* The initial states.
LEMMA ForsahInit == ASSUME Forsah!Init PROVE Forsah!ForsahInv
<1>1. v1 \in Forsah!Contents
  BY ForsahTypes DEF Forsah!Init, Forsah!Contents, Forsah!Statuses, Forsah!Unknown
<1>2. v5 \in [Pair -> ForsahPulls] /\ \A p \in Pair : v5[p] = Forsah!Idle
  BY ForsahTypes DEF Forsah!Init
<1>3. v2 = Forsah!NoRow /\ v4 = << >> /\ v6 \in 0..ForsahChanges /\ Len(v4) = 0 /\ DOMAIN v4 = {}
  BY CorpusAssumption DEF Forsah!Init
<1>4. Forsah!TypeOK
  <2>1. v3 \in BOOLEAN
    BY DEF Forsah!Init
  <2>2. v7 \in BOOLEAN
    BY DEF Forsah!Init
  <2>3. v8 \in BOOLEAN
    BY DEF Forsah!Init
  <2>4. v4 \in Seq(ForsahEvents)
    BY <1>3
  <2> QED BY <1>1, <1>2, <1>3, <2>1, <2>2, <2>3, <2>4
          DEF Forsah!TypeOK, ForsahPulls, ForsahRows, ForsahEvents
<1>5. \A kind : Forsah!Of(kind) = {}
  BY <1>3 DEF Forsah!Of
<1>6. Forsah!InHand /\ Forsah!Alone
  BY <1>2, <1>3, <1>5, ForsahTypes DEF Forsah!InHand, Forsah!Alone
<1>7. Forsah!CreatedFirst /\ Forsah!AwardIsAnnounced /\ Forsah!RisesAddUp
  BY <1>3, <1>5, ForsahTypes
     DEF Forsah!CreatedFirst, Forsah!AwardIsAnnounced, Forsah!RisesAddUp
<1> QED BY <1>3, <1>4, <1>6, <1>7 DEF Forsah!ForsahInv

\* A step that stores no row and announces nothing: it may turn one pull into another that
\* is alone if no second one is at work.
LEMMA ForsahQuiet ==
  ASSUME Forsah!ForsahInv, Forsah!TypeOK', UNCHANGED <<v2, v4, v8>>,
         v7 => v7',
         \A p \in Pair :
           \/ v5'[p] = v5[p]
           \/ /\ v5'[p].phase # "idle" => v5'[p].content \in Forsah!Contents
              /\ v5'[p].seen # Forsah!NoRow => v2 # Forsah!NoRow
              /\ v5'[p].phase = "compared" => v2 # Forsah!NoRow /\ v5'[p].before = v2.bids
              /\ v5'[p].phase # "idle" /\ ~v7' => \A q \in Pair : q # p => v5'[q].phase = "idle"
  PROVE  Forsah!ForsahInv'
<1>1. Forsah!InHand'
  BY DEF Forsah!ForsahInv, Forsah!InHand
<1>2. Forsah!Of("tender.created")' = Forsah!Of("tender.created")
      /\ Forsah!Of("tender.awarded")' = Forsah!Of("tender.awarded")
      /\ Forsah!Of("competition.rising")' = Forsah!Of("competition.rising")
  BY DEF Forsah!Of
<1>3. Forsah!Alone'
  BY <1>2 DEF Forsah!ForsahInv, Forsah!Alone
<1>4. Forsah!CreatedFirst' /\ Forsah!AwardIsAnnounced' /\ Forsah!RisesAddUp'
  BY <1>2 DEF Forsah!ForsahInv, Forsah!CreatedFirst, Forsah!AwardIsAnnounced, Forsah!RisesAddUp
<1> QED BY <1>1, <1>3, <1>4 DEF Forsah!ForsahInv

\* A step of a pull that stores nothing.
LEMMA ForsahReads ==
  ASSUME Forsah!ForsahInv, NEW p \in Pair,
         \/ Forsah!Page(p) \/ Forsah!Look(p) \/ Forsah!Compare(p) \/ Forsah!Dies(p)
         \/ Forsah!Insert(p) /\ v2 # Forsah!NoRow
  PROVE  Forsah!ForsahInv'
<1> DEFINE row == v2  pull == v5
<1>0. /\ Forsah!TypeOK /\ pull \in [Pair -> ForsahPulls] /\ row \in ForsahRows
      /\ pull[p] \in ForsahPulls /\ v1 \in Forsah!Contents
  BY DEF Forsah!ForsahInv, Forsah!TypeOK, ForsahPulls, ForsahRows
<1>1. UNCHANGED <<v1, v2, v3, v4, v6, v8>>
  BY DEF Forsah!Page, Forsah!Look, Forsah!Compare, Forsah!Dies, Forsah!Insert
<1>2. /\ pull[p].phase # "idle" => pull[p].content \in Forsah!Contents
      /\ pull[p].seen # Forsah!NoRow => row # Forsah!NoRow
      /\ ~v7 /\ pull[p].phase # "idle" => \A q \in Pair : q # p => pull[q].phase = "idle"
  BY DEF Forsah!ForsahInv, Forsah!InHand, Forsah!Alone
<1> DEFINE Turns(r) ==
             /\ pull' = [pull EXCEPT ![p] = r]
             /\ r.phase # "idle" => r.content \in Forsah!Contents
             /\ r.seen # Forsah!NoRow => row # Forsah!NoRow
             /\ r.phase = "compared" => row # Forsah!NoRow /\ r.before = row.bids
             /\ r.phase # "idle" /\ ~v7' => \A q \in Pair : q # p => pull[q].phase = "idle"
<1>a. v7 => v7'
  BY DEF Forsah!Page, Forsah!Look, Forsah!Compare, Forsah!Dies, Forsah!Insert
<1>3. \E r \in ForsahPulls : Turns(r)
  <2>1. CASE Forsah!Page(p)
    <3> DEFINE r == [Forsah!Idle EXCEPT !.phase = "page", !.content = v1]
    <3>1. /\ r \in ForsahPulls /\ r.phase = "page" /\ r.content = v1 /\ r.seen = Forsah!NoRow
      BY <1>0, ForsahTypes DEF ForsahPulls, ForsahRows, Forsah!Idle
    <3>2. pull' = [pull EXCEPT ![p] = r] /\ v7' = (v7 \/ \E q \in Pair : pull[q].phase # "idle")
      BY <2>1 DEF Forsah!Page
    <3> HIDE DEF r
    <3> QED BY <1>0, <3>1, <3>2
  <2>2. CASE Forsah!Look(p)
    <3> DEFINE r == [pull[p] EXCEPT !.phase = "looked", !.seen = row]
    <3>1. r \in ForsahPulls /\ r.phase = "looked" /\ r.content = pull[p].content /\ r.seen = row
      BY <1>0 DEF ForsahPulls
    <3>2. /\ pull' = [pull EXCEPT ![p] = IF row = pull[p].content THEN Forsah!Idle ELSE r]
          /\ v7' = v7 /\ pull[p].phase # "idle"
      BY <1>0, <2>2 DEF Forsah!Look
    <3> HIDE DEF r
    <3> QED BY <1>2, <3>1, <3>2, ForsahTypes
  <2>3. CASE Forsah!Compare(p)
    <3> DEFINE r == [pull[p] EXCEPT !.phase = "compared", !.before = row.bids]
    <3>0. row # Forsah!NoRow /\ row.bids \in Forsah!Unknown..ForsahBids
      BY <1>0, <1>2, <2>3, ForsahTypes DEF Forsah!Compare, ForsahRows
    <3>1. /\ r \in ForsahPulls /\ r.phase = "compared" /\ r.content = pull[p].content
          /\ r.seen = pull[p].seen /\ r.before = row.bids
      BY <1>0, <3>0 DEF ForsahPulls
    <3>2. pull' = [pull EXCEPT ![p] = r] /\ v7' = v7 /\ pull[p].phase # "idle"
      BY <1>0, <2>3 DEF Forsah!Compare
    <3> HIDE DEF r
    <3> QED BY <1>2, <3>0, <3>1, <3>2
  <2>4. CASE Forsah!Dies(p) \/ (Forsah!Insert(p) /\ row # Forsah!NoRow)
    <3>1. pull' = [pull EXCEPT ![p] = Forsah!Idle] /\ v7' = v7
      BY <2>4 DEF Forsah!Dies, Forsah!Insert
    <3> QED BY <3>1, ForsahTypes
  <2> QED BY <2>1, <2>2, <2>3, <2>4
<1>4. Forsah!TypeOK'
  <2>1. v7' \in BOOLEAN
    BY <1>0 DEF Forsah!TypeOK, Forsah!Page, Forsah!Look, Forsah!Compare, Forsah!Dies, Forsah!Insert
  <2> QED BY <1>0, <1>1, <1>3, <2>1 DEF Forsah!TypeOK, ForsahPulls, ForsahRows
<1> QED BY <1>0, <1>1, <1>2, <1>a, <1>3, <1>4, ForsahQuiet

\* The source changes, a pursuit is made, or nothing happens.
LEMMA ForsahOutside ==
  ASSUME Forsah!ForsahInv,
         \/ \E content \in Forsah!Contents : Forsah!SourceChanges(content)
         \/ Forsah!Pursue \/ UNCHANGED Forsah!vars
  PROVE  Forsah!ForsahInv'
<1>0. Forsah!TypeOK
  BY DEF Forsah!ForsahInv
<1>1. UNCHANGED <<v2, v4, v5, v7, v8>>
  BY DEF Forsah!SourceChanges, Forsah!Pursue, Forsah!vars
<1>2. v1' \in Forsah!Contents /\ v6' \in 0..ForsahChanges
  BY <1>0, CorpusAssumption
     DEF Forsah!TypeOK, Forsah!SourceChanges, Forsah!Pursue, Forsah!vars
<1>3. v3' \in BOOLEAN
  BY <1>0 DEF Forsah!TypeOK, Forsah!SourceChanges, Forsah!Pursue, Forsah!vars
<1>4. Forsah!TypeOK'
  BY <1>0, <1>1, <1>2, <1>3 DEF Forsah!TypeOK
<1> QED BY <1>1, <1>4, ForsahQuiet

\* The first sight of the opportunity.
LEMMA ForsahInsert ==
  ASSUME Forsah!ForsahInv, NEW p \in Pair, Forsah!Insert(p), v2 = Forsah!NoRow
  PROVE  Forsah!ForsahInv'
<1> DEFINE row == v2  events == v4  pull == v5
<1>0. /\ Forsah!TypeOK /\ pull \in [Pair -> ForsahPulls] /\ pull[p].phase # "idle"
      /\ pull[p].content \in Forsah!Contents /\ v4 = << >> /\ v4 \in Seq(ForsahEvents)
  BY DEF Forsah!ForsahInv, Forsah!TypeOK, Forsah!InHand, Forsah!Insert, ForsahPulls,
         ForsahRows, ForsahEvents
<1> DEFINE first == Forsah!Event("tender.created", Forsah!Unknown, Forsah!Unknown)
<1>1. first \in ForsahEvents /\ first.kind = "tender.created"
  BY ForsahTypes DEF Forsah!Event, ForsahEvents, Forsah!Kinds, Forsah!Unknown
<1>2. /\ row' = pull[p].content /\ events' = Append(events, first)
      /\ pull' = [pull EXCEPT ![p] = Forsah!Idle] /\ v8' = (pull[p].content.status = "awarded")
      /\ UNCHANGED <<v1, v3, v6, v7>>
  BY DEF Forsah!Insert
<1> HIDE DEF first
<1>3. events' = <<first>> /\ Len(events') = 1 /\ DOMAIN events' = {1} /\ events'[1] = first
      /\ events' \in Seq(ForsahEvents)
  BY <1>0, <1>1, <1>2
<1>4. /\ pull' \in [Pair -> ForsahPulls] /\ pull'[p] = Forsah!Idle
      /\ \A q \in Pair : q # p => pull'[q] = pull[q]
  BY <1>0, <1>2, ForsahTypes
<1>5. Forsah!TypeOK'
  <2>1. v8' \in BOOLEAN
    BY <1>2
  <2> QED BY <1>0, <1>2, <1>3, <1>4, <2>1
          DEF Forsah!TypeOK, ForsahPulls, ForsahRows, ForsahEvents
<1>6. /\ Forsah!Of("tender.created")' = {1}
      /\ Forsah!Of("competition.rising")' = {}
  BY <1>1, <1>3 DEF Forsah!Of
<1>7. Forsah!InHand'
  BY <1>0, <1>2, <1>4, ForsahTypes DEF Forsah!ForsahInv, Forsah!InHand
<1>8. Forsah!Alone'
  <2> SUFFICES ASSUME ~v7
               PROVE  /\ \A q, r \in Pair :
                           pull'[q].phase # "idle" /\ pull'[r].phase # "idle" => q = r
                      /\ \A q \in Pair : pull'[q].phase # "compared"
    BY <1>2, <1>3, <1>6 DEF Forsah!Alone
  <2>1. \A q \in Pair : pull'[q].phase = "idle"
    BY <1>0, <1>2, <1>4, ForsahTypes DEF Forsah!ForsahInv, Forsah!Alone
  <2> QED BY <2>1
<1>9. Forsah!CreatedFirst' /\ Forsah!RisesAddUp'
  BY <1>3, <1>6 DEF Forsah!CreatedFirst, Forsah!RisesAddUp
<1>10. Forsah!AwardIsAnnounced'
  BY <1>2 DEF Forsah!AwardIsAnnounced
<1> QED BY <1>0, <1>2, <1>3, <1>5, <1>7, <1>8, <1>9, <1>10, ForsahTypes DEF Forsah!ForsahInv

\* A change and its event.
LEMMA ForsahWrite ==
  ASSUME Forsah!ForsahInv, NEW p \in Pair, Forsah!Write(p)
  PROVE  Forsah!ForsahInv'
<1> DEFINE row == v2  events == v4  pull == v5  n == Len(events)
           content == pull[p].content  before == pull[p].before
<1>0. /\ Forsah!TypeOK /\ pull \in [Pair -> ForsahPulls] /\ pull[p].phase = "compared"
      /\ content \in Forsah!Contents /\ before \in Forsah!Unknown..ForsahBids
      /\ row # Forsah!NoRow /\ row \in Forsah!Contents /\ events \in Seq(ForsahEvents)
      /\ events # << >>
  BY DEF Forsah!ForsahInv, Forsah!TypeOK, Forsah!InHand, Forsah!Write, ForsahPulls,
         ForsahRows, ForsahEvents
<1> DEFINE new == Forsah!Announced(before, content)
<1>1. Forsah!Counted(content) \in 0..ForsahBids
  BY <1>0, ForsahTypes DEF Forsah!Counted, Forsah!Contents, Forsah!Unknown
<1>2. /\ new \in ForsahEvents /\ new.kind # "tender.created"
      /\ new.kind = "competition.rising" =>
           /\ new.from = before /\ before >= 0 /\ new.to = content.bids /\ before < content.bids
      /\ content.status = "awarded" =>
           new.kind = "tender.awarded" \/ Forsah!Rising(before, content)
  <2>1. CASE Forsah!Rising(before, content)
    <3>1. new = Forsah!Event("competition.rising", before, Forsah!Counted(content))
      BY <2>1 DEF Forsah!Announced
    <3>2. before # -1 /\ Forsah!Counted(content) > before /\ before \in -1..ForsahBids
      BY <1>0, <2>1 DEF Forsah!Rising, Forsah!Unknown
    <3>3. before >= 0 /\ Forsah!Counted(content) = content.bids
      BY <1>1, <3>2 DEF Forsah!Counted
    <3> QED BY <1>0, <1>1, <2>1, <3>1, <3>2, <3>3, CorpusAssumption
            DEF Forsah!Event, ForsahEvents, Forsah!Kinds, Forsah!Unknown
  <2>2. CASE ~Forsah!Rising(before, content)
    <3>1. new = Forsah!Event(IF content.status = "awarded" THEN "tender.awarded"
                             ELSE "tender.updated", -1, -1)
      BY <2>2 DEF Forsah!Announced, Forsah!Unknown
    <3> QED BY <2>2, <3>1, ForsahTypes DEF Forsah!Event, ForsahEvents, Forsah!Kinds
  <2> QED BY <2>1, <2>2
<1>3. /\ row' = content /\ events' = Append(events, new)
      /\ pull' = [pull EXCEPT ![p] = Forsah!Idle]
      /\ UNCHANGED <<v1, v3, v6, v7>>
      /\ v8' = (v8 \/ /\ content.status = "awarded" /\ row.status # "awarded"
                      /\ Forsah!Rising(before, content))
  BY DEF Forsah!Write
<1> HIDE DEF new
<1>4. /\ events' \in Seq(ForsahEvents) /\ n \in Nat /\ n >= 1 /\ Len(events') = n + 1
      /\ DOMAIN events = 1..n /\ DOMAIN events' = 1..(n + 1)
      /\ events'[n + 1] = new /\ \A i \in 1..n : events'[i] = events[i]
  BY <1>0, <1>2, <1>3
<1>5. /\ pull' \in [Pair -> ForsahPulls] /\ pull'[p] = Forsah!Idle
      /\ \A q \in Pair : q # p => pull'[q] = pull[q]
  BY <1>0, <1>3, ForsahTypes
<1>6. Forsah!TypeOK'
  <2>1. v8' \in BOOLEAN
    BY <1>3
  <2> QED BY <1>0, <1>3, <1>4, <1>5, <2>1
          DEF Forsah!TypeOK, ForsahPulls, ForsahRows, ForsahEvents
<1>7. \A kind : Forsah!Of(kind)' =
                  Forsah!Of(kind) \cup IF new.kind = kind THEN {n + 1} ELSE {}
  BY <1>4 DEF Forsah!Of
<1>8. Forsah!InHand'
  BY <1>0, <1>3, <1>5, ForsahTypes DEF Forsah!ForsahInv, Forsah!InHand
<1>9. Forsah!Alone'
  <2> SUFFICES ASSUME ~v7
               PROVE  /\ \A q, r \in Pair :
                           pull'[q].phase # "idle" /\ pull'[r].phase # "idle" => q = r
                      /\ \A q \in Pair : pull'[q].phase # "compared"
                      /\ n + 1 \in Forsah!Of("competition.rising")' =>
                           content.bids = events'[n + 1].to
    BY <1>3, <1>4 DEF Forsah!Alone
  <2>1. \A q \in Pair : pull'[q].phase = "idle"
    BY <1>0, <1>5, ForsahTypes DEF Forsah!ForsahInv, Forsah!Alone
  <2>2. n + 1 \notin Forsah!Of("competition.rising")
    BY <1>4 DEF Forsah!Of
  <2> QED BY <1>2, <1>4, <1>7, <2>1, <2>2
<1>10. Forsah!CreatedFirst'
  <2>1. events' # << >>
    BY <1>4
  <2> QED BY <1>0, <1>2, <1>7, <2>1 DEF Forsah!ForsahInv, Forsah!CreatedFirst
<1>11. Forsah!AwardIsAnnounced'
  <2> SUFFICES ASSUME content.status = "awarded"
               PROVE  v8' \/ Forsah!Of("tender.awarded")' # {}
    BY <1>3 DEF Forsah!AwardIsAnnounced
  <2>1. CASE new.kind = "tender.awarded"
    BY <1>7, <2>1
  <2>2. CASE Forsah!Rising(before, content) /\ row.status # "awarded"
    BY <1>3, <2>2
  <2>3. CASE row.status = "awarded"
    BY <1>3, <1>7, <2>3 DEF Forsah!ForsahInv, Forsah!AwardIsAnnounced
  <2> QED BY <1>2, <2>1, <2>2, <2>3
<1>12. Forsah!RisesAddUp'
  <2> SUFFICES ASSUME NEW i \in Forsah!Of("competition.rising")'
               PROVE  /\ events'[i].from >= 0 /\ events'[i].from < events'[i].to
                      /\ ~v7' /\ i + 1 \in Forsah!Of("competition.rising")' =>
                           events'[i + 1].from = events'[i].to
    BY DEF Forsah!RisesAddUp
  <2>1. CASE i = n + 1
    <3>1. new.kind = "competition.rising" /\ i + 1 \notin Forsah!Of("competition.rising")'
      BY <1>4, <2>1 DEF Forsah!Of
    <3> QED BY <1>2, <1>4, <2>1, <3>1
  <2>2. CASE i # n + 1
    <3>1. i \in Forsah!Of("competition.rising") /\ i \in 1..n /\ events'[i] = events[i]
      BY <1>4, <2>2 DEF Forsah!Of
    <3>2. /\ events[i].from >= 0 /\ events[i].from < events[i].to
          /\ ~v7 /\ i + 1 \in Forsah!Of("competition.rising") =>
               events[i + 1].from = events[i].to
      BY <3>1 DEF Forsah!ForsahInv, Forsah!RisesAddUp
    <3>3. CASE i = n
      <4> SUFFICES ASSUME ~v7, n + 1 \in Forsah!Of("competition.rising")'
                   PROVE  events'[n + 1].from = events[n].to
        BY <1>3, <3>1, <3>2, <3>3
      <4>1. new.kind = "competition.rising"
        BY <1>4 DEF Forsah!Of
      <4>2. before = row.bids /\ row.bids = events[n].to
        BY <1>0, <3>1, <3>3 DEF Forsah!ForsahInv, Forsah!Alone
      <4> QED BY <1>2, <1>4, <4>1, <4>2
    <3>4. CASE i # n
      <4>1. i + 1 \in 1..n /\ events'[i + 1] = events[i + 1]
        BY <1>4, <3>1, <3>4
      <4>2. i + 1 \in Forsah!Of("competition.rising")' => i + 1 \in Forsah!Of("competition.rising")
        BY <1>4, <4>1 DEF Forsah!Of
      <4> QED BY <1>3, <3>1, <3>2, <4>1, <4>2
    <3> QED BY <3>3, <3>4
  <2> QED BY <2>1, <2>2
<1> QED BY <1>0, <1>3, <1>4, <1>6, <1>8, <1>9, <1>10, <1>11, <1>12, ForsahTypes
        DEF Forsah!ForsahInv

\* Every step.
LEMMA ForsahStep ==
  ASSUME Forsah!ForsahInv, [Forsah!Next]_(Forsah!vars) PROVE Forsah!ForsahInv'
BY ForsahReads, ForsahOutside, ForsahInsert, ForsahWrite DEF Forsah!Next

-----------------------------------------------------------------------------
(***************************************************************************)
(* VendorMerge: offers keep a vendor of their key while names are merged.  *)
(* v1 .. v7 are vendors, lastId, offers, store, stores, merge and settled. *)
(***************************************************************************)
VendorName == DOMAIN VendorKey
VendorId == 1..VendorRows
VendorOffer == [name : VendorName \cup {0}, vendor : VendorId \cup {0}]
VendorStore == [tender : VendorTenders \cup {0}, name : VendorName \cup {0},
                vendor : VendorId \cup {0}]
VendorRun == [phase : {"idle", "listed", "repointed"}, listed : SUBSET VendorId,
              todo : SUBSET SUBSET VendorId, group : SUBSET VendorId,
              locked : SUBSET VendorTenders]

\* 0, which stands for none, is no name, tender or vendor.
LEMMA NamesAreNumbers == 0 \notin VendorName /\ 0 \notin VendorTenders /\ 0 \notin VendorId
BY CorpusAssumption DEF VendorName, VendorId

\* The vendor of a group that is kept is one of it, and the others are its duplicates.
LEMMA KeeperIsOfGroup ==
  ASSUME NEW g, g \subseteq VendorId, g # {}
  PROVE  Merging!Keeper(g) \in g /\ Merging!Dupes(g) \subseteq g \ {Merging!Keeper(g)}
<1>1. g \subseteq Nat
  BY DEF VendorId
<1>2. \E v \in g : \A w \in g : v <= w
  BY <1>1, LeastExists
<1> QED BY <1>2 DEF Merging!Keeper, Merging!Dupes

\* The types, by the names above.
LEMMA MergeTypes ==
  Merging!TypeOK <=> /\ DOMAIN v1 \subseteq VendorId /\ (\A v \in DOMAIN v1 : v1[v] \in VendorName)
                     /\ v2 \in 0..VendorRows /\ v5 \in 0..VendorStores
                     /\ v3 \in [VendorTenders -> VendorOffer] /\ v4 \in VendorStore
                     /\ v6 \in VendorRun /\ v7 \subseteq VendorId
BY DEF Merging!TypeOK, VendorName, VendorId, VendorOffer, VendorStore, VendorRun,
       Merging!Names, Merging!Ids

\* The types again, of the next state.
LEMMA MergeTypesAfter ==
  ASSUME DOMAIN v1' \subseteq VendorId, \A v \in DOMAIN v1' : v1'[v] \in VendorName,
         v2' \in 0..VendorRows, v5' \in 0..VendorStores,
         v3' \in [VendorTenders -> VendorOffer], v4' \in VendorStore,
         v6' \in VendorRun, v7' \subseteq VendorId
  PROVE  Merging!TypeOK'
BY DEF Merging!TypeOK, VendorName, VendorId, VendorOffer, VendorStore, VendorRun,
       Merging!Names, Merging!Ids

\* No offer and no store, as values.
LEMMA NothingHasType ==
  /\ Merging!NoOffer \in VendorOffer /\ Merging!NoStore \in VendorStore
  /\ Merging!NoStore.tender = 0 /\ Merging!NoOffer.vendor = 0
BY DEF Merging!NoOffer, Merging!NoStore, VendorOffer, VendorStore

\* The run between two runs.
LEMMA IdleRun ==
  /\ Merging!Idle \in VendorRun /\ Merging!Idle.phase = "idle" /\ Merging!Idle.todo = {}
  /\ Merging!Idle.listed = {} /\ Merging!Idle.locked = {}
<1>1. {} \in SUBSET SUBSET VendorId /\ {} \in SUBSET VendorId /\ {} \in SUBSET VendorTenders
  OBVIOUS
<1> QED BY <1>1 DEF Merging!Idle, VendorRun

\* The initial states.
LEMMA MergeInit == ASSUME Merging!Init PROVE Merging!MergeInv
<1>1. DOMAIN v1 = {}
  BY DEF Merging!Init
<1>2. v2 = 0 /\ v4 = Merging!NoStore /\ v5 = 0 /\ v6 = Merging!Idle /\ v7 = {}
      /\ \A t \in VendorTenders : v3[t] = Merging!NoOffer
  BY DEF Merging!Init
<1>3. Merging!TypeOK
  <2>1. v3 \in [VendorTenders -> VendorOffer]
    BY NothingHasType DEF Merging!Init
  <2>2. 0 \in 0..VendorRows /\ 0 \in 0..VendorStores
    BY CorpusAssumption
  <2> QED BY <1>1, <1>2, <2>1, <2>2, NothingHasType, IdleRun, MergeTypes
<1>4. Merging!StoreInv /\ Merging!OneVendorPerKey /\ Merging!OffersKeepTheirVendor
  BY <1>1, <1>2 DEF Merging!StoreInv, Merging!OneVendorPerKey, Merging!OffersKeepTheirVendor
<1>5. Merging!LocksInv
  BY <1>2, IdleRun, NothingHasType DEF Merging!LocksInv
<1>6. Merging!GroupsInv
  <2>1. Merging!Groups = {}
    BY <1>2, IdleRun DEF Merging!Groups
  <2> QED BY <1>1, <1>2, <2>1, IdleRun DEF Merging!GroupsInv
<1> QED BY <1>3, <1>4, <1>5, <1>6 DEF Merging!MergeInv

\* The lane finds or inserts the vendor of a name.
LEMMA MergeStoreLink ==
  ASSUME Merging!MergeInv, NEW t \in VendorTenders, NEW name \in VendorName,
         Merging!StoreLink(t, name)
  PROVE  Merging!MergeInv'
<1>0. Merging!TypeOK
  BY DEF Merging!MergeInv
<1>1. UNCHANGED <<v1, v3, v6, v7>> /\ t \notin v6.locked /\ v5 < VendorStores /\ v5' = v5 + 1
  BY DEF Merging!StoreLink
<1>2. /\ DOMAIN v1 \subseteq 1..v2 /\ v6.listed \cup v7 \subseteq 1..v2
      /\ v2 \in Nat /\ VendorRows \in Nat /\ v2 <= VendorRows
  BY <1>0, MergeTypes, CorpusAssumption DEF Merging!MergeInv, Merging!GroupsInv
<1>3. PICK v \in VendorId :
        /\ v4' = [tender |-> t, name |-> name, vendor |-> v]
        /\ v2' \in 0..VendorRows /\ v2' >= v2 /\ v \in 1..v2'
        /\ IF v \in DOMAIN v1 THEN v1[v] = name ELSE v \notin v6.listed \cup v7
  <2>1. CASE Merging!Named(name) # {}
    <3> DEFINE v == CHOOSE v \in Merging!Named(name) : TRUE
    <3>1. v \in DOMAIN v1 /\ v1[v] = name
      BY <2>1 DEF Merging!Named
    <3>2. v4' = [tender |-> t, name |-> name, vendor |-> v] /\ v2' = v2
      BY <2>1 DEF Merging!StoreLink
    <3> HIDE DEF v
    <3>3. v \in VendorId /\ v \in 1..v2
      BY <1>2, <3>1 DEF VendorId
    <3> QED BY <1>2, <3>1, <3>2, <3>3
  <2>2. CASE Merging!Named(name) = {}
    <3>1. v4' = [tender |-> t, name |-> name, vendor |-> v2 + 1] /\ v2' = v2 + 1 /\ v2 < VendorRows
      BY <2>2 DEF Merging!StoreLink
    <3>2. v2 + 1 \in VendorId /\ v2 + 1 \notin 1..v2 /\ v2 + 1 \in 1..(v2 + 1)
          /\ v2 + 1 \in 0..VendorRows /\ v2 + 1 >= v2
      BY <1>2, <3>1 DEF VendorId
    <3> QED BY <1>2, <3>1, <3>2
  <2> QED BY <2>1, <2>2
<1>4. v4'.tender = t /\ v4'.name = name /\ v4'.vendor = v /\ v4' \in VendorStore
  BY <1>3 DEF VendorStore
<1>5. Merging!TypeOK'
  <2>1. v5' \in 0..VendorStores
    BY <1>0, <1>1, MergeTypes, MergeTypesAfter, CorpusAssumption
  <2> QED BY <1>0, <1>1, <1>3, <1>4, <2>1, MergeTypes, MergeTypesAfter
<1>6. Merging!StoreInv'
  BY <1>1, <1>3, <1>4 DEF Merging!StoreInv, VendorName, Merging!Names
<1>7. Merging!GroupsInv'
  <2>1. 1..v2 \subseteq 1..v2'
    BY <1>2, <1>3
  <2>2. Merging!Groups' = Merging!Groups
    BY <1>1 DEF Merging!Groups
  <2> QED BY <1>1, <1>2, <2>1, <2>2 DEF Merging!MergeInv, Merging!GroupsInv
<1>8. Merging!LocksInv' /\ Merging!OffersKeepTheirVendor' /\ Merging!OneVendorPerKey'
  BY <1>1, <1>4
     DEF Merging!MergeInv, Merging!LocksInv, Merging!OffersKeepTheirVendor, Merging!OneVendorPerKey
<1> QED BY <1>5, <1>6, <1>7, <1>8 DEF Merging!MergeInv

\* The lane commits: the vendor is there for all, and the offer refers to it.
LEMMA MergeStoreCommit ==
  ASSUME Merging!MergeInv, Merging!StoreCommit PROVE Merging!MergeInv'
<1>0. Merging!TypeOK /\ v4 # Merging!NoStore /\ UNCHANGED <<v2, v5, v6, v7>>
      /\ v4' = Merging!NoStore
  BY DEF Merging!MergeInv, Merging!StoreCommit
<1>1. /\ v4.tender \in VendorTenders /\ v4.name \in VendorName /\ v4.vendor \in 1..v2
      /\ IF v4.vendor \in DOMAIN v1 THEN v1[v4.vendor] = v4.name
         ELSE v4.vendor \notin v6.listed \cup v7
  BY <1>0 DEF Merging!MergeInv, Merging!StoreInv, VendorName, Merging!Names
<1>2. v4.vendor \in VendorId
  BY <1>0, <1>1, MergeTypes, CorpusAssumption DEF VendorId
<1>3. /\ DOMAIN v1' = DOMAIN v1 \cup {v4.vendor}
      /\ \A v \in DOMAIN v1 : v1'[v] = v1[v]
      /\ v1'[v4.vendor] = v4.name
  <2>1. v1' = [v \in DOMAIN v1 \cup {v4.vendor} |-> IF v = v4.vendor THEN v4.name ELSE v1[v]]
    BY DEF Merging!StoreCommit
  <2> QED BY <1>1, <2>1
<1>4. v6.listed \cap DOMAIN v1' = v6.listed \cap DOMAIN v1 /\ v7 \cap DOMAIN v1' = v7 \cap DOMAIN v1
  BY <1>1, <1>3
<1> DEFINE offer == [name |-> v4.name, vendor |-> v4.vendor]
<1>5. offer \in VendorOffer /\ offer.name = v4.name /\ offer.vendor = v4.vendor
  BY <1>1, <1>2 DEF VendorOffer
<1>6. v3' = [v3 EXCEPT ![v4.tender] = offer]
  BY DEF Merging!StoreCommit
<1> HIDE DEF offer
<1>7. /\ v3' \in [VendorTenders -> VendorOffer] /\ v3'[v4.tender] = offer
      /\ \A t \in VendorTenders : t # v4.tender => v3'[t] = v3[t]
  BY <1>0, <1>1, <1>5, <1>6, MergeTypes
<1>8. Merging!TypeOK'
  BY <1>0, <1>1, <1>2, <1>3, <1>7, MergeTypes, MergeTypesAfter, NothingHasType
<1>9. Merging!StoreInv'
  BY <1>0 DEF Merging!StoreInv
<1>10. Merging!GroupsInv'
  <2>1. Merging!Groups' = Merging!Groups
    BY <1>0 DEF Merging!Groups
  <2>2. DOMAIN v1' \subseteq 1..v2
    BY <1>1, <1>3 DEF Merging!MergeInv, Merging!GroupsInv
  <2>3. \A g \in Merging!Groups : /\ g # {} /\ g \subseteq DOMAIN v1'
                      /\ \A v, w \in g : VendorKey[v1'[v]] = VendorKey[v1'[w]]
    BY <1>3 DEF Merging!MergeInv, Merging!GroupsInv
  <2>4. \A v, w \in v6.listed \cap DOMAIN v1' :
           VendorKey[v1'[v]] = VendorKey[v1'[w]] =>
             v = w \/ \E g \in Merging!Groups : v \in g /\ w \in g
    BY <1>3, <1>4 DEF Merging!MergeInv, Merging!GroupsInv
  <2> QED BY <1>0, <2>1, <2>2, <2>3, <2>4 DEF Merging!MergeInv, Merging!GroupsInv
<1>11. Merging!LocksInv'
  <2>1. v6.locked \subseteq VendorTenders /\ v4.tender \notin v6.locked /\ 0 \notin v6.locked
    BY <1>0, MergeTypes, NamesAreNumbers DEF Merging!MergeInv, Merging!LocksInv, VendorRun
  <2> QED BY <1>0, <1>7, <2>1, NothingHasType DEF Merging!MergeInv, Merging!LocksInv
<1>12. Merging!OffersKeepTheirVendor'
  <2> SUFFICES ASSUME NEW t \in VendorTenders, v3'[t] # Merging!NoOffer
               PROVE  /\ v3'[t].vendor \in DOMAIN v1'
                      /\ VendorKey[v1'[v3'[t].vendor]] = VendorKey[v3'[t].name]
    BY DEF Merging!OffersKeepTheirVendor, Merging!NoOffer
  <2>1. CASE t = v4.tender
    BY <1>3, <1>5, <1>7, <2>1
  <2>2. CASE t # v4.tender
    BY <1>3, <1>7, <2>2 DEF Merging!MergeInv, Merging!OffersKeepTheirVendor
  <2> QED BY <2>1, <2>2
<1>13. Merging!OneVendorPerKey'
  BY <1>0, <1>3, <1>4 DEF Merging!MergeInv, Merging!OneVendorPerKey
<1> QED BY <1>8, <1>9, <1>10, <1>11, <1>12, <1>13 DEF Merging!MergeInv

\* A store is undone.
LEMMA MergeStoreFails ==
  ASSUME Merging!MergeInv, Merging!StoreFails PROVE Merging!MergeInv'
<1>1. v4' = Merging!NoStore /\ UNCHANGED <<v1, v2, v3, v5, v6, v7>>
  BY DEF Merging!StoreFails
<1>2. Merging!TypeOK'
  BY <1>1, MergeTypes, MergeTypesAfter, NothingHasType DEF Merging!MergeInv
<1>3. 0 \notin v6.locked
  BY MergeTypes, NamesAreNumbers DEF Merging!MergeInv, VendorRun
<1>4. Merging!Groups' = Merging!Groups
  BY <1>1 DEF Merging!Groups
<1>5. Merging!StoreInv' /\ Merging!GroupsInv'
  BY <1>1, <1>4 DEF Merging!MergeInv, Merging!StoreInv, Merging!GroupsInv
<1>6. Merging!LocksInv' /\ Merging!OffersKeepTheirVendor' /\ Merging!OneVendorPerKey'
  BY <1>1, <1>3, NothingHasType
     DEF Merging!MergeInv, Merging!LocksInv, Merging!OffersKeepTheirVendor, Merging!OneVendorPerKey
<1> QED BY <1>2, <1>5, <1>6 DEF Merging!MergeInv

\* The run reads the vendors and groups them by key.
LEMMA MergeList ==
  ASSUME Merging!MergeInv, Merging!List PROVE Merging!MergeInv'
<1>0. Merging!TypeOK /\ UNCHANGED <<v1, v2, v3, v4, v5, v7>>
  BY DEF Merging!MergeInv, Merging!List
<1> DEFINE todo == {Merging!SameKey(v) : v \in {w \in DOMAIN v1 : Merging!SameKey(w) # {w}}}
<1>1. DOMAIN v1 \subseteq VendorId /\ DOMAIN v1 \subseteq 1..v2
  BY <1>0, MergeTypes DEF Merging!MergeInv, Merging!GroupsInv
<1>2. /\ \A g \in todo : /\ g # {} /\ g \subseteq DOMAIN v1
                         /\ \A v, w \in g : VendorKey[v1[v]] = VendorKey[v1[w]]
                         /\ \A h \in todo : g = h \/ g \cap h = {}
      /\ \A v, w \in DOMAIN v1 : VendorKey[v1[v]] = VendorKey[v1[w]] =>
           v = w \/ \E g \in todo : v \in g /\ w \in g
  <2>1. ASSUME NEW x \in DOMAIN v1, NEW y \in DOMAIN v1
        PROVE  /\ x \in Merging!SameKey(x) /\ Merging!SameKey(x) \subseteq DOMAIN v1
               /\ \A v, w \in Merging!SameKey(x) : VendorKey[v1[v]] = VendorKey[v1[w]]
               /\ \/ Merging!SameKey(x) = Merging!SameKey(y)
                  \/ Merging!SameKey(x) \cap Merging!SameKey(y) = {}
    BY DEF Merging!SameKey
  <2>2. ASSUME NEW v \in DOMAIN v1, NEW w \in DOMAIN v1, v # w, VendorKey[v1[v]] = VendorKey[v1[w]]
        PROVE  \E g \in todo : v \in g /\ w \in g
    <3>1. v \in Merging!SameKey(v) /\ w \in Merging!SameKey(v)
      BY <2>2 DEF Merging!SameKey
    <3>2. Merging!SameKey(v) \in todo
      BY <2>2, <3>1
    <3> QED BY <3>1, <3>2
  <2>3. \A g \in todo : \E x \in DOMAIN v1 : g = Merging!SameKey(x)
    OBVIOUS
  <2> HIDE DEF todo
  <2> QED BY <2>1, <2>2, <2>3
<1>3. /\ v6'.phase = "listed" /\ v6'.listed = DOMAIN v1 /\ v6'.todo = todo
      /\ v6'.group = {} /\ v6'.locked = {} /\ v6' \in VendorRun
  <2>1. v6' = [Merging!Idle EXCEPT !.phase = "listed", !.listed = DOMAIN v1, !.todo = todo]
    BY DEF Merging!List
  <2>2. todo \in SUBSET SUBSET VendorId
    BY <1>1, <1>2
  <2> HIDE DEF todo
  <2>3. v6' = [phase |-> "listed", listed |-> DOMAIN v1, todo |-> todo, group |-> {}, locked |-> {}]
    BY <2>1 DEF Merging!Idle
  <2> QED BY <1>1, <2>2, <2>3 DEF VendorRun
<1> HIDE DEF todo
<1>4. Merging!TypeOK'
  BY <1>0, <1>3, MergeTypes, MergeTypesAfter
<1>5. Merging!StoreInv'
  BY <1>0, <1>3 DEF Merging!MergeInv, Merging!StoreInv
<1>6. Merging!GroupsInv'
  <2>1. Merging!Groups' = todo
    BY <1>3 DEF Merging!Groups
  <2>2. v7 \subseteq 1..v2
    BY DEF Merging!MergeInv, Merging!GroupsInv
  <2>3. DOMAIN v1' \cup v6'.listed \cup v7' \subseteq 1..v2'
    BY <1>0, <1>1, <1>3, <2>2
  <2>4. \A g \in todo : /\ g # {} /\ g \subseteq DOMAIN v1'
                       /\ \A v, w \in g : VendorKey[v1'[v]] = VendorKey[v1'[w]]
                       /\ \A h \in todo : g = h \/ g \cap h = {}
    BY <1>0, <1>2
  <2>5. \A v, w \in v6'.listed \cap DOMAIN v1' : VendorKey[v1'[v]] = VendorKey[v1'[w]] =>
          v = w \/ \E g \in todo : v \in g /\ w \in g
    BY <1>0, <1>2, <1>3
  <2>6. v6'.phase # "idle" /\ v6'.phase # "repointed"
    BY <1>3
  <2> QED BY <2>1, <2>3, <2>4, <2>5, <2>6 DEF Merging!GroupsInv
<1>7. Merging!LocksInv' /\ Merging!OffersKeepTheirVendor' /\ Merging!OneVendorPerKey'
  BY <1>0, <1>3
     DEF Merging!MergeInv, Merging!LocksInv, Merging!OffersKeepTheirVendor, Merging!OneVendorPerKey
<1> QED BY <1>4, <1>5, <1>6, <1>7 DEF Merging!MergeInv

\* The UPDATE of a group, which locks the offers that it sees.
LEMMA MergeRepoint ==
  ASSUME Merging!MergeInv, NEW g \in v6.todo, Merging!Repoint(g) PROVE Merging!MergeInv'
<1>0. Merging!TypeOK /\ UNCHANGED <<v1, v2, v3, v4, v5, v7>>
  BY DEF Merging!MergeInv, Merging!Repoint
<1> DEFINE locked == Merging!Pointing(g)
<1>1. v6.phase = "listed" /\ v4.tender \notin locked /\ v6 \in VendorRun
      /\ v6' = [v6 EXCEPT !.phase = "repointed", !.todo = @ \ {g}, !.group = g, !.locked = locked]
  BY <1>0, MergeTypes DEF Merging!Repoint
<1>2. locked \subseteq VendorTenders /\ \A t \in locked : v3[t].vendor \in Merging!Dupes(g)
  BY DEF Merging!Pointing
<1> HIDE DEF locked
<1>3. /\ v6'.phase = "repointed" /\ v6'.listed = v6.listed /\ v6'.todo = v6.todo \ {g}
      /\ v6'.group = g /\ v6'.locked = locked /\ v6' \in VendorRun
  <2>1. g \in SUBSET VendorId /\ v6.todo \ {g} \in SUBSET SUBSET VendorId
    BY <1>1 DEF VendorRun
  <2> QED BY <1>1, <1>2, <2>1 DEF VendorRun
<1>4. Merging!TypeOK'
  BY <1>0, <1>3, MergeTypes, MergeTypesAfter
<1>5. Merging!StoreInv'
  BY <1>0, <1>3 DEF Merging!MergeInv, Merging!StoreInv
<1>6. Merging!GroupsInv'
  <2>1. Merging!Groups' = Merging!Groups
    <3>1. Merging!Groups = v6.todo
      BY <1>1 DEF Merging!Groups
    <3>2. Merging!Groups' = (v6.todo \ {g}) \cup {g}
      BY <1>3 DEF Merging!Groups
    <3> QED BY <3>1, <3>2
  <2> QED BY <1>0, <1>3, <2>1 DEF Merging!MergeInv, Merging!GroupsInv
<1>7. Merging!LocksInv' /\ Merging!OffersKeepTheirVendor' /\ Merging!OneVendorPerKey'
  <2>1. Merging!LocksInv'
    BY <1>0, <1>1, <1>2, <1>3 DEF Merging!LocksInv, Merging!Dupes, Merging!Keeper
  <2> QED BY <1>0, <2>1
          DEF Merging!MergeInv, Merging!OffersKeepTheirVendor, Merging!OneVendorPerKey
<1> QED BY <1>4, <1>5, <1>6, <1>7 DEF Merging!MergeInv

\* A run ends; only one that has done all its groups settles what it read.
LEMMA MergeEnds ==
  ASSUME Merging!MergeInv, v6' = Merging!Idle, UNCHANGED <<v1, v2, v3, v4, v5>>,
         v7' = v7 \/ (v7' = v6.listed /\ v6.todo = {} /\ v6.phase = "listed")
  PROVE  Merging!MergeInv'
<1>1. Merging!TypeOK /\ v6 \in VendorRun
  BY MergeTypes DEF Merging!MergeInv
<1>2. Merging!TypeOK'
  <2>1. v7' \subseteq VendorId
    BY <1>1, MergeTypes, MergeTypesAfter DEF VendorRun
  <2> QED BY <1>1, <2>1, MergeTypes, MergeTypesAfter, IdleRun
<1>3. Merging!StoreInv'
  BY IdleRun DEF Merging!MergeInv, Merging!StoreInv
<1>4. Merging!GroupsInv'
  <2>1. Merging!Groups' = {}
    BY IdleRun DEF Merging!Groups
  <2>2. DOMAIN v1 \subseteq 1..v2 /\ v7' \subseteq 1..v2
    BY DEF Merging!MergeInv, Merging!GroupsInv
  <2> QED BY <2>1, <2>2, IdleRun DEF Merging!GroupsInv, Merging!Idle
<1>5. Merging!LocksInv' /\ Merging!OffersKeepTheirVendor'
  BY IdleRun DEF Merging!MergeInv, Merging!LocksInv, Merging!OffersKeepTheirVendor
<1>6. Merging!OneVendorPerKey'
  <2>1. CASE v7' = v7
    BY <2>1 DEF Merging!MergeInv, Merging!OneVendorPerKey
  <2>2. CASE v7' = v6.listed /\ v6.todo = {} /\ v6.phase = "listed"
    <3>1. Merging!Groups = {}
      BY <2>2 DEF Merging!Groups
    <3> QED BY <2>2, <3>1 DEF Merging!MergeInv, Merging!GroupsInv, Merging!OneVendorPerKey
  <2> QED BY <2>1, <2>2
<1> QED BY <1>2, <1>3, <1>4, <1>5, <1>6 DEF Merging!MergeInv

\* The duplicates of a group go, with nothing that refers to them.
LEMMA MergeRemoves ==
  ASSUME Merging!MergeInv, Merging!Remove, Merging!Behind = {} PROVE Merging!MergeInv'
<1>0. Merging!TypeOK /\ UNCHANGED <<v2, v4, v5, v7>> /\ v6 \in VendorRun
  BY MergeTypes DEF Merging!MergeInv, Merging!Remove
<1> DEFINE g == v6.group
           keeper == Merging!Keeper(g)
           dupes == Merging!Dupes(g)
<1>1. v6.phase = "repointed" /\ v4.vendor \notin dupes
  BY DEF Merging!Remove
<1>2. /\ g # {} /\ g \subseteq DOMAIN v1 /\ g \notin v6.todo
      /\ \A v, w \in g : VendorKey[v1[v]] = VendorKey[v1[w]]
      /\ \A h \in v6.todo : g \cap h = {}
  <2>1. g \in Merging!Groups /\ v6.todo \subseteq Merging!Groups
    BY <1>1 DEF Merging!Groups
  <2> QED BY <1>1, <2>1 DEF Merging!MergeInv, Merging!GroupsInv
<1>3. keeper \in g /\ dupes = g \ {keeper}
  <2>1. g \subseteq VendorId
    BY <1>0 DEF VendorRun
  <2> QED BY <1>2, <2>1, KeeperIsOfGroup DEF Merging!Dupes
<1>4. \A t \in VendorTenders : v3[t].vendor \in dupes <=> t \in v6.locked
  <2>1. \A t \in v6.locked : v3[t].vendor \in dupes /\ t \in VendorTenders
    BY <1>0 DEF Merging!MergeInv, Merging!LocksInv, VendorRun
  <2> QED BY <2>1 DEF Merging!Behind, Merging!Pointing
<1>5. /\ DOMAIN v1' = DOMAIN v1 \ dupes
      /\ \A v \in DOMAIN v1 \ dupes : v1'[v] = v1[v]
  <2>1. v1' = [v \in DOMAIN v1 \ dupes |-> v1[v]]
    BY DEF Merging!Remove
  <2> HIDE DEF dupes
  <2> QED BY <2>1
<1>6. /\ v3' = [t \in VendorTenders |-> IF t \in v6.locked THEN [v3[t] EXCEPT !.vendor = keeper]
                                        ELSE v3[t]]
      /\ v6' = [v6 EXCEPT !.phase = "listed", !.group = {}, !.locked = {}]
  BY DEF Merging!Remove
<1>7. /\ v6'.phase = "listed" /\ v6'.listed = v6.listed /\ v6'.todo = v6.todo
      /\ v6'.locked = {} /\ v6' \in VendorRun
  BY <1>0, <1>6 DEF VendorRun
<1> HIDE DEF g, keeper, dupes
<1>8. \A t \in VendorTenders : v3[t] \in VendorOffer /\ v3'[t] \in VendorOffer
  /\ (t \in v6.locked => v3'[t].vendor = keeper /\ v3'[t].name = v3[t].name)
  /\ (t \notin v6.locked => v3'[t] = v3[t])
  <2>1. keeper \in VendorId
    BY <1>0, <1>2, <1>3, MergeTypes
  <2>2. ASSUME NEW t \in VendorTenders
        PROVE  /\ v3[t] \in VendorOffer /\ [v3[t] EXCEPT !.vendor = keeper] \in VendorOffer
               /\ [v3[t] EXCEPT !.vendor = keeper].vendor = keeper
               /\ [v3[t] EXCEPT !.vendor = keeper].name = v3[t].name
    <3>1. v3[t] \in VendorOffer
      BY <1>0, MergeTypes
    <3> QED BY <2>1, <3>1 DEF VendorOffer
  <2>3. ASSUME NEW t \in VendorTenders
        PROVE  v3'[t] = IF t \in v6.locked THEN [v3[t] EXCEPT !.vendor = keeper] ELSE v3[t]
    BY <1>6
  <2>4. ASSUME NEW t \in VendorTenders, t \in v6.locked
        PROVE  v3'[t] \in VendorOffer /\ v3'[t].vendor = keeper /\ v3'[t].name = v3[t].name
    <3>1. v3'[t] = [v3[t] EXCEPT !.vendor = keeper]
      BY <2>3, <2>4
    <3> QED BY <2>2, <3>1
  <2>5. ASSUME NEW t \in VendorTenders, t \notin v6.locked PROVE v3'[t] = v3[t]
    BY <2>3, <2>5
  <2> QED BY <2>2, <2>4, <2>5
<1>9. Merging!TypeOK'
  <2>1. v3' \in [VendorTenders -> VendorOffer]
    <3>1. DOMAIN v3' = VendorTenders /\ v3' = [t \in VendorTenders |-> v3'[t]]
      BY <1>6
    <3> QED BY <1>8, <3>1
  <2>2. /\ DOMAIN v1' \subseteq VendorId /\ (\A v \in DOMAIN v1' : v1'[v] \in VendorName)
    BY <1>0, <1>5, MergeTypes, MergeTypesAfter
  <2> QED BY <1>0, <1>7, <2>1, <2>2, MergeTypes, MergeTypesAfter
<1>10. Merging!StoreInv'
  <2>1. v4.vendor \in DOMAIN v1 => v4.vendor \in DOMAIN v1' /\ v1'[v4.vendor] = v1[v4.vendor]
    BY <1>1, <1>5 DEF dupes, g
  <2>2. v4.vendor \in DOMAIN v1' => v4.vendor \in DOMAIN v1
    BY <1>5
  <2> QED BY <1>0, <1>7, <2>1, <2>2 DEF Merging!MergeInv, Merging!StoreInv
<1>11. Merging!GroupsInv'
  <2>1. Merging!Groups' = v6.todo /\ Merging!Groups = v6.todo \cup {g}
    BY <1>1, <1>7 DEF Merging!Groups, g
  <2>2. ASSUME NEW h \in v6.todo
        PROVE  /\ h # {} /\ h \subseteq DOMAIN v1'
               /\ \A v, w \in h : VendorKey[v1'[v]] = VendorKey[v1'[w]]
    <3>1. /\ h # {} /\ h \subseteq DOMAIN v1
          /\ \A v, w \in h : VendorKey[v1[v]] = VendorKey[v1[w]]
      BY <2>1 DEF Merging!MergeInv, Merging!GroupsInv
    <3>2. h \cap dupes = {}
      BY <1>2, <1>3
    <3> QED BY <1>5, <3>1, <3>2
  <2>3. ASSUME NEW v \in v6.listed \cap DOMAIN v1', NEW w \in v6.listed \cap DOMAIN v1',
               VendorKey[v1'[v]] = VendorKey[v1'[w]]
        PROVE  v = w \/ \E h \in v6.todo : v \in h /\ w \in h
    <3>1. v = w \/ \E h \in v6.todo \cup {g} : v \in h /\ w \in h
      BY <1>5, <2>1, <2>3 DEF Merging!MergeInv, Merging!GroupsInv
    <3>2. v \in g /\ w \in g => v = w
      BY <1>3, <1>5
    <3> QED BY <3>1, <3>2
  <2>4. \A h, k \in v6.todo : h = k \/ h \cap k = {}
    BY <2>1 DEF Merging!MergeInv, Merging!GroupsInv
  <2>5. DOMAIN v1' \cup v6.listed \cup v7 \subseteq 1..v2
    BY <1>5 DEF Merging!MergeInv, Merging!GroupsInv
  <2> QED BY <1>0, <1>7, <2>1, <2>2, <2>3, <2>4, <2>5 DEF Merging!GroupsInv
<1>12. Merging!LocksInv'
  BY <1>7 DEF Merging!LocksInv
<1>13. Merging!OffersKeepTheirVendor'
  <2> SUFFICES ASSUME NEW t \in VendorTenders, v3'[t] # Merging!NoOffer
               PROVE  /\ v3'[t].vendor \in DOMAIN v1'
                      /\ VendorKey[v1'[v3'[t].vendor]] = VendorKey[v3'[t].name]
    BY DEF Merging!OffersKeepTheirVendor, Merging!NoOffer
  <2>1. CASE t \in v6.locked
    <3>1. v3[t].vendor \in g /\ v3[t].vendor \in VendorId
      BY <1>0, <1>2, <1>3, <1>4, <2>1, MergeTypes
    <3>2. v3[t] # Merging!NoOffer
      BY <3>1, NamesAreNumbers, NothingHasType
    <3>3. VendorKey[v1[v3[t].vendor]] = VendorKey[v3[t].name]
      BY <3>2 DEF Merging!MergeInv, Merging!OffersKeepTheirVendor
    <3>4. keeper \in DOMAIN v1' /\ v1'[keeper] = v1[keeper]
      BY <1>2, <1>3, <1>5
    <3> QED BY <1>2, <1>3, <1>8, <2>1, <3>1, <3>3, <3>4
  <2>2. CASE t \notin v6.locked
    <3>1. v3'[t] = v3[t] /\ v3[t].vendor \notin dupes
      BY <1>4, <1>8, <2>2
    <3>2. v3[t].vendor \in DOMAIN v1 /\ VendorKey[v1[v3[t].vendor]] = VendorKey[v3[t].name]
      BY <3>1 DEF Merging!MergeInv, Merging!OffersKeepTheirVendor
    <3> QED BY <1>5, <3>1, <3>2
  <2> QED BY <2>1, <2>2
<1>14. Merging!OneVendorPerKey'
  BY <1>0, <1>5 DEF Merging!MergeInv, Merging!OneVendorPerKey
<1> QED BY <1>9, <1>10, <1>11, <1>12, <1>13, <1>14 DEF Merging!MergeInv

\* Every step.
LEMMA MergeStep ==
  ASSUME Merging!MergeInv, Merging!Next \/ UNCHANGED Merging!vars
  PROVE  Merging!MergeInv'
<1>1. CASE \E t \in VendorTenders, name \in VendorName : Merging!StoreLink(t, name)
  BY <1>1, MergeStoreLink
<1>2. CASE \E g \in v6.todo : Merging!Repoint(g)
  BY <1>2, MergeRepoint
<1>3. CASE Merging!Remove
  <2>1. CASE Merging!Behind = {}
    BY <1>3, <2>1, MergeRemoves
  <2>2. CASE Merging!Behind # {}
    BY <1>3, <2>2, MergeEnds DEF Merging!Remove
  <2> QED BY <2>1, <2>2
<1>4. CASE Merging!Finish \/ Merging!MergeDies
  BY <1>4, MergeEnds DEF Merging!Finish, Merging!MergeDies
<1>5. CASE UNCHANGED Merging!vars
  <2>1. UNCHANGED <<v1, v2, v3, v4, v5, v6, v7>>
    BY <1>5 DEF Merging!vars
  <2>2. Merging!Groups' = Merging!Groups
    BY <2>1 DEF Merging!Groups
  <2>3. Merging!TypeOK'
    BY <2>1, MergeTypes, MergeTypesAfter DEF Merging!MergeInv
  <2> QED BY <2>1, <2>2, <2>3
          DEF Merging!MergeInv, Merging!StoreInv, Merging!GroupsInv, Merging!LocksInv,
              Merging!OffersKeepTheirVendor, Merging!OneVendorPerKey
<1> QED BY <1>1, <1>2, <1>3, <1>4, <1>5, MergeStoreCommit, MergeStoreFails, MergeList
        DEF Merging!Next, VendorName, Merging!Names

-----------------------------------------------------------------------------
(***************************************************************************)
(* AgencyLinks: one agency per key and run, and one key per agency.        *)
(* v1 .. v6 are tender, agencies, run, runs, linkedBy and linkedAs.        *)
(***************************************************************************)
Spelled == Agencies!Spellings
AgencyTender == [raw : Spelled \cup {0}, agency : Spelled \cup {0}]

\* Spellings are numbered, so that a set of them has a largest.
LEMMA SpelledIsBounded ==
  /\ Spelled = 1..Len(AgencyKey) /\ Len(AgencyKey) \in Nat /\ 0 \notin Spelled
  /\ \A S \in SUBSET Spelled : S # {} => Agencies!Max(S) \in S
<1>1. Spelled = 1..Len(AgencyKey) /\ Len(AgencyKey) \in Nat /\ 0 \notin Spelled
  BY CorpusAssumption DEF Spelled, Agencies!Spellings
<1>2. ASSUME NEW S \in SUBSET Spelled, S # {} PROVE Agencies!Max(S) \in S
  <2>1. S \subseteq 0..Len(AgencyKey)
    BY <1>1
  <2>2. \E x \in S : \A y \in S : y <= x
    BY <1>1, <1>2, <2>1, LargestExists
  <2>3. \A x, y \in S : y <= x => x >= y
    BY <1>1
  <2>4. \E x \in S : \A y \in S : x >= y
    BY <2>2, <2>3
  <2> QED BY <2>4 DEF Agencies!Max
<1> QED BY <1>1, <1>2

\* The run between two runs.
LEMMA IdleHasType == Agencies!Idle \in [on : BOOLEAN, todo : SUBSET SUBSET Spelled]
<1>1. {} \in SUBSET SUBSET Spelled
  OBVIOUS
<1> QED BY <1>1 DEF Agencies!Idle

\* The initial states.
LEMMA AgencyInit == ASSUME Agencies!Init PROVE Agencies!AgencyInv
<1>1. \A t \in AgencyTenders : v1[t] = [raw |-> 0, agency |-> 0] /\ v5[t] = 0
  BY DEF Agencies!Init
<1>2. v3.on = FALSE /\ v3.todo = {} /\ v4 = 0
  BY DEF Agencies!Init, Agencies!Idle
<1>3. Agencies!TypeOK
  <2>1. [raw |-> 0, agency |-> 0] \in AgencyTender /\ 0 \in 0..AgencyRuns
    BY CorpusAssumption DEF AgencyTender
  <2>2. v1 \in [AgencyTenders -> AgencyTender]
    BY <2>1 DEF Agencies!Init
  <2>3. v5 \in [AgencyTenders -> 0..AgencyRuns] /\ v6 \in [AgencyTenders -> Spelled \cup {0}]
    BY <2>1 DEF Agencies!Init
  <2>4. v2 \in [Spelled -> SUBSET Spelled]
    BY DEF Agencies!Init, Spelled
  <2>5. v3 \in [on : BOOLEAN, todo : SUBSET SUBSET Spelled]
    BY IdleHasType DEF Agencies!Init
  <2>6. v4 \in 0..AgencyRuns
    BY <1>2, CorpusAssumption
  <2> QED BY <2>2, <2>3, <2>4, <2>5, <2>6 DEF Agencies!TypeOK, AgencyTender, Spelled
<1>4. Agencies!GroupsInv /\ Agencies!LinksInv /\ Agencies!SpellingsUnite
  BY <1>1, <1>2 DEF Agencies!GroupsInv, Agencies!LinksInv, Agencies!SpellingsUnite
<1> QED BY <1>3, <1>4 DEF Agencies!AgencyInv

\* A tender arrives or is rewritten, a run ends, or nothing happens.
LEMMA AgencyOutside ==
  ASSUME Agencies!AgencyInv,
         \/ \E t \in AgencyTenders, raw \in Spelled \cup {0} : Agencies!Arrive(t, raw)
         \/ Agencies!End \/ UNCHANGED Agencies!vars
  PROVE  Agencies!AgencyInv'
<1>0. Agencies!TypeOK /\ v1 \in [AgencyTenders -> AgencyTender]
  BY DEF Agencies!AgencyInv, Agencies!TypeOK, AgencyTender, Spelled
<1>1. UNCHANGED <<v2, v4, v5, v6>>
  BY DEF Agencies!Arrive, Agencies!End, Agencies!vars
<1>2. v3' = v3 \/ (v3'.on = FALSE /\ v3'.todo = {})
  BY DEF Agencies!Arrive, Agencies!End, Agencies!vars, Agencies!Idle
<1>3. /\ v1' \in [AgencyTenders -> AgencyTender]
      /\ \A t \in AgencyTenders : v1'[t].agency = v1[t].agency
  <2>1. ASSUME NEW t \in AgencyTenders, NEW raw \in Spelled \cup {0}, Agencies!Arrive(t, raw)
        PROVE  /\ v1' \in [AgencyTenders -> AgencyTender]
               /\ \A u \in AgencyTenders : v1'[u].agency = v1[u].agency
    <3> DEFINE new == [v1[t] EXCEPT !.raw = raw]
    <3>1. v1[t] \in AgencyTender /\ v1' = [v1 EXCEPT ![t] = new]
      BY <1>0, <2>1 DEF Agencies!Arrive
    <3>2. new \in AgencyTender /\ new.agency = v1[t].agency
      BY <3>1 DEF AgencyTender
    <3> HIDE DEF new
    <3> QED BY <1>0, <3>1, <3>2
  <2>2. CASE Agencies!End \/ UNCHANGED Agencies!vars
    <3>1. v1' = v1
      BY <2>2 DEF Agencies!End, Agencies!vars
    <3> QED BY <1>0, <3>1
  <2> QED BY <2>1, <2>2
<1>4. Agencies!TypeOK'
  <2>1. v3' \in [on : BOOLEAN, todo : SUBSET SUBSET Spelled]
    <3>1. v3' = v3 \/ v3' = Agencies!Idle
      BY DEF Agencies!Arrive, Agencies!End, Agencies!vars
    <3> QED BY <1>0, <3>1, IdleHasType DEF Agencies!TypeOK, Spelled
  <2> QED BY <1>0, <1>1, <1>3, <2>1 DEF Agencies!TypeOK, AgencyTender, Spelled
<1>5. Agencies!GroupsInv'
  <2>1. ASSUME v3'.on = FALSE, v3'.todo = {} PROVE Agencies!GroupsInv'
    BY <2>1 DEF Agencies!GroupsInv
  <2>2. ASSUME v3' = v3 PROVE Agencies!GroupsInv'
    BY <1>1, <2>2 DEF Agencies!AgencyInv, Agencies!GroupsInv
  <2> QED BY <1>2, <2>1, <2>2
<1>6. Agencies!LinksInv' /\ Agencies!SpellingsUnite'
  BY <1>1, <1>3 DEF Agencies!AgencyInv, Agencies!LinksInv, Agencies!SpellingsUnite, Spelled
<1> QED BY <1>4, <1>5, <1>6 DEF Agencies!AgencyInv

\* A run begins, with one group per key.
LEMMA AgencyStart ==
  ASSUME Agencies!AgencyInv, Agencies!Start PROVE Agencies!AgencyInv'
<1>0. Agencies!TypeOK /\ v1 \in [AgencyTenders -> AgencyTender]
  BY DEF Agencies!AgencyInv, Agencies!TypeOK, AgencyTender, Spelled
<1> DEFINE raw == Agencies!Raw
           todo == {{s \in raw : AgencyKey[s] = AgencyKey[r]} : r \in raw}
<1>1. /\ v3' = [on |-> TRUE, todo |-> todo] /\ v4' = v4 + 1 /\ v4 < AgencyRuns
      /\ UNCHANGED <<v1, v2, v5, v6>>
  BY DEF Agencies!Start
<1>2. raw \subseteq Spelled
  BY <1>0 DEF Agencies!Raw, Agencies!Unlinked, AgencyTender
<1>3. v4 \in Nat /\ \A t \in AgencyTenders : v5[t] <= v4 /\ v5[t] \in Nat
  BY <1>0, CorpusAssumption DEF Agencies!TypeOK, Agencies!AgencyInv, Agencies!LinksInv
<1> HIDE DEF raw
<1>4. \A g \in todo : /\ g # {} /\ g \subseteq Spelled
                      /\ \A r, s \in g : AgencyKey[r] = AgencyKey[s]
                      /\ \A h \in todo : g = h \/ \A r \in g, s \in h : AgencyKey[r] # AgencyKey[s]
  <2> SUFFICES ASSUME NEW x \in raw, NEW y \in raw
               PROVE  LET g == {s \in raw : AgencyKey[s] = AgencyKey[x]}
                          h == {s \in raw : AgencyKey[s] = AgencyKey[y]}
                      IN /\ x \in g /\ g \subseteq Spelled
                         /\ \A r, s \in g : AgencyKey[r] = AgencyKey[s]
                         /\ g = h \/ \A r \in g, s \in h : AgencyKey[r] # AgencyKey[s]
    OBVIOUS
  <2>1. CASE AgencyKey[x] = AgencyKey[y]
    BY <1>2, <2>1
  <2>2. CASE AgencyKey[x] # AgencyKey[y]
    BY <1>2, <2>2
  <2> QED BY <2>1, <2>2
<1> HIDE DEF todo
<1>5. v3'.on = TRUE /\ v3'.todo = todo
  BY <1>1
<1>6. Agencies!TypeOK'
  BY <1>0, <1>1, <1>3, <1>4, <1>5, CorpusAssumption DEF Agencies!TypeOK, Spelled
<1>7. Agencies!GroupsInv'
  BY <1>1, <1>3, <1>4, <1>5 DEF Agencies!GroupsInv, Spelled
<1>8. Agencies!LinksInv' /\ Agencies!SpellingsUnite'
  BY <1>1, <1>3 DEF Agencies!AgencyInv, Agencies!LinksInv, Agencies!SpellingsUnite
<1> QED BY <1>6, <1>7, <1>8 DEF Agencies!AgencyInv


\* One group becomes an agency, and its tenders are linked.
LEMMA AgencyLink ==
  ASSUME Agencies!AgencyInv, NEW variants \in v3.todo, Agencies!Link(variants)
  PROVE  Agencies!AgencyInv'
<1>0. Agencies!TypeOK /\ v1 \in [AgencyTenders -> AgencyTender]
  BY DEF Agencies!AgencyInv, Agencies!TypeOK, AgencyTender, Spelled
<1> DEFINE linked == {t \in Agencies!Unlinked : v1[t].raw \in variants}
           longest == Agencies!Max(variants)
           todo == v3.todo \ {variants}
<1>1. /\ v1' = [t \in AgencyTenders |->
                   IF t \in linked THEN [v1[t] EXCEPT !.agency = longest] ELSE v1[t]]
      /\ v5' = [t \in AgencyTenders |-> IF t \in linked THEN v4 ELSE v5[t]]
      /\ v6' = [t \in AgencyTenders |-> IF t \in linked THEN v1[t].raw ELSE v6[t]]
      /\ v2' = [v2 EXCEPT ![longest] = @ \cup variants]
      /\ v3' = [v3 EXCEPT !.todo = todo] /\ v4' = v4 /\ v3.on
  BY DEF Agencies!Link, Agencies!Display
<1>2. /\ variants # {} /\ variants \subseteq Spelled
      /\ \A r, s \in variants : AgencyKey[r] = AgencyKey[s]
      /\ \A h \in todo : \A r \in variants, s \in h : AgencyKey[r] # AgencyKey[s]
      /\ \A t \in AgencyTenders : v5[t] = v4 =>
           \A s \in variants : AgencyKey[s] # AgencyKey[v6[t]]
  BY DEF Agencies!AgencyInv, Agencies!GroupsInv, Spelled
<1>3. longest \in variants
  BY <1>2, SpelledIsBounded
<1>4. /\ v4 \in 1..AgencyRuns /\ v4 # 0 /\ AgencyRuns \in Nat
      /\ v5 \in [AgencyTenders -> 0..AgencyRuns]
  <2>1. v4 \in 0..AgencyRuns /\ AgencyRuns \in Nat
    BY <1>0, CorpusAssumption DEF Agencies!TypeOK
  <2>2. v4 > 0
    BY <1>1 DEF Agencies!AgencyInv, Agencies!GroupsInv
  <2>3. v5 \in [AgencyTenders -> 0..AgencyRuns]
    BY <1>0 DEF Agencies!TypeOK
  <2> QED BY <2>1, <2>2, <2>3
<1>5. \A t \in linked : t \in AgencyTenders /\ v1[t].raw \in variants /\ v1[t].agency = 0
  BY DEF Agencies!Unlinked
<1> HIDE DEF linked, longest, todo
<1>6. /\ v1' \in [AgencyTenders -> AgencyTender]
      /\ \A t \in linked : v1'[t].agency = longest
      /\ \A t \in AgencyTenders \ linked : v1'[t] = v1[t]
  <2>1. ASSUME NEW t \in AgencyTenders
        PROVE  /\ [v1[t] EXCEPT !.agency = longest] \in AgencyTender
               /\ [v1[t] EXCEPT !.agency = longest].agency = longest
    <3>1. v1[t] \in AgencyTender /\ longest \in Spelled
      BY <1>0, <1>2, <1>3
    <3> QED BY <3>1 DEF AgencyTender
  <2>2. \A t \in AgencyTenders : v1[t] \in AgencyTender
    BY <1>0
  <2>3. \A t \in AgencyTenders :
          v1'[t] = IF t \in linked THEN [v1[t] EXCEPT !.agency = longest] ELSE v1[t]
    BY <1>1
  <2>4. v1' \in [AgencyTenders -> AgencyTender]
    BY <1>1, <2>1, <2>2
  <2> QED BY <1>5, <2>1, <2>3, <2>4
<1>7. /\ v5' \in [AgencyTenders -> 0..AgencyRuns]
      /\ v6' \in [AgencyTenders -> Spelled \cup {0}]
      /\ \A t \in linked : v5'[t] = v4 /\ v6'[t] \in variants
      /\ \A t \in AgencyTenders \ linked : v5'[t] = v5[t] /\ v6'[t] = v6[t]
  <2>1. v4 \in 0..AgencyRuns
    BY <1>4
  <2>2. \A t \in AgencyTenders : /\ v5'[t] = IF t \in linked THEN v4 ELSE v5[t]
                                /\ v6'[t] = IF t \in linked THEN v1[t].raw ELSE v6[t]
    BY <1>1
  <2>3. \A t \in AgencyTenders : v5[t] \in 0..AgencyRuns /\ v6[t] \in Spelled \cup {0}
    BY <1>0, <1>4 DEF Agencies!TypeOK, Spelled
  <2>4. v5' \in [AgencyTenders -> 0..AgencyRuns]
    BY <1>1, <2>1, <2>3
  <2>5. \A t \in linked : v1[t].raw \in Spelled \cup {0}
    BY <1>2, <1>5
  <2>6. v6' \in [AgencyTenders -> Spelled \cup {0}]
    BY <1>1, <2>3, <2>5
  <2> QED BY <1>5, <2>2, <2>4, <2>6
<1>8. /\ v2' \in [Spelled -> SUBSET Spelled] /\ variants \subseteq v2'[longest]
      /\ \A a \in Spelled : v2[a] \subseteq v2'[a]
  <2>1. v2 \in [Spelled -> SUBSET Spelled] /\ longest \in Spelled
    BY <1>0, <1>2, <1>3 DEF Agencies!TypeOK, Spelled
  <2> QED BY <1>1, <1>2, <2>1
<1>9. v3'.on = v3.on /\ v3'.todo = todo /\ v3' \in [on : BOOLEAN, todo : SUBSET SUBSET Spelled]
  <2>1. v3 \in [on : BOOLEAN, todo : SUBSET SUBSET Spelled] /\ todo \subseteq v3.todo
    BY <1>0 DEF Agencies!TypeOK, Spelled, todo
  <2> QED BY <1>1, <2>1
<1>10. Agencies!TypeOK'
  <2>1. todo \subseteq v3.todo
    BY DEF todo
  <2> QED BY <1>0, <1>1, <1>6, <1>7, <1>8, <1>9, <2>1 DEF Agencies!TypeOK, AgencyTender, Spelled
<1>11. Agencies!GroupsInv'
  <2>1. todo \subseteq v3.todo
    BY DEF todo
  <2>2. ASSUME NEW g \in todo, NEW t \in AgencyTenders, v5'[t] = v4, NEW s \in g
        PROVE  AgencyKey[s] # AgencyKey[v6'[t]]
    <3>1. CASE t \in linked
      BY <1>2, <1>7, <2>2, <3>1
    <3>2. CASE t \notin linked
      <4>1. v5[t] = v4
        BY <1>7, <2>2, <3>2
      <4> QED BY <1>7, <2>1, <2>2, <3>2, <4>1 DEF Agencies!AgencyInv, Agencies!GroupsInv
    <3> QED BY <3>1, <3>2
  <2>3. v4 > 0
    BY <1>4
  <2> QED BY <1>1, <1>9, <2>1, <2>2, <2>3 DEF Agencies!AgencyInv, Agencies!GroupsInv
<1>12. Agencies!LinksInv'
  <2> SUFFICES ASSUME NEW t \in AgencyTenders
      PROVE /\ v5'[t] <= v4
            /\ IF v5'[t] = 0 THEN v1'[t].agency = 0
               ELSE /\ v6'[t] \in Spelled /\ v1'[t].agency \in Spelled
                    /\ AgencyKey[v1'[t].agency] = AgencyKey[v6'[t]]
    BY <1>1 DEF Agencies!LinksInv, Spelled
  <2>1. CASE t \in linked
    <3>1. v5'[t] = v4 /\ v1'[t].agency = longest /\ v6'[t] \in variants
      BY <1>6, <1>7, <2>1
    <3> QED BY <1>2, <1>3, <1>4, <3>1
  <2>2. CASE t \notin linked
    BY <1>6, <1>7, <2>2 DEF Agencies!AgencyInv, Agencies!LinksInv, Spelled
  <2> QED BY <2>1, <2>2
<1>13. Agencies!SpellingsUnite'
  <2>1. ASSUME NEW t \in AgencyTenders, v5'[t] # 0
        PROVE  v6'[t] \in v2'[v1'[t].agency]
    <3>1. CASE t \in linked
      BY <1>6, <1>7, <1>8, <3>1
    <3>2. CASE t \notin linked
      <4>1. v5[t] # 0 /\ v1'[t] = v1[t] /\ v6'[t] = v6[t]
        BY <1>6, <1>7, <2>1, <3>2
      <4>2. v6[t] \in v2[v1[t].agency] /\ v1[t].agency \in Spelled
        BY <4>1 DEF Agencies!AgencyInv, Agencies!SpellingsUnite, Agencies!LinksInv, Spelled
      <4> QED BY <1>8, <4>1, <4>2
    <3> QED BY <3>1, <3>2
  <2>2. ASSUME NEW t \in AgencyTenders, NEW u \in AgencyTenders, v5'[t] # 0, v5'[u] # 0
        PROVE  v1'[t].agency = v1'[u].agency => AgencyKey[v6'[t]] = AgencyKey[v6'[u]]
    BY <1>12, <2>2 DEF Agencies!LinksInv
  <2>3. ASSUME NEW t \in AgencyTenders, NEW u \in AgencyTenders, v5'[t] # 0, v5'[u] # 0,
               v5'[t] = v5'[u], AgencyKey[v6'[t]] = AgencyKey[v6'[u]]
        PROVE  v1'[t].agency = v1'[u].agency
    <3>1. CASE t \in linked /\ u \in linked
      BY <1>6, <3>1
    <3>2. CASE t \in linked /\ u \notin linked
      BY <1>2, <1>7, <2>3, <3>2
    <3>3. CASE t \notin linked /\ u \in linked
      BY <1>2, <1>7, <2>3, <3>3
    <3>4. CASE t \notin linked /\ u \notin linked
      <4>1. /\ v5[t] # 0 /\ v5[u] # 0 /\ v5[t] = v5[u] /\ v1'[t] = v1[t] /\ v1'[u] = v1[u]
            /\ v6'[t] = v6[t] /\ v6'[u] = v6[u]
        BY <1>6, <1>7, <2>3, <3>4
      <4> QED BY <2>3, <4>1 DEF Agencies!AgencyInv, Agencies!SpellingsUnite
    <3> QED BY <3>1, <3>2, <3>3, <3>4
  <2> QED BY <2>1, <2>2, <2>3 DEF Agencies!SpellingsUnite
<1> QED BY <1>10, <1>11, <1>12, <1>13 DEF Agencies!AgencyInv

\* Every step.
LEMMA AgencyStep ==
  ASSUME Agencies!AgencyInv, Agencies!Next \/ UNCHANGED Agencies!vars
  PROVE  Agencies!AgencyInv'
BY AgencyOutside, AgencyStart, AgencyLink DEF Agencies!Next, Spelled

-----------------------------------------------------------------------------
(***************************************************************************)
(* CaptureChecks: what was captured is healed and counted as claimed.      *)
(* v1 .. v12 are listing, published, corpus, walk, gaps, audit, verdict,   *)
(* runs, gone, head, ownHeal and shifted.                                  *)
(***************************************************************************)
Checked == 1..CheckTenders
Captor == {"nobody", "poller", "reconcile"}
CheckWalk == [phase : {"off", "counted", "page", "done"}, page : 0..CheckHead, rows : Seq(Checked),
              seen : 0..(CheckHead * CheckPage), healed : 0..(CheckHead * CheckPage)]
CheckAudit == [phase : {"off", "pages"}, pages : SUBSET Nat, sample : Seq(Checked)]
CheckVerdict == [passed : BOOLEAN, captured : 0..CheckSample, sampled : 0..CheckSample,
                 missing : 0..CheckSample, steady : BOOLEAN]

\* Cardinality means the same in the module and here.
LEMMA CheckCardinality == \A S : Capture!Cardinality(S) = Cardinality(S)
BY DEF Cardinality, Capture!Cardinality

\* The types, by the names above.
LEMMA CheckTypes ==
  Capture!TypeOK <=>
    /\ v1 \in Seq(Checked) /\ v2 \in 0..CheckTenders /\ v3 \in [Checked -> Captor]
    /\ v4 \in CheckWalk /\ (\A g \in v5 : g.healed <= g.sampled) /\ v6 \in CheckAudit
    /\ v7 \in CheckVerdict /\ v8 \in 0..CheckRuns /\ v9 \in 0..CheckGone
    /\ v10 \subseteq Checked /\ v11 \subseteq Checked /\ v12 \in BOOLEAN
BY DEF Capture!TypeOK, Capture!Tenders, Checked, Captor, CheckWalk, CheckAudit, CheckVerdict

\* The types again, of the next state.
LEMMA CheckTypesAfter ==
  ASSUME v1' \in Seq(Checked), v2' \in 0..CheckTenders, v3' \in [Checked -> Captor],
         v4' \in CheckWalk, \A g \in v5' : g.healed <= g.sampled, v6' \in CheckAudit,
         v7' \in CheckVerdict, v8' \in 0..CheckRuns, v9' \in 0..CheckGone,
         v10' \subseteq Checked, v11' \subseteq Checked, v12' \in BOOLEAN
  PROVE  Capture!TypeOK'
BY DEF Capture!TypeOK, Capture!Tenders, Checked, Captor, CheckWalk, CheckAudit, CheckVerdict

-----------------------------------------------------------------------------
\* Where a page ends.
PageEnd(n) == n * CheckPage

\* A page ends one page size after the one before it.
LEMMA PagesAreApart ==
  /\ PageEnd(0) = 0
  /\ \A n \in Nat : PageEnd(n) \in Nat /\ PageEnd(n + 1) = PageEnd(n) + CheckPage
  /\ \A m, n \in Nat : m <= n => PageEnd(m) <= PageEnd(n)
<1>1. CheckPage \in Nat
  BY CorpusAssumption
<1>2. ASSUME NEW m \in Nat, NEW n \in Nat, m <= n PROVE m * CheckPage <= n * CheckPage
  <2>1. PICK d \in Nat : n = m + d
    <3>1. n - m \in Nat /\ n = m + (n - m)
      BY <1>2
    <3> QED BY <3>1
  <2>2. (m + d) * CheckPage = m * CheckPage + d * CheckPage
    BY <1>1
  <2>3. m * CheckPage \in Nat /\ d * CheckPage \in Nat
    BY <1>1
  <2> QED BY <2>1, <2>2, <2>3
<1>3. ASSUME NEW n \in Nat
      PROVE  n * CheckPage \in Nat /\ (n + 1) * CheckPage = n * CheckPage + CheckPage
  BY <1>1
<1>4. 0 * CheckPage = 0
  BY <1>1
<1> QED BY <1>2, <1>3, <1>4 DEF PageEnd

\* Min of two numbers.
LEMMA LesserOfTwo ==
  ASSUME NEW a \in Nat, NEW b \in Nat
  PROVE  Capture!Min({a, b}) \in Nat /\ Capture!Min({a, b}) = IF a <= b THEN a ELSE b
<1>1. \E x \in {a, b} : \A y \in {a, b} : x <= y
  OBVIOUS
<1>2. Capture!Min({a, b}) \in {a, b} /\ \A y \in {a, b} : Capture!Min({a, b}) <= y
  BY <1>1 DEF Capture!Min
<1> QED BY <1>2

\* The rows of a page are those of the listing up to its end.
LEMMA RowsOfPage ==
  ASSUME v1 \in Seq(Checked), NEW n \in Nat \ {0}
  PROVE  /\ Capture!Page(n) \in Seq(Checked) /\ Len(Capture!Page(n)) \in 0..CheckPage
         /\ \A j \in 1..Len(Capture!Page(n)) :
              /\ PageEnd(n - 1) + j \in 1..Len(v1) /\ PageEnd(n - 1) + j <= PageEnd(n)
              /\ Capture!Page(n)[j] = v1[PageEnd(n - 1) + j]
         /\ \A i \in 1..Len(v1) : PageEnd(n - 1) < i /\ i <= PageEnd(n) =>
              \E j \in 1..Len(Capture!Page(n)) : Capture!Page(n)[j] = v1[i]
<1> DEFINE from == PageEnd(n - 1)
           to == PageEnd(n)
           end == Capture!Min({to, Len(v1)})
           p == Capture!Page(n)
<1>1. /\ from \in Nat /\ to = from + CheckPage /\ CheckPage \in Nat /\ Len(v1) \in Nat
      /\ \A i \in 1..Len(v1) : v1[i] \in Checked
  <2>1. n - 1 \in Nat /\ n - 1 + 1 = n
    OBVIOUS
  <2>2. Len(v1) \in Nat /\ \A i \in 1..Len(v1) : v1[i] \in Checked
    BY LenProperties
  <2> QED BY <2>1, <2>2, PagesAreApart, CorpusAssumption
<1>2. p = SubSeq(v1, from + 1, end)
  BY DEF Capture!Page, PageEnd
<1> HIDE DEF from, to, p
<1>3. end \in Nat /\ end = IF to <= Len(v1) THEN to ELSE Len(v1)
  BY <1>1, LesserOfTwo
<1> HIDE DEF end
<1>4. \A i \in (from + 1)..end : v1[i] \in Checked
  BY <1>1, <1>3
<1>5. /\ p \in Seq(Checked) /\ Len(p) = IF from + 1 <= end THEN end - (from + 1) + 1 ELSE 0
      /\ \A j \in 1..(end - (from + 1) + 1) : p[j] = v1[from + 1 + j - 1]
  BY <1>1, <1>2, <1>3, <1>4, SubSeqProperties
<1>6. Len(p) = IF from < end THEN end - from ELSE 0
  BY <1>1, <1>3, <1>5
<1>7. ASSUME NEW j \in 1..Len(p)
      PROVE  from + j \in 1..Len(v1) /\ from + j <= to /\ p[j] = v1[from + j]
  <2>1. from < end /\ Len(p) = end - from
    BY <1>1, <1>3, <1>6, <1>7
  <2>2. j \in 1..(end - (from + 1) + 1) /\ from + 1 + j - 1 = from + j
    BY <1>1, <1>3, <2>1
  <2>3. p[j] = v1[from + j]
    BY <1>5, <2>2
  <2> QED BY <1>1, <1>3, <2>1, <2>3
<1>8. ASSUME NEW i \in 1..Len(v1), from < i, i <= to PROVE \E j \in 1..Len(p) : p[j] = v1[i]
  <2>1. i - from \in 1..Len(p) /\ from + (i - from) = i
    BY <1>1, <1>3, <1>6, <1>8
  <2> QED BY <1>7, <2>1
<1>9. Len(p) \in 0..CheckPage
  BY <1>1, <1>3, <1>6
<1> QED BY <1>5, <1>7, <1>8, <1>9 DEF from, to, p

\* The head of the listing.
LEMMA RowsOfHead ==
  ASSUME v1 \in Seq(Checked)
  PROVE  \A t : t \in Capture!TopRows <=>
                  \E i \in 1..Len(v1) : i <= PageEnd(CheckHead) /\ t = v1[i]
<1>1. Len(v1) \in Nat /\ CheckHead \in Nat
  BY LenProperties, CorpusAssumption
<1>2. PageEnd(CheckHead) \in Nat
  BY <1>1, PagesAreApart
<1> DEFINE end == Capture!Min({PageEnd(CheckHead), Len(v1)})
<1>3. end \in Nat /\ end = IF PageEnd(CheckHead) <= Len(v1) THEN PageEnd(CheckHead) ELSE Len(v1)
  BY <1>1, <1>2, LesserOfTwo
<1>4. Capture!TopRows = {v1[i] : i \in 1..end}
  BY DEF Capture!TopRows, PageEnd
<1> HIDE DEF end
<1>5. \A i \in Nat : i \in 1..end <=> i \in 1..Len(v1) /\ i <= PageEnd(CheckHead)
  BY <1>1, <1>2, <1>3
<1> QED BY <1>1, <1>3, <1>4, <1>5

\* When the head sample is done, the walk has been over the head.
LEMMA HeadWasWalked == ASSUME Capture!CaptureInv PROVE Capture!HeadIsCaptured
<1> SUFFICES ASSUME v4.phase = "done", v9 = 0, NEW t \in v10 \cap Capture!TopRows
             PROVE  t \in Capture!Held(Checked)
  BY DEF Capture!HeadIsCaptured, Capture!Tenders, Checked
<1>1. v1 \in Seq(Checked) /\ v2 \in Nat /\ v10 \subseteq Checked
  BY CheckTypes, CorpusAssumption DEF Capture!CaptureInv
<1>2. PICK i \in 1..Len(v1) : i <= PageEnd(CheckHead) /\ t = v1[i]
  BY <1>1, RowsOfHead
<1>3. Len(v1) \in Nat /\ DOMAIN v1 = 1..Len(v1)
  BY <1>1, LenProperties
<1>4. v1[i] = v2 + 1 - i
  BY <1>3 DEF Capture!CaptureInv, Capture!ListingInv
<1>5. Capture!Place(t) = i
  BY <1>1, <1>2, <1>3, <1>4 DEF Capture!Place
<1>6. v4.page = CheckHead /\ v4.rows = << >>
  BY DEF Capture!CaptureInv, Capture!WalkInv
<1>7. t \in Capture!Held(Checked) \cup Capture!Range(v4.rows)
  BY <1>2, <1>5, <1>6 DEF Capture!CaptureInv, Capture!WalkInv, PageEnd, Capture!Tenders, Checked
<1>8. Capture!Range(<< >>) = {}
  <2>1. DOMAIN << >> = 1..0 /\ 1..0 = {}
    BY EmptySeq, LenProperties
  <2> QED BY <2>1 DEF Capture!Range
<1> QED BY <1>6, <1>7, <1>8

\* No walk, audit and verdict, as values.
LEMMA NothingChecked ==
  /\ << >> \in Seq(Checked) /\ Len(<< >>) = 0 /\ DOMAIN << >> = {} /\ Capture!Range(<< >>) = {}
  /\ Capture!NoWalk \in CheckWalk /\ Capture!NoWalk.phase = "off" /\ Capture!NoWalk.page = 0
  /\ Capture!NoWalk.rows = << >> /\ Capture!NoWalk.seen = 0 /\ Capture!NoWalk.healed = 0
  /\ Capture!NoAudit \in CheckAudit /\ Capture!NoAudit.phase = "off"
  /\ Capture!NoAudit.pages = {} /\ Capture!NoVerdict \in CheckVerdict
  /\ Capture!NoVerdict.passed = FALSE /\ Capture!NoVerdict.steady = FALSE
<1>1. << >> \in Seq(Checked) /\ Len(<< >>) = 0 /\ DOMAIN << >> = 1..0 /\ 1..0 = {}
  BY EmptySeq, LenProperties
<1>2. Capture!Range(<< >>) = {}
  BY <1>1 DEF Capture!Range
<1>3. 0 \in 0..CheckHead /\ 0 \in 0..(CheckHead * CheckPage) /\ 0 \in 0..CheckSample
  <2>1. CheckHead * CheckPage \in Nat
    BY PagesAreApart, CorpusAssumption DEF PageEnd
  <2> QED BY <2>1, CorpusAssumption
<1>4. /\ Capture!NoWalk \in CheckWalk /\ Capture!NoWalk.phase = "off" /\ Capture!NoWalk.page = 0
      /\ Capture!NoWalk.rows = << >> /\ Capture!NoWalk.seen = 0 /\ Capture!NoWalk.healed = 0
  BY <1>1, <1>3 DEF Capture!NoWalk, CheckWalk
<1>5. /\ Capture!NoAudit \in CheckAudit /\ Capture!NoAudit.phase = "off"
      /\ Capture!NoAudit.pages = {}
  BY <1>1 DEF Capture!NoAudit, CheckAudit
<1>6. Capture!NoVerdict \in CheckVerdict
  BY <1>3 DEF Capture!NoVerdict, CheckVerdict
<1>7. Capture!NoVerdict.passed = FALSE /\ Capture!NoVerdict.steady = FALSE
  BY DEF Capture!NoVerdict
<1> QED BY <1>1, <1>2, <1>4, <1>5, <1>6, <1>7

\* Of a walk that is off nothing has to hold.
LEMMA WalkIsOff ==
  ASSUME v4' = Capture!NoWalk, v2' \in Nat, v10' \subseteq 1..v2',
         (v11 \subseteq Capture!Held(Checked))'
  PROVE  Capture!WalkInv' /\ Capture!HealedOnce'
<1>1. 0 * CheckPage = 0
  BY PagesAreApart DEF PageEnd
<1> QED BY <1>1, NothingChecked DEF Capture!WalkInv, Capture!HealedOnce, Capture!Tenders, Checked

\* The initial states.
LEMMA CaptureInit == ASSUME Capture!Init PROVE Capture!CaptureInv
<1>1. /\ v1 = << >> /\ v2 = 0 /\ v3 = [t \in Checked |-> "nobody"] /\ v4 = Capture!NoWalk
      /\ v5 = {} /\ v6 = Capture!NoAudit /\ v7 = Capture!NoVerdict /\ v8 = 0 /\ v9 = 0
      /\ v10 = {} /\ v11 = {} /\ v12 = FALSE
  BY DEF Capture!Init, Capture!Tenders, Checked
<1>2. Capture!TypeOK
  <2>1. 0 \in 0..CheckTenders /\ 0 \in 0..CheckRuns /\ 0 \in 0..CheckGone
    BY CorpusAssumption
  <2>2. v3 \in [Checked -> Captor]
    BY <1>1 DEF Captor
  <2> QED BY <1>1, <2>1, <2>2, NothingChecked, CheckTypes
<1>3. Capture!ListingInv
  BY <1>1, NothingChecked DEF Capture!ListingInv
<1>4. Capture!WalkInv /\ Capture!HealedOnce
  <2>1. 0 * CheckPage = 0
    BY PagesAreApart DEF PageEnd
  <2> QED BY <1>1, <2>1, NothingChecked DEF Capture!WalkInv, Capture!HealedOnce
<1>5. Capture!SampleInv /\ Capture!AuditIsHonest
  BY <1>1, NothingChecked DEF Capture!SampleInv, Capture!AuditIsHonest
<1> QED BY <1>2, <1>3, <1>4, <1>5 DEF Capture!CaptureInv

\* The page that a walk has come to.
LEMMA PageIsCounted ==
  ASSUME Capture!TypeOK
  PROVE  v4.page \in 0..CheckHead /\ PageEnd(v4.page) \in Nat
<1>1. v4.page \in 0..CheckHead
  BY CheckTypes DEF CheckWalk
<1>2. v4.page \in Nat
  BY <1>1, CorpusAssumption
<1> QED BY <1>1, <1>2, PagesAreApart

\* A sample stands while listing and audit do.
LEMMA SampleStands ==
  ASSUME Capture!SampleInv, UNCHANGED <<v1, v6, v12>> PROVE Capture!SampleInv'
<1>1. \A n : Capture!Page(n)' = Capture!Page(n)
  BY DEF Capture!Page
<1> QED BY <1>1 DEF Capture!SampleInv, Capture!Range

-----------------------------------------------------------------------------
\* The source publishes: every tender moves one place on.
LEMMA CapturePublish ==
  ASSUME Capture!CaptureInv, Capture!Publish PROVE Capture!CaptureInv'
<1>0. /\ Capture!TypeOK /\ UNCHANGED <<v3, v4, v5, v6, v7, v8, v9, v10, v11>>
      /\ v2 < CheckTenders /\ v2' = v2 + 1 /\ v1' = <<v2 + 1>> \o v1 /\ v12' = TRUE
  BY DEF Capture!CaptureInv, Capture!Publish
<1>1. /\ v1 \in Seq(Checked) /\ v2 \in Nat /\ v2' \in 0..CheckTenders /\ v2 + 1 \in Checked
      /\ Len(v1) \in Nat /\ DOMAIN v1 = 1..Len(v1)
  <2>1. v1 \in Seq(Checked) /\ v2 \in 0..CheckTenders
    BY <1>0, CheckTypes
  <2> QED BY <1>0, <2>1, LenProperties, CorpusAssumption DEF Checked
<1>2. /\ v1' \in Seq(Checked) /\ Len(v1') = Len(v1) + 1 /\ DOMAIN v1' = 1..(Len(v1) + 1)
      /\ v1'[1] = v2 + 1 /\ \A i \in 1..Len(v1) : v1'[i + 1] = v1[i]
  <2> DEFINE one == <<v2 + 1>>
  <2>1. one \in Seq(Checked) /\ Len(one) = 1 /\ one[1] = v2 + 1
    BY <1>1
  <2> HIDE DEF one
  <2>2. /\ v1' \in Seq(Checked) /\ Len(v1') = 1 + Len(v1)
        /\ \A i \in 1..(1 + Len(v1)) : v1'[i] = IF i <= 1 THEN one[i] ELSE v1[i - 1]
    BY <1>0, <1>1, <2>1, ConcatProperties DEF one
  <2>3. v1'[1] = v2 + 1
    BY <1>1, <2>1, <2>2
  <2>4. ASSUME NEW i \in 1..Len(v1) PROVE v1'[i + 1] = v1[i]
    <3>1. i + 1 \in 1..(1 + Len(v1)) /\ ~(i + 1 <= 1) /\ i + 1 - 1 = i
      BY <1>1
    <3> QED BY <2>2, <3>1
  <2>5. Len(v1') = Len(v1) + 1 /\ DOMAIN v1' = 1..Len(v1')
    BY <1>1, <2>2, LenProperties
  <2> QED BY <2>2, <2>3, <2>4, <2>5
<1>3. Capture!TypeOK'
  BY <1>0, <1>1, <1>2, CheckTypes, CheckTypesAfter
<1>4. \A j \in DOMAIN v1' : j = 1 \/ (j - 1 \in 1..Len(v1) /\ v1'[j] = v1[j - 1])
  <2> TAKE j \in DOMAIN v1'
  <2>1. CASE j # 1
    <3>1. j - 1 \in 1..Len(v1) /\ (j - 1) + 1 = j
      BY <1>1, <1>2, <2>1
    <3> QED BY <1>2, <3>1
  <2> QED BY <2>1
<1>5. /\ \A i \in 1..Len(v1) : v1[i] \in 1..v2
      /\ \A i, j \in 1..Len(v1) : i < j => v1[j] < v1[i]
      /\ v9 = 0 => Len(v1) = v2 /\ \A i \in 1..Len(v1) : v1[i] = v2 + 1 - i
  BY <1>1 DEF Capture!CaptureInv, Capture!ListingInv
<1>6. Capture!ListingInv'
  <2>1. \A j \in DOMAIN v1' : v1'[j] \in 1..(v2 + 1)
    <3>1. \A x \in 1..v2 : x \in 1..(v2 + 1)
      BY <1>1
    <3>2. v2 + 1 \in 1..(v2 + 1)
      BY <1>1
    <3>3. \A j \in DOMAIN v1' : j # 1 => v1'[j] \in 1..v2
      BY <1>4, <1>5
    <3> QED BY <1>2, <3>1, <3>2, <3>3
  <2>2. ASSUME NEW i \in DOMAIN v1', NEW j \in DOMAIN v1', i < j PROVE v1'[j] < v1'[i]
    <3>1. i \in Nat /\ j \in Nat /\ i >= 1 /\ j # 1
      BY <1>1, <1>2, <2>2
    <3>2. j - 1 \in 1..Len(v1) /\ v1'[j] = v1[j - 1] /\ v1[j - 1] \in 1..v2
      BY <1>4, <1>5, <3>1
    <3>3. CASE i = 1
      BY <1>1, <1>2, <3>2, <3>3
    <3>4. CASE i # 1
      <4>1. i - 1 \in 1..Len(v1) /\ v1'[i] = v1[i - 1] /\ i - 1 < j - 1
        BY <1>4, <2>2, <3>1, <3>4
      <4> QED BY <1>5, <3>2, <4>1
    <3> QED BY <3>3, <3>4
  <2>3. ASSUME v9 = 0, NEW j \in DOMAIN v1' PROVE v1'[j] = v2' + 1 - j
    <3>1. j \in Nat
      BY <1>1, <1>2
    <3>2. CASE j = 1
      BY <1>0, <1>1, <1>2, <3>2
    <3>3. CASE j # 1
      <4>1. j - 1 \in 1..Len(v1) /\ v1'[j] = v1[j - 1] /\ v1[j - 1] = v2 + 1 - (j - 1)
        BY <1>4, <1>5, <2>3, <3>3
      <4> QED BY <1>0, <1>1, <3>1, <4>1
    <3> QED BY <3>2, <3>3
  <2>4. v9 = 0 => Len(v1') = v2'
    BY <1>0, <1>1, <1>2, <1>5
  <2> QED BY <1>0, <2>1, <2>2, <2>3, <2>4 DEF Capture!ListingInv
<1>7. Capture!WalkInv'
  <2>1. v10 \subseteq 1..v2 /\ 1..v2 \subseteq 1..v2'
    BY <1>0, <1>1 DEF Capture!CaptureInv, Capture!WalkInv
  <2>2. ASSUME NEW t \in v10, Capture!Place(t)' <= v4.page * CheckPage
        PROVE  Capture!Place(t) <= v4.page * CheckPage
    <3>1. v4.page * CheckPage \in Nat
      BY <1>0, PageIsCounted DEF PageEnd
    <3>2. t \in Int
      BY <2>1
    <3> QED BY <1>0, <1>1, <2>2, <3>1, <3>2 DEF Capture!Place
  <2>3. Capture!Held(Checked)' = Capture!Held(Checked)
    BY <1>0 DEF Capture!Held
  <2> QED BY <1>0, <2>1, <2>2, <2>3
          DEF Capture!CaptureInv, Capture!WalkInv, Capture!Range, Capture!Tenders, Checked,
              Capture!NoWalk
<1>8. Capture!SampleInv' /\ Capture!HealedOnce' /\ Capture!AuditIsHonest'
  BY <1>0 DEF Capture!CaptureInv, Capture!SampleInv, Capture!HealedOnce, Capture!AuditIsHonest
<1> QED BY <1>3, <1>6, <1>7, <1>8 DEF Capture!CaptureInv

\* A tender leaves the listing; what is left is in order.
LEMMA CaptureWithdraw ==
  ASSUME Capture!CaptureInv, NEW i \in DOMAIN v1, Capture!Withdraw(i)
  PROVE  Capture!CaptureInv'
<1>0. /\ Capture!TypeOK /\ UNCHANGED <<v2, v3, v4, v5, v6, v7, v8, v10, v11>>
      /\ v9 < CheckGone /\ v9' = v9 + 1 /\ v12' = TRUE
      /\ v1' = SubSeq(v1, 1, i - 1) \o SubSeq(v1, i + 1, Len(v1))
  BY DEF Capture!CaptureInv, Capture!Withdraw
<1>1. /\ v1 \in Seq(Checked) /\ v9' \in 0..CheckGone /\ v9' # 0
      /\ Len(v1) \in Nat /\ DOMAIN v1 = 1..Len(v1) /\ \A k \in 1..Len(v1) : v1[k] \in Checked
  <2>1. v1 \in Seq(Checked) /\ v9 \in 0..CheckGone
    BY <1>0, CheckTypes
  <2> QED BY <1>0, <2>1, LenProperties, CorpusAssumption
<1> DEFINE a == SubSeq(v1, 1, i - 1)
           b == SubSeq(v1, i + 1, Len(v1))
           Of(k) == IF k < i THEN k ELSE k + 1
<1>2. /\ v1' \in Seq(Checked) /\ DOMAIN v1' = 1..(Len(v1) - 1)
      /\ \A k \in 1..(Len(v1) - 1) : v1'[k] = v1[Of(k)]
  <2>1. /\ a \in Seq(Checked) /\ Len(a) = i - 1 /\ \A k \in 1..(i - 1) : a[k] = v1[k]
    <3>1. \A k \in 1..(i - 1) : v1[k] \in Checked
      BY <1>1
    <3>2. /\ a \in Seq(Checked) /\ Len(a) = IF 1 <= i - 1 THEN i - 1 - 1 + 1 ELSE 0
          /\ \A k \in 1..(i - 1 - 1 + 1) : a[k] = v1[1 + k - 1]
      BY <1>1, <3>1, SubSeqProperties
    <3> HIDE DEF a
    <3>3. (IF 1 <= i - 1 THEN i - 1 - 1 + 1 ELSE 0) = i - 1 /\ i - 1 - 1 + 1 = i - 1
          /\ \A k \in 1..(i - 1) : 1 + k - 1 = k
      BY <1>1
    <3> QED BY <3>2, <3>3
  <2>2. /\ b \in Seq(Checked) /\ Len(b) = Len(v1) - i
        /\ \A k \in 1..(Len(v1) - i) : b[k] = v1[i + k]
    <3>1. \A k \in (i + 1)..Len(v1) : v1[k] \in Checked
      BY <1>1
    <3>2. /\ b \in Seq(Checked)
          /\ Len(b) = IF i + 1 <= Len(v1) THEN Len(v1) - (i + 1) + 1 ELSE 0
          /\ \A k \in 1..(Len(v1) - (i + 1) + 1) : b[k] = v1[i + 1 + k - 1]
      BY <1>1, <3>1, SubSeqProperties
    <3> HIDE DEF b
    <3>3. \A len, m \in Nat : m <= len =>
            len - (m + 1) + 1 = len - m /\ (IF m + 1 <= len THEN len - m ELSE 0) = len - m
      OBVIOUS
    <3>4. i \in Nat /\ i <= Len(v1) /\ \A k \in 1..(Len(v1) - i) : i + 1 + k - 1 = i + k
      BY <1>1
    <3> QED BY <1>1, <3>2, <3>3, <3>4
  <2> HIDE DEF a, b
  <2>3. /\ v1' \in Seq(Checked) /\ Len(v1') = Len(a) + Len(b)
        /\ \A k \in 1..(Len(a) + Len(b)) : v1'[k] = IF k <= Len(a) THEN a[k] ELSE b[k - Len(a)]
    BY <1>0, <2>1, <2>2, ConcatProperties DEF a, b
  <2>4. Len(v1') = Len(v1) - 1
    BY <1>1, <2>1, <2>2, <2>3
  <2>5. DOMAIN v1' = 1..(Len(v1) - 1)
    BY <2>3, <2>4, LenProperties
  <2>6. ASSUME NEW k \in 1..(Len(v1) - 1) PROVE v1'[k] = v1[Of(k)]
    <3>1. v1'[k] = IF k <= i - 1 THEN a[k] ELSE b[k - (i - 1)]
      BY <2>1, <2>3, <2>4
    <3>2. CASE k < i
      <4>1. k <= i - 1 /\ k \in 1..(i - 1)
        BY <1>1, <3>2
      <4> QED BY <2>1, <3>1, <3>2, <4>1
    <3>3. CASE ~(k < i)
      <4>1. ~(k <= i - 1) /\ k - (i - 1) \in 1..(Len(v1) - i) /\ i + (k - (i - 1)) = k + 1
        BY <1>1, <3>3
      <4> QED BY <2>2, <3>1, <3>3, <4>1
    <3> QED BY <3>2, <3>3
  <2> QED BY <2>3, <2>5, <2>6
<1>3. /\ \A k \in 1..(Len(v1) - 1) : Of(k) \in 1..Len(v1)
      /\ \A k, l \in 1..(Len(v1) - 1) : k < l => Of(k) < Of(l)
  BY <1>1
<1> HIDE DEF Of
<1>4. Capture!TypeOK'
  BY <1>0, <1>1, <1>2, CheckTypes, CheckTypesAfter
<1>5. Capture!ListingInv'
  <2>1. \A k \in DOMAIN v1' : v1'[k] \in 1..v2
    BY <1>1, <1>2, <1>3 DEF Capture!CaptureInv, Capture!ListingInv
  <2>2. \A k, l \in DOMAIN v1' : k < l => v1'[l] < v1'[k]
    BY <1>1, <1>2, <1>3 DEF Capture!CaptureInv, Capture!ListingInv
  <2> QED BY <1>0, <1>1, <2>1, <2>2 DEF Capture!ListingInv
<1>6. Capture!WalkInv'
  BY <1>0, <1>1 DEF Capture!CaptureInv, Capture!WalkInv, Capture!NoWalk, Capture!Held
<1>7. Capture!SampleInv' /\ Capture!HealedOnce' /\ Capture!AuditIsHonest'
  BY <1>0 DEF Capture!CaptureInv, Capture!SampleInv, Capture!HealedOnce, Capture!AuditIsHonest
<1> QED BY <1>4, <1>5, <1>6, <1>7 DEF Capture!CaptureInv

\* The poller captures a tender that it sees.
LEMMA CaptureCapture ==
  ASSUME Capture!CaptureInv, NEW t \in Checked, Capture!Capture(t)
  PROVE  Capture!CaptureInv'
<1>0. /\ Capture!TypeOK /\ UNCHANGED <<v1, v2, v4, v5, v6, v7, v8, v9, v10, v11, v12>>
      /\ v3' = [v3 EXCEPT ![t] = "poller"] /\ v3 \in [Checked -> Captor]
  BY CheckTypes DEF Capture!CaptureInv, Capture!Capture
<1>1. v3' \in [Checked -> Captor]
  BY <1>0 DEF Captor
<1>2. Capture!Held(Checked) \subseteq Capture!Held(Checked)'
  BY <1>0 DEF Capture!Held
<1>3. Capture!TypeOK'
  BY <1>0, <1>1, CheckTypes, CheckTypesAfter
<1>4. Capture!WalkInv'
  BY <1>0, <1>2
     DEF Capture!CaptureInv, Capture!WalkInv, Capture!NoWalk, Capture!Range, Capture!Place,
         Capture!Tenders, Checked
<1>5. Capture!ListingInv' /\ Capture!HealedOnce' /\ Capture!AuditIsHonest'
  BY <1>0 DEF Capture!CaptureInv, Capture!ListingInv, Capture!HealedOnce, Capture!AuditIsHonest
<1>6. Capture!SampleInv'
  BY SampleStands, <1>0 DEF Capture!CaptureInv
<1> QED BY <1>3, <1>4, <1>5, <1>6 DEF Capture!CaptureInv

-----------------------------------------------------------------------------
\* The walk begins with the head as it is.
LEMMA CaptureCensus ==
  ASSUME Capture!CaptureInv, Capture!Census PROVE Capture!CaptureInv'
<1>0. /\ Capture!TypeOK /\ UNCHANGED <<v1, v2, v3, v5, v6, v7, v9, v12>>
      /\ v8 < CheckRuns /\ v8' = v8 + 1 /\ v10' = Capture!TopRows /\ v11' = {}
      /\ v4' = [Capture!NoWalk EXCEPT !.phase = "counted"]
  BY DEF Capture!CaptureInv, Capture!Census
<1>1. v1 \in Seq(Checked) /\ v8' \in 0..CheckRuns /\ v2 \in Nat
  <2>1. v8' \in 0..CheckRuns
    <3>1. v8 \in 0..CheckRuns /\ CheckRuns \in Nat
      BY <1>0, CheckTypes, CorpusAssumption
    <3>2. v8 < CheckRuns /\ v8' = v8 + 1
      BY <1>0
    <3> QED BY <3>1, <3>2
  <2>2. v2 \in Nat
    BY <1>0, CheckTypes, CorpusAssumption
  <2> QED BY <1>0, <2>1, <2>2, CheckTypes
<1>2. /\ v4' \in CheckWalk /\ v4'.phase = "counted" /\ v4'.page = 0 /\ v4'.rows = << >>
      /\ v4'.seen = 0 /\ v4'.healed = 0
  <2>1. v4' = [phase |-> "counted", page |-> 0, rows |-> << >>, seen |-> 0, healed |-> 0]
    BY <1>0 DEF Capture!NoWalk
  <2>2. 0 \in 0..CheckHead /\ 0 \in 0..(CheckHead * CheckPage)
    <3>1. CheckHead * CheckPage \in Nat
      BY PagesAreApart, CorpusAssumption DEF PageEnd
    <3> QED BY <3>1, CorpusAssumption
  <2> QED BY <2>1, <2>2, NothingChecked DEF CheckWalk
<1>3. v10' \subseteq Checked /\ v10' \subseteq 1..v2
  <2>1. DOMAIN v1 = 1..Len(v1) /\ \A i \in 1..Len(v1) : v1[i] \in Checked
    BY <1>1, LenProperties
  <2>2. \A t \in Capture!TopRows : \E i \in 1..Len(v1) : t = v1[i]
    BY <1>1, RowsOfHead
  <2> QED BY <1>0, <2>1, <2>2 DEF Capture!CaptureInv, Capture!ListingInv
<1>4. Capture!TypeOK'
  BY <1>0, <1>1, <1>2, <1>3, CheckTypes, CheckTypesAfter
<1>5. Capture!WalkInv'
  <2>1. 0 * CheckPage = 0
    BY PagesAreApart DEF PageEnd
  <2>2. \A t \in v10' : ~(Capture!Place(t)' <= 0)
    BY <1>0, <1>1, <1>3 DEF Capture!Place
  <2> QED BY <1>0, <1>2, <1>3, <2>1, <2>2, NothingChecked DEF Capture!WalkInv
<1>6. Capture!HealedOnce'
  <2>1. Capture!Cardinality({}) = 0
    BY CheckCardinality, FS_EmptySet
  <2> QED BY <1>0, <1>2, <2>1 DEF Capture!HealedOnce
<1>7. Capture!ListingInv' /\ Capture!AuditIsHonest'
  BY <1>0 DEF Capture!CaptureInv, Capture!ListingInv, Capture!AuditIsHonest
<1> QED BY <1>0, <1>4, <1>5, <1>6, <1>7, SampleStands DEF Capture!CaptureInv

\* The next page: as nothing has left, it holds the head up to its end.
LEMMA CaptureWalkPage ==
  ASSUME Capture!CaptureInv, Capture!WalkPage PROVE Capture!CaptureInv'
<1>0. /\ Capture!TypeOK /\ UNCHANGED <<v1, v2, v3, v5, v6, v7, v8, v9, v10, v11, v12>>
      /\ v4.phase \in {"counted", "page"} /\ v4.rows = << >> /\ v4.page < CheckHead
      /\ v4' = [v4 EXCEPT !.phase = "page", !.page = @ + 1, !.rows = Capture!Page(v4.page + 1)]
  BY DEF Capture!CaptureInv, Capture!WalkPage
<1> DEFINE n == v4.page
           rows == Capture!Page(n + 1)
<1>1. /\ v1 \in Seq(Checked) /\ v4 \in CheckWalk /\ n \in Nat /\ n + 1 \in 0..CheckHead
      /\ v2 \in Nat /\ n + 1 \in Nat \ {0} /\ n + 1 - 1 = n
  <2>1. v1 \in Seq(Checked) /\ v4 \in CheckWalk
    BY <1>0, CheckTypes
  <2>2. v2 \in Nat
    BY <1>0, CheckTypes, CorpusAssumption
  <2>3. n \in 0..CheckHead /\ n < CheckHead /\ CheckHead \in Nat
    BY <1>0, PageIsCounted, CorpusAssumption
  <2> HIDE DEF n
  <2>4. n \in Nat /\ n + 1 \in 0..CheckHead /\ n + 1 \in Nat \ {0} /\ n + 1 - 1 = n
    BY <2>3
  <2> QED BY <2>1, <2>2, <2>4
<1>2. /\ rows \in Seq(Checked) /\ Len(rows) \in 0..CheckPage
      /\ \A i \in 1..Len(v1) : PageEnd(n) < i /\ i <= PageEnd(n + 1) =>
           \E j \in 1..Len(rows) : rows[j] = v1[i]
  <2> HIDE DEF n
  <2>1. /\ rows \in Seq(Checked) /\ Len(rows) \in 0..CheckPage
        /\ \A i \in 1..Len(v1) : PageEnd(n + 1 - 1) < i /\ i <= PageEnd(n + 1) =>
             \E j \in 1..Len(rows) : rows[j] = v1[i]
    BY <1>1, RowsOfPage
  <2> QED BY <1>1, <2>1
<1> HIDE DEF n, rows
<1>3. /\ v4' \in CheckWalk /\ v4'.phase = "page" /\ v4'.page = n + 1 /\ v4'.rows = rows
      /\ v4'.seen = v4.seen /\ v4'.healed = v4.healed
  BY <1>0, <1>1, <1>2 DEF CheckWalk, n, rows
<1>4. Capture!TypeOK'
  BY <1>0, <1>3, CheckTypes, CheckTypesAfter
<1>5. PageEnd(n) \in Nat /\ PageEnd(n + 1) = PageEnd(n) + CheckPage /\ CheckPage \in Nat
  BY <1>1, PagesAreApart, CorpusAssumption
<1>6. v4.seen <= PageEnd(n) /\ v4.seen \in Nat /\ v4.healed <= v4.seen
  <2>1. v4.seen + 0 <= PageEnd(n) /\ v4.healed <= v4.seen
    BY <1>0, NothingChecked DEF Capture!CaptureInv, Capture!WalkInv, PageEnd, n
  <2>2. v4.seen \in Nat
    BY <1>1, PagesAreApart, CorpusAssumption DEF CheckWalk, PageEnd
  <2> QED BY <2>1, <2>2
<1>7. ASSUME v9 = 0, NEW t \in v10, Capture!Place(t) <= PageEnd(n + 1)
      PROVE  t \in Capture!Held(Checked) \cup Capture!Range(rows)
  <2>1. t \in 1..v2 /\ Capture!Place(t) = v2 + 1 - t
    BY <1>7 DEF Capture!CaptureInv, Capture!WalkInv, Capture!Place
  <2>2. CASE Capture!Place(t) <= PageEnd(n)
    <3>1. t \in Capture!Held(Checked) \cup Capture!Range(v4.rows)
      BY <1>0, <1>7, <2>2
         DEF Capture!CaptureInv, Capture!WalkInv, PageEnd, n, Capture!Tenders, Checked
    <3> QED BY <1>0, <3>1, NothingChecked
  <2>3. CASE ~(Capture!Place(t) <= PageEnd(n))
    <3> DEFINE i == v2 + 1 - t
    <3>1. Len(v1) = v2 /\ DOMAIN v1 = 1..Len(v1)
      BY <1>1, <1>7, LenProperties DEF Capture!CaptureInv, Capture!ListingInv
    <3>2. i \in 1..Len(v1) /\ v2 + 1 - i = t
      BY <1>1, <2>1, <3>1
    <3>3. v1[i] = t
      BY <1>7, <3>1, <3>2 DEF Capture!CaptureInv, Capture!ListingInv
    <3>4. PageEnd(n) < i /\ i <= PageEnd(n + 1)
      BY <1>1, <1>5, <1>7, <2>1, <2>3
    <3> HIDE DEF i
    <3>5. PICK j \in 1..Len(rows) : rows[j] = t
      BY <1>2, <3>2, <3>3, <3>4
    <3>6. DOMAIN rows = 1..Len(rows)
      BY <1>2, LenProperties
    <3> QED BY <3>5, <3>6 DEF Capture!Range
  <2> QED BY <2>2, <2>3
<1>8. Capture!WalkInv'
  <2>1. v4'.seen + Len(v4'.rows) <= PageEnd(v4'.page)
    BY <1>2, <1>3, <1>5, <1>6
  <2>2. \A t \in v10 : Capture!Place(t)' = Capture!Place(t)
    BY <1>0 DEF Capture!Place
  <2>3. Capture!Held(Checked)' = Capture!Held(Checked)
    BY <1>0 DEF Capture!Held
  <2>4. v4'.phase # "off" /\ v4'.phase # "counted" /\ v4'.phase # "done"
    BY <1>3
  <2>5. v4'.healed <= v4'.seen
    BY <1>3, <1>6
  <2>6. v11' \subseteq Capture!Held(Checked)' /\ v10' \subseteq 1..v2'
    BY <1>0, <2>3 DEF Capture!CaptureInv, Capture!WalkInv, Capture!Tenders, Checked
  <2>7. v9' = 0 => \A t \in v10' : Capture!Place(t)' <= PageEnd(v4'.page) =>
                     t \in Capture!Held(Checked)' \cup Capture!Range(v4'.rows)
    BY <1>0, <1>3, <1>7, <2>2, <2>3
  <2> QED BY <2>1, <2>4, <2>5, <2>6, <2>7
          DEF Capture!WalkInv, Capture!Tenders, Checked, PageEnd, Capture!Range, Capture!Place
<1>9. Capture!HealedOnce' /\ Capture!ListingInv' /\ Capture!AuditIsHonest'
  BY <1>0, <1>3 DEF Capture!CaptureInv, Capture!HealedOnce, Capture!ListingInv, Capture!AuditIsHonest
<1> QED BY <1>0, <1>4, <1>8, <1>9, SampleStands DEF Capture!CaptureInv

\* A row is looked up, stored, and counted.
LEMMA CaptureWalkRow ==
  ASSUME Capture!CaptureInv, Capture!WalkRow PROVE Capture!CaptureInv'
<1> DEFINE t == Head(v4.rows)
           rest == Tail(v4.rows)
           one == IF v3[t] = "nobody" THEN 1 ELSE 0
<1>0. /\ Capture!TypeOK /\ UNCHANGED <<v1, v2, v5, v6, v7, v8, v9, v10, v12>> /\ v4.rows # << >>
      /\ v3' = [v3 EXCEPT ![t] = IF @ = "nobody" THEN "reconcile" ELSE @]
      /\ v4' = [v4 EXCEPT !.rows = rest, !.seen = @ + 1, !.healed = @ + one]
      /\ v11' = v11 \cup (IF v3[t] = "nobody" THEN {t} ELSE {})
  BY DEF Capture!CaptureInv, Capture!WalkRow, Capture!Stored
<1>1. v4 \in CheckWalk /\ v4.rows \in Seq(Checked) /\ v3 \in [Checked -> Captor]
      /\ v11 \subseteq Checked
  BY <1>0, CheckTypes DEF CheckWalk
<1>2. /\ t \in Checked /\ rest \in Seq(Checked) /\ Len(v4.rows) \in Nat
      /\ Len(rest) = Len(v4.rows) - 1 /\ Len(rest) \in Nat
      /\ Capture!Range(v4.rows) \subseteq {t} \cup Capture!Range(rest)
  <2>1. /\ t \in Checked /\ rest \in Seq(Checked) /\ Len(rest) = Len(v4.rows) - 1
        /\ \A i \in 1..Len(rest) : rest[i] = v4.rows[i + 1]
    BY <1>0, <1>1, HeadTailProperties
  <2>2. /\ DOMAIN v4.rows = 1..Len(v4.rows) /\ Len(v4.rows) \in Nat
        /\ DOMAIN rest = 1..Len(rest) /\ Len(rest) \in Nat
    BY <1>1, <2>1, LenProperties
  <2>3. t = v4.rows[1]
    BY DEF Head
  <2> HIDE DEF t, rest
  <2>4. ASSUME NEW i \in 1..Len(v4.rows) PROVE v4.rows[i] \in {t} \cup Capture!Range(rest)
    <3>1. CASE i = 1
      BY <2>3, <3>1
    <3>2. CASE i # 1
      <4>1. i - 1 \in 1..Len(rest) /\ (i - 1) + 1 = i
        BY <2>1, <2>2, <3>2
      <4> QED BY <2>1, <2>2, <4>1 DEF Capture!Range
    <3> QED BY <3>1, <3>2
  <2> QED BY <2>1, <2>2, <2>4 DEF Capture!Range
<1>3. one \in {0, 1}
  OBVIOUS
<1>4. /\ v4.seen \in Nat /\ v4.healed \in Nat /\ v4.healed <= v4.seen
      /\ v4.seen + Len(v4.rows) <= PageEnd(v4.page)
      /\ v4.page \in 0..CheckHead /\ PageEnd(v4.page) \in Nat
      /\ PageEnd(v4.page) <= PageEnd(CheckHead) /\ PageEnd(CheckHead) \in Nat
  <2>1. PageEnd(CheckHead) \in Nat /\ CheckHead \in Nat
    BY PagesAreApart, CorpusAssumption
  <2>2. v4.seen \in 0..PageEnd(CheckHead) /\ v4.healed \in 0..PageEnd(CheckHead)
    BY <1>1 DEF CheckWalk, PageEnd
  <2>3. v4.page \in 0..CheckHead /\ PageEnd(v4.page) \in Nat
    BY <1>0, PageIsCounted
  <2>4. v4.page \in Nat /\ v4.page <= CheckHead
    BY <2>1, <2>3
  <2>5. PageEnd(v4.page) <= PageEnd(CheckHead)
    BY <2>1, <2>4, PagesAreApart
  <2>6. v4.seen + Len(v4.rows) <= PageEnd(v4.page) /\ v4.healed <= v4.seen
    BY DEF Capture!CaptureInv, Capture!WalkInv, PageEnd
  <2> QED BY <2>1, <2>2, <2>3, <2>5, <2>6
<1>5. /\ v4' \in CheckWalk /\ v4'.rows = rest /\ v4'.seen = v4.seen + 1
      /\ v4'.healed = v4.healed + one /\ v4'.phase = v4.phase /\ v4'.page = v4.page
  <2> HIDE DEF t, rest, one
  <2>1. v4.seen + 1 \in 0..PageEnd(CheckHead) /\ v4.healed + one \in 0..PageEnd(CheckHead)
    <3>1. v4.seen + 1 <= PageEnd(CheckHead)
      <4>1. Len(v4.rows) >= 1
        BY <1>2
      <4> QED BY <1>2, <1>4, <4>1
    <3> QED BY <1>3, <1>4, <3>1
  <2>2. v4.seen + 1 \in 0..(CheckHead * CheckPage) /\ v4.healed + one \in 0..(CheckHead * CheckPage)
    BY <2>1 DEF PageEnd
  <2> QED BY <1>0, <1>1, <1>2, <2>2 DEF CheckWalk
<1>6. /\ v3' \in [Checked -> Captor] /\ t \in Capture!Held(Checked)'
      /\ Capture!Held(Checked) \subseteq Capture!Held(Checked)'
      /\ v3[t] = "nobody" => t \notin Capture!Held(Checked)
  <2> HIDE DEF t
  <2> QED BY <1>0, <1>1, <1>2 DEF Capture!Held, Captor
<1>7. v11 \subseteq Capture!Held(Checked) /\ v4.phase = "page"
  <2>1. v4.phase # "off" /\ v4.phase # "counted" /\ v4.phase # "done"
    BY <1>0, NothingChecked DEF Capture!CaptureInv, Capture!WalkInv
  <2>2. v4.phase \in {"off", "counted", "page", "done"}
    BY <1>1 DEF CheckWalk
  <2> QED BY <2>1, <2>2 DEF Capture!CaptureInv, Capture!WalkInv, Capture!Tenders, Checked
<1>8. Capture!TypeOK'
  <2>1. v11' \subseteq Checked
    <3> HIDE DEF t
    <3> QED BY <1>0, <1>1, <1>2
  <2> QED BY <1>0, <1>5, <1>6, <2>1, CheckTypes, CheckTypesAfter
<1>9. Capture!WalkInv'
  <2> HIDE DEF t, rest, one
  <2>1. v4'.seen + Len(v4'.rows) <= PageEnd(v4'.page) /\ v4'.healed <= v4'.seen
    BY <1>2, <1>3, <1>4, <1>5
  <2>2. v11' \subseteq Capture!Held(Checked)'
    BY <1>0, <1>6, <1>7
  <2>3. v10 \subseteq 1..v2
    BY DEF Capture!CaptureInv, Capture!WalkInv
  <2>4. ASSUME v9 = 0, NEW u \in v10, v2 + 1 - u <= PageEnd(v4.page)
        PROVE  u \in Capture!Held(Checked)' \cup Capture!Range(rest)
    <3>1. u \in Capture!Held(Checked) \cup Capture!Range(v4.rows)
      BY <1>7, <2>4 DEF Capture!CaptureInv, Capture!WalkInv, Capture!Place, PageEnd,
                        Capture!Tenders, Checked
    <3> QED BY <1>2, <1>6, <3>1
  <2>5. v4'.phase # "off" /\ v4'.phase # "counted" /\ v4'.phase # "done"
    BY <1>5, <1>7
  <2>6. v9' = 0 => \A u \in v10' : Capture!Place(u)' <= PageEnd(v4'.page) =>
                     u \in Capture!Held(Checked)' \cup Capture!Range(v4'.rows)
    BY <1>0, <1>5, <2>4 DEF Capture!Place
  <2> QED BY <1>0, <2>1, <2>2, <2>3, <2>5, <2>6
          DEF Capture!WalkInv, Capture!Tenders, Checked, PageEnd, Capture!Range, Capture!Place
<1>10. Capture!HealedOnce'
  <2>1. v4.healed = Cardinality(v11)
    BY <1>7, CheckCardinality DEF Capture!CaptureInv, Capture!HealedOnce
  <2>2. IsFiniteSet(v11)
    <3>1. IsFiniteSet(Checked)
      BY FS_Interval, CorpusAssumption DEF Checked
    <3> QED BY <1>1, <3>1, FS_Subset
  <2>3. v4'.healed = Cardinality(v11')
    <3>1. CASE v3[t] = "nobody"
      <4>1. v11' = v11 \cup {t} /\ one = 1
        BY <1>0, <3>1
      <4>2. t \notin v11
        BY <1>6, <1>7, <3>1
      <4> HIDE DEF t, one
      <4> QED BY <1>5, <2>1, <2>2, <4>1, <4>2, FS_AddElement
    <3>2. CASE v3[t] # "nobody"
      <4>1. v11' = v11 /\ one = 0
        BY <1>0, <3>2
      <4> HIDE DEF t, one
      <4> QED BY <1>4, <1>5, <2>1, <4>1
    <3> QED BY <3>1, <3>2
  <2>4. v4'.phase = "page"
    BY <1>5, <1>7
  <2> QED BY <2>3, <2>4, CheckCardinality DEF Capture!HealedOnce
<1>11. Capture!ListingInv' /\ Capture!AuditIsHonest'
  BY <1>0 DEF Capture!CaptureInv, Capture!ListingInv, Capture!AuditIsHonest
<1> QED BY <1>0, <1>8, <1>9, <1>10, <1>11, SampleStands DEF Capture!CaptureInv

\* The report, with the event of a gap that is too wide.
LEMMA CaptureReport ==
  ASSUME Capture!CaptureInv, Capture!Report PROVE Capture!CaptureInv'
<1>0. /\ Capture!TypeOK /\ UNCHANGED <<v1, v2, v3, v6, v7, v8, v9, v10, v11, v12>>
      /\ v4.phase = "page" /\ v4.page = CheckHead /\ v4.rows = << >>
      /\ v4' = [v4 EXCEPT !.phase = "done"]
  BY DEF Capture!CaptureInv, Capture!Report
<1> DEFINE gap == [healed |-> v4.healed, sampled |-> v4.seen]
<1>1. v5' = v5 \cup (IF v4.healed * 100 > CheckGap * v4.seen THEN {gap} ELSE {})
  BY DEF Capture!Report
<1>2. v4 \in CheckWalk /\ v4.healed <= v4.seen
  BY <1>0, CheckTypes DEF Capture!CaptureInv, Capture!WalkInv
<1>3. /\ v4' \in CheckWalk /\ v4'.phase = "done" /\ v4'.page = v4.page /\ v4'.rows = v4.rows
      /\ v4'.seen = v4.seen /\ v4'.healed = v4.healed
  BY <1>0, <1>2 DEF CheckWalk
<1>4. gap.healed = v4.healed /\ gap.sampled = v4.seen
  OBVIOUS
<1>5. Capture!TypeOK'
  <2> HIDE DEF gap
  <2>1. \A g \in v5' : g.healed <= g.sampled
    BY <1>0, <1>1, <1>2, <1>4, CheckTypes
  <2> QED BY <1>0, <1>3, <2>1, CheckTypes, CheckTypesAfter
<1>6. Capture!WalkInv'
  <2>1. Capture!Held(Checked)' = Capture!Held(Checked)
    BY <1>0 DEF Capture!Held
  <2> QED BY <1>0, <1>3, <2>1
          DEF Capture!CaptureInv, Capture!WalkInv, Capture!Range, Capture!Place, Capture!Tenders,
              Checked
<1>7. Capture!HealedOnce'
  <2>1. v4.healed = Capture!Cardinality(v11)
    BY <1>0 DEF Capture!CaptureInv, Capture!HealedOnce
  <2>2. v4.healed * 100 > CheckGap * v4.seen => gap \in v5'
    BY <1>1
  <2> QED BY <1>0, <1>3, <2>1, <2>2 DEF Capture!HealedOnce
<1>8. Capture!ListingInv' /\ Capture!AuditIsHonest'
  BY <1>0 DEF Capture!CaptureInv, Capture!ListingInv, Capture!AuditIsHonest
<1> QED BY <1>0, <1>5, <1>6, <1>7, <1>8, SampleStands DEF Capture!CaptureInv

\* A walk is over.
LEMMA CaptureWalkEnds ==
  ASSUME Capture!CaptureInv, Capture!WalkEnds PROVE Capture!CaptureInv'
<1>0. /\ Capture!TypeOK /\ UNCHANGED <<v1, v2, v3, v5, v6, v7, v8, v9, v10, v11, v12>>
      /\ v4' = Capture!NoWalk
  BY DEF Capture!CaptureInv, Capture!WalkEnds
<1>1. Capture!TypeOK'
  BY <1>0, NothingChecked, CheckTypes, CheckTypesAfter
<1>2. Capture!WalkInv' /\ Capture!HealedOnce'
  <2>1. v2' \in Nat
    BY <1>0, CheckTypes, CorpusAssumption
  <2>2. v10' \subseteq 1..v2' /\ (v11 \subseteq Capture!Held(Checked))'
    BY <1>0 DEF Capture!CaptureInv, Capture!WalkInv, Capture!Held, Capture!Tenders, Checked
  <2> QED BY <1>0, <2>1, <2>2, WalkIsOff
<1>3. Capture!ListingInv' /\ Capture!AuditIsHonest'
  BY <1>0 DEF Capture!CaptureInv, Capture!ListingInv, Capture!AuditIsHonest
<1> QED BY <1>0, <1>1, <1>2, <1>3, SampleStands DEF Capture!CaptureInv

-----------------------------------------------------------------------------
\* The audit draws its pages.
LEMMA CaptureDraw ==
  ASSUME Capture!CaptureInv, Capture!Draw PROVE Capture!CaptureInv'
<1>0. /\ Capture!TypeOK /\ UNCHANGED <<v1, v2, v3, v4, v5, v7, v9, v10, v11>>
      /\ v8 < CheckRuns /\ v8' = v8 + 1 /\ v12' = FALSE
  BY DEF Capture!CaptureInv, Capture!Draw
<1>1. PICK pages \in SUBSET (1..((Len(v1) + CheckPage - 1) \div CheckPage)) :
        v6' = [Capture!NoAudit EXCEPT !.phase = "pages", !.pages = pages]
  BY DEF Capture!Draw
<1>2. pages \subseteq Nat \ {0}
  OBVIOUS
<1>3. /\ v6' \in CheckAudit /\ v6'.pages = pages /\ v6'.sample = << >>
  <2>1. v6' = [phase |-> "pages", pages |-> pages, sample |-> << >>]
    BY <1>1 DEF Capture!NoAudit
  <2> QED BY <1>2, <2>1, NothingChecked DEF CheckAudit
<1>4. v8' \in 0..CheckRuns
  <2>1. v8 \in 0..CheckRuns /\ CheckRuns \in Nat
    BY <1>0, CheckTypes, CorpusAssumption
  <2>2. v8 < CheckRuns /\ v8' = v8 + 1
    BY <1>0
  <2> QED BY <2>1, <2>2
<1>5. Capture!TypeOK'
  BY <1>0, <1>3, <1>4, CheckTypes, CheckTypesAfter
<1>6. Capture!SampleInv'
  BY <1>2, <1>3, NothingChecked DEF Capture!SampleInv
<1>7. Capture!WalkInv'
  BY <1>0 DEF Capture!CaptureInv, Capture!WalkInv, Capture!Held, Capture!Range, Capture!Place,
              Capture!NoWalk
<1>8. Capture!ListingInv' /\ Capture!AuditIsHonest' /\ Capture!HealedOnce'
  BY <1>0 DEF Capture!CaptureInv, Capture!ListingInv, Capture!AuditIsHonest, Capture!HealedOnce
<1> QED BY <1>5, <1>6, <1>7, <1>8 DEF Capture!CaptureInv

\* Pages of a listing have no row in common, and none of them has one twice.
LEMMA PagesShareNothing ==
  ASSUME Capture!TypeOK, Capture!ListingInv, NEW m \in Nat \ {0}, NEW n \in Nat \ {0}
  PROVE  /\ m # n => Capture!Range(Capture!Page(m)) \cap Capture!Range(Capture!Page(n)) = {}
         /\ \A i, j \in 1..Len(Capture!Page(n)) :
              Capture!Page(n)[i] = Capture!Page(n)[j] => i = j
<1>1. v1 \in Seq(Checked) /\ Len(v1) \in Nat /\ DOMAIN v1 = 1..Len(v1)
  BY CheckTypes, LenProperties
<1>2. ASSUME NEW i \in 1..Len(v1), NEW j \in 1..Len(v1), v1[i] = v1[j] PROVE i = j
  <2>1. v1[i] \in Nat /\ v1[j] \in Nat
    BY <1>1 DEF Capture!ListingInv
  <2>2. ~(v1[i] < v1[j]) /\ ~(v1[j] < v1[i])
    BY <1>2, <2>1
  <2>3. ~(i < j) /\ ~(j < i)
    BY <1>1, <2>2 DEF Capture!ListingInv
  <2> QED BY <2>3
<1>3. ASSUME NEW k \in Nat \ {0}, NEW l \in Nat \ {0}, k < l,
             NEW i \in 1..Len(Capture!Page(k)), NEW j \in 1..Len(Capture!Page(l))
      PROVE  Capture!Page(k)[i] # Capture!Page(l)[j]
  <2>1. /\ PageEnd(k - 1) + i \in 1..Len(v1) /\ PageEnd(k - 1) + i <= PageEnd(k)
        /\ Capture!Page(k)[i] = v1[PageEnd(k - 1) + i]
    BY <1>1, RowsOfPage
  <2>2. /\ PageEnd(l - 1) + j \in 1..Len(v1)
        /\ Capture!Page(l)[j] = v1[PageEnd(l - 1) + j]
    BY <1>1, RowsOfPage
  <2>3. k \in Nat /\ l - 1 \in Nat /\ k <= l - 1
    BY <1>3
  <2>4. PageEnd(k) <= PageEnd(l - 1) /\ PageEnd(k) \in Nat /\ PageEnd(l - 1) \in Nat
    BY <2>3, PagesAreApart
  <2>5. PageEnd(l - 1) + j > PageEnd(l - 1)
    <3>1. j \in Nat /\ j >= 1
      BY <1>1, RowsOfPage
    <3> QED BY <2>4, <3>1
  <2>6. PageEnd(k - 1) + i # PageEnd(l - 1) + j
    BY <1>1, <2>1, <2>2, <2>4, <2>5
  <2> QED BY <1>2, <2>1, <2>2, <2>6
<1>4. \A k \in {m, n} : DOMAIN Capture!Page(k) = 1..Len(Capture!Page(k))
  BY <1>1, RowsOfPage, LenProperties
<1>5. m # n => Capture!Range(Capture!Page(m)) \cap Capture!Range(Capture!Page(n)) = {}
  <2>1. m < n \/ n < m \/ m = n
    OBVIOUS
  <2> QED BY <1>3, <1>4, <2>1 DEF Capture!Range
<1>6. ASSUME NEW i \in 1..Len(Capture!Page(n)), NEW j \in 1..Len(Capture!Page(n)),
             Capture!Page(n)[i] = Capture!Page(n)[j]
      PROVE  i = j
  <2>1. /\ PageEnd(n - 1) + i \in 1..Len(v1) /\ Capture!Page(n)[i] = v1[PageEnd(n - 1) + i]
        /\ PageEnd(n - 1) + j \in 1..Len(v1) /\ Capture!Page(n)[j] = v1[PageEnd(n - 1) + j]
    BY <1>1, RowsOfPage
  <2>2. PageEnd(n - 1) + i = PageEnd(n - 1) + j
    BY <1>2, <1>6, <2>1
  <2>3. PageEnd(n - 1) \in Nat
    <3>1. n - 1 \in Nat
      OBVIOUS
    <3> QED BY <3>1, PagesAreApart
  <2> QED BY <1>1, <2>2, <2>3, RowsOfPage
<1> QED BY <1>5, <1>6

\* A page is added to the sample.
LEMMA CaptureSample ==
  ASSUME Capture!CaptureInv, Capture!Sample PROVE Capture!CaptureInv'
<1> DEFINE n == Capture!Min(v6.pages)
           page == Capture!Page(n)
<1>0. /\ Capture!TypeOK /\ UNCHANGED <<v1, v2, v3, v4, v5, v7, v8, v9, v10, v11, v12>>
      /\ v6.phase = "pages" /\ v6.pages # {}
      /\ v6' = [v6 EXCEPT !.pages = @ \ {n}, !.sample = @ \o page]
  BY DEF Capture!CaptureInv, Capture!Sample
<1>1. v6 \in CheckAudit /\ v6.pages \subseteq Nat /\ v6.sample \in Seq(Checked) /\ 0 \notin v6.pages
      /\ v1 \in Seq(Checked)
  BY <1>0, CheckTypes DEF Capture!CaptureInv, Capture!SampleInv, CheckAudit
<1>2. n \in v6.pages /\ n \in Nat \ {0}
  <2>1. \E x \in v6.pages : \A y \in v6.pages : x <= y
    BY <1>0, <1>1, LeastExists
  <2>2. n \in v6.pages
    BY <2>1 DEF Capture!Min
  <2> HIDE DEF n
  <2> QED BY <1>1, <2>2
<1> HIDE DEF n
<1>3. page \in Seq(Checked) /\ DOMAIN page = 1..Len(page) /\ Len(page) \in Nat
  <2>1. page \in Seq(Checked)
    BY <1>1, <1>2, RowsOfPage
  <2> QED BY <2>1, LenProperties
<1>4. /\ DOMAIN v6.sample = 1..Len(v6.sample) /\ Len(v6.sample) \in Nat
  BY <1>1, LenProperties
<1> HIDE DEF page
<1> DEFINE both == v6.sample \o page
<1>5. /\ both \in Seq(Checked) /\ Len(both) = Len(v6.sample) + Len(page)
      /\ \A i \in 1..(Len(v6.sample) + Len(page)) :
           both[i] = IF i <= Len(v6.sample) THEN v6.sample[i] ELSE page[i - Len(v6.sample)]
  BY <1>1, <1>3, ConcatProperties
<1>6. v6' = [v6 EXCEPT !.pages = @ \ {n}, !.sample = both]
  BY <1>0
<1> HIDE DEF both
<1>7. DOMAIN both = 1..(Len(v6.sample) + Len(page))
  BY <1>5, LenProperties
<1>8. /\ v6' \in CheckAudit /\ v6'.phase = "pages" /\ v6'.pages = v6.pages \ {n}
      /\ v6'.sample = both
  BY <1>0, <1>1, <1>5, <1>6 DEF CheckAudit
<1>9. Capture!TypeOK'
  BY <1>0, <1>8, CheckTypes, CheckTypesAfter
<1>10. ASSUME NEW i \in DOMAIN both
       PROVE  \/ i \in 1..Len(v6.sample) /\ both[i] = v6.sample[i]
              \/ /\ i - Len(v6.sample) \in 1..Len(page)
                 /\ both[i] = page[i - Len(v6.sample)]
  <2>1. CASE i <= Len(v6.sample)
    <3>1. i \in 1..Len(v6.sample)
      BY <1>4, <1>7, <2>1
    <3> QED BY <1>5, <1>7, <2>1, <3>1
  <2>2. CASE ~(i <= Len(v6.sample))
    <3>1. i - Len(v6.sample) \in 1..Len(page)
      BY <1>3, <1>4, <1>7, <2>2
    <3> QED BY <1>5, <1>7, <2>2, <3>1
  <2> QED BY <2>1, <2>2
<1>11. /\ \A k \in v6.pages \ {n} : Capture!Range(page) \cap Capture!Range(Capture!Page(k)) = {}
       /\ \A i, j \in 1..Len(page) : page[i] = page[j] => i = j
  <2>1. ASSUME NEW k \in v6.pages \ {n}
        PROVE  Capture!Range(page) \cap Capture!Range(Capture!Page(k)) = {}
    <3>1. k \in Nat \ {0} /\ k # n
      BY <1>1
    <3> QED BY <1>0, <1>2, <3>1, PagesShareNothing DEF page, Capture!CaptureInv
  <2>2. \A i, j \in 1..Len(page) : page[i] = page[j] => i = j
    BY <1>0, <1>2, PagesShareNothing DEF page, Capture!CaptureInv
  <2> QED BY <2>1, <2>2
<1>12. ASSUME ~v12
       PROVE  /\ \A i, j \in DOMAIN both : both[i] = both[j] => i = j
              /\ \A k \in v6.pages \ {n} : Capture!Range(both) \cap Capture!Range(Capture!Page(k)) = {}
  <2>1. /\ \A i, j \in 1..Len(v6.sample) : v6.sample[i] = v6.sample[j] => i = j
        /\ \A k \in v6.pages : Capture!Range(v6.sample) \cap Capture!Range(Capture!Page(k)) = {}
    BY <1>0, <1>4, <1>12 DEF Capture!CaptureInv, Capture!SampleInv
  <2>2. Capture!Range(v6.sample) \cap Capture!Range(page) = {}
    BY <1>2, <2>1 DEF page
  <2>3. Capture!Range(both) \subseteq Capture!Range(v6.sample) \cup Capture!Range(page)
    BY <1>3, <1>4, <1>10 DEF Capture!Range
  <2>4. ASSUME NEW i \in DOMAIN both, NEW j \in DOMAIN both, both[i] = both[j] PROVE i = j
    <3>1. \A k \in 1..Len(v6.sample) : v6.sample[k] \in Capture!Range(v6.sample)
      BY <1>4 DEF Capture!Range
    <3>2. \A k \in 1..Len(page) : page[k] \in Capture!Range(page)
      BY <1>3 DEF Capture!Range
    <3>3. CASE i \in 1..Len(v6.sample) /\ both[i] = v6.sample[i]
      BY <1>10, <2>1, <2>2, <2>4, <3>1, <3>2, <3>3
    <3>4. CASE i - Len(v6.sample) \in 1..Len(page) /\ both[i] = page[i - Len(v6.sample)]
      <4>1. CASE j \in 1..Len(v6.sample) /\ both[j] = v6.sample[j]
        BY <2>2, <2>4, <3>1, <3>2, <3>4, <4>1
      <4>2. CASE j - Len(v6.sample) \in 1..Len(page) /\ both[j] = page[j - Len(v6.sample)]
        <5>1. i - Len(v6.sample) = j - Len(v6.sample)
          BY <1>11, <2>4, <3>4, <4>2
        <5> QED BY <1>3, <1>4, <1>7, <5>1
      <4> QED BY <1>10, <4>1, <4>2
    <3> QED BY <1>10, <3>3, <3>4
  <2>5. ASSUME NEW k \in v6.pages \ {n}
        PROVE  Capture!Range(both) \cap Capture!Range(Capture!Page(k)) = {}
    BY <1>11, <2>1, <2>3
  <2> QED BY <2>4, <2>5
<1>13. Capture!SampleInv'
  <2>1. \A k : Capture!Page(k)' = Capture!Page(k)
    BY <1>0 DEF Capture!Page
  <2>2. 0 \notin v6'.pages
    BY <1>1, <1>8
  <2>3. v12' = v12
    BY <1>0
  <2>4. ASSUME ~v12'
        PROVE  /\ \A i, j \in DOMAIN v6'.sample : v6'.sample[i] = v6'.sample[j] => i = j
               /\ \A k \in v6'.pages :
                    Capture!Range(v6'.sample) \cap Capture!Range(Capture!Page(k)') = {}
    <3>1. ~v12
      BY <2>3, <2>4
    <3> QED BY <1>8, <1>12, <2>1, <3>1
  <2> QED BY <2>2, <2>4 DEF Capture!SampleInv, Capture!Range
<1>14. Capture!WalkInv'
  BY <1>0 DEF Capture!CaptureInv, Capture!WalkInv, Capture!Held, Capture!Range, Capture!Place,
              Capture!NoWalk
<1>15. Capture!ListingInv' /\ Capture!AuditIsHonest' /\ Capture!HealedOnce'
  BY <1>0 DEF Capture!CaptureInv, Capture!ListingInv, Capture!AuditIsHonest, Capture!HealedOnce
<1> QED BY <1>9, <1>13, <1>14, <1>15 DEF Capture!CaptureInv

\* As many places as a list is long.
LEMMA PlacesAreFinite ==
  ASSUME NEW n \in Nat PROVE IsFiniteSet(1..n) /\ Cardinality(1..n) = n
<1>1. 1 \in Int /\ n \in Int
  OBVIOUS
<1>2. IsFiniteSet(1..n) /\ Cardinality(1..n) = IF 1 > n THEN 0 ELSE n - 1 + 1
  BY <1>1, FS_Interval, Zenon
<1>3. n = IF 1 > n THEN 0 ELSE n - 1 + 1
  <2>1. CASE n = 0
    BY <2>1
  <2>2. CASE n # 0
    <3>1. ~(1 > n) /\ n - 1 + 1 = n
      BY <2>2
    <3> QED BY <3>1, Zenon
  <2> QED BY <2>1, <2>2
<1> QED BY <1>2, <1>3

\* The places of a sample that are asked about, those found, and the places of the others.
Asked(sample, places, found, off) ==
  /\ sample \in Seq(Checked) /\ places \in SUBSET DOMAIN sample
  /\ \A t \in found : \E i \in places : t = sample[i]
  /\ off = {i \in places : sample[i] \notin found}
\* Those found and those missing: together no more than were asked about, and all of them
\* when nobody is in the sample twice.
AddUp(sample, captured, missing, total) ==
  /\ captured \in Nat /\ total \in Nat /\ missing \in Nat
  /\ captured + missing <= total
  /\ (\A i, j \in DOMAIN sample : sample[i] = sample[j] => i = j) => captured + missing = total

\* What was asked about is found or missing.
LEMMA CountsOfSample ==
  \A sample, places, found, off : Asked(sample, places, found, off)
    => AddUp(sample, Cardinality(found), Cardinality(off), Cardinality(places))
<1> SUFFICES ASSUME NEW sample, NEW places, NEW found, NEW off, Asked(sample, places, found, off)
             PROVE  AddUp(sample, Cardinality(found), Cardinality(off), Cardinality(places))
  OBVIOUS
<1>0. /\ sample \in Seq(Checked) /\ places \in SUBSET DOMAIN sample
      /\ \A t \in found : \E i \in places : t = sample[i]
      /\ \A i : i \in off <=> i \in places /\ sample[i] \notin found
  BY DEF Asked
<1>1. DOMAIN sample = 1..Len(sample) /\ Len(sample) \in Nat
  BY <1>0, LenProperties
<1>2. IsFiniteSet(places)
  <2>1. IsFiniteSet(DOMAIN sample)
    BY <1>1, PlacesAreFinite
  <2> QED BY <1>0, <2>1, FS_Subset
<1> DEFINE on == {i \in places : sample[i] \in found}
           f == [i \in on |-> sample[i]]
<1>3. /\ IsFiniteSet(on) /\ IsFiniteSet(off)
      /\ Cardinality(on) \in Nat /\ Cardinality(off) \in Nat /\ Cardinality(places) \in Nat
  <2>1. on \in SUBSET places /\ off \in SUBSET places
    BY <1>0
  <2>2. IsFiniteSet(on) /\ IsFiniteSet(off)
    BY <1>2, <2>1, FS_Subset
  <2> QED BY <1>2, <2>2, FS_CardinalityType
<1>4. Cardinality(places) = Cardinality(on) + Cardinality(off)
  <2>1. on = places \ off /\ places \cap off = off
    BY <1>0
  <2>2. Cardinality(places \ off) = Cardinality(places) - Cardinality(places \cap off)
    BY <1>2, FS_Difference
  <2>3. Cardinality(on) = Cardinality(places) - Cardinality(off)
    <3> HIDE DEF on
    <3> QED BY <2>1, <2>2, Zenon
  <2> HIDE DEF on
  <2> QED BY <1>3, <2>3
<1>5. f \in Surjection(on, found)
  <2>1. f \in [on -> found]
    BY <1>0
  <2>2. ASSUME NEW t \in found PROVE \E i \in on : f[i] = t
    <3>1. PICK i \in places : t = sample[i]
      BY <1>0
    <3> QED BY <3>1
  <2> HIDE DEF f, on
  <2> QED BY <2>1, <2>2 DEF Surjection
<1>6. /\ IsFiniteSet(found) /\ Cardinality(found) <= Cardinality(on)
      /\ f \in Injection(on, found) => Cardinality(found) = Cardinality(on)
  <2> HIDE DEF f, on
  <2> QED BY <1>3, <1>5, FS_Surjection
<1>7. ASSUME \A i, j \in DOMAIN sample : sample[i] = sample[j] => i = j
      PROVE  f \in Injection(on, found)
  <2>1. f \in [on -> found]
    BY <1>0
  <2>2. \A i, j \in on : f[i] = f[j] => i = j
    BY <1>0, <1>7
  <2> HIDE DEF f, on
  <2> QED BY <2>1, <2>2 DEF Injection, IsInjective
<1>8. Cardinality(found) \in Nat
  BY <1>6, FS_CardinalityType
<1> HIDE DEF f, on
<1>9. Cardinality(found) + Cardinality(off) <= Cardinality(places)
  BY <1>3, <1>4, <1>6, <1>8
<1>10. (\A i, j \in DOMAIN sample : sample[i] = sample[j] => i = j)
         => Cardinality(found) + Cardinality(off) = Cardinality(places)
  BY <1>3, <1>4, <1>6, <1>7, <1>8
<1> QED BY <1>3, <1>8, <1>9, <1>10 DEF AddUp

\* A pass leaves at most the rest of the per cents missing, and a full count passes.
LEMMA PassIsArithmetic ==
  ASSUME NEW pass \in 0..100, NEW captured \in Nat, NEW total \in Nat, NEW missing \in Nat
  PROVE  /\ captured + missing <= total /\ captured * 100 >= pass * total
              => missing * 100 <= (100 - pass) * total
         /\ captured = total => captured * 100 >= pass * total
<1>1. pass * total \in Nat /\ (100 - pass) * total = 100 * total - pass * total
  OBVIOUS
<1>2. (100 - pass) * total \in Nat
  <2>1. 100 - pass \in Nat
    OBVIOUS
  <2> QED BY <2>1
<1> QED BY <1>1, <1>2

\* The corpus is asked about the sample.
LEMMA CaptureJudge ==
  ASSUME Capture!CaptureInv, Capture!Judge PROVE Capture!CaptureInv'
<1>0. /\ Capture!TypeOK /\ UNCHANGED <<v1, v2, v3, v4, v5, v8, v9, v10, v11, v12>>
      /\ v6' = Capture!NoAudit /\ v6.phase = "pages"
  BY DEF Capture!CaptureInv, Capture!Judge
<1>1. v6.sample \in Seq(Checked) /\ v7 \in CheckVerdict /\ v12 \in BOOLEAN
  BY <1>0, CheckTypes DEF CheckAudit
<1>2. v7' \in CheckVerdict /\ Capture!AuditIsHonest'
  <2>1. CASE v6.sample = << >>
    BY <1>1, <2>1 DEF Capture!CaptureInv, Capture!AuditIsHonest, Capture!Judge
  <2>2. CASE v6.sample # << >>
    <3>1. PICK places \in Capture!Cut(v6.sample) :
            LET found == Capture!Held({v6.sample[i] : i \in places})
                total == Capture!Cardinality(places)
            IN v7' = [passed |-> Capture!Cardinality(found) * 100 >= CheckPass * total,
                      captured |-> Capture!Cardinality(found), sampled |-> total,
                      missing |-> Capture!Cardinality({i \in places : v6.sample[i] \notin found}),
                      steady |-> ~v12]
      BY <2>2 DEF Capture!Judge
    <3> DEFINE found == Capture!Held({v6.sample[i] : i \in places})
               total == Cardinality(places)
               captured == Cardinality(found)
               missing == Cardinality({i \in places : v6.sample[i] \notin found})
    <3>2. v7' = [passed |-> captured * 100 >= CheckPass * total, captured |-> captured,
                 sampled |-> total, missing |-> missing, steady |-> ~v12]
      BY <3>1, CheckCardinality
    <3>3. DOMAIN v6.sample = 1..Len(v6.sample) /\ Len(v6.sample) \in Nat
      BY <1>1, LenProperties
    <3>4. places \in SUBSET DOMAIN v6.sample /\ total <= CheckSample
      <4>1. Cardinality(1..Len(v6.sample)) = Len(v6.sample)
        BY <3>3, PlacesAreFinite
      <4>2. CASE Len(v6.sample) <= CheckSample
        <5>1. places = DOMAIN v6.sample
          BY <3>1, <4>2 DEF Capture!Cut
        <5>2. total = Len(v6.sample)
          BY <3>3, <4>1, <5>1
        <5> QED BY <4>2, <5>1, <5>2
      <4>3. CASE ~(Len(v6.sample) <= CheckSample)
        <5>1. places \in SUBSET DOMAIN v6.sample /\ total = CheckSample
          BY <3>1, <4>3, CheckCardinality DEF Capture!Cut
        <5> QED BY <5>1, CorpusAssumption
      <4> QED BY <4>2, <4>3
    <3>5. \A t \in found : \E i \in places : t = v6.sample[i]
      BY DEF Capture!Held
    <3> HIDE DEF found
    <3>6. /\ captured \in Nat /\ total \in Nat /\ missing \in Nat
          /\ captured + missing <= total
          /\ (\A i, j \in DOMAIN v6.sample : v6.sample[i] = v6.sample[j] => i = j)
               => captured + missing = total
      <4> DEFINE lost == {i \in places : v6.sample[i] \notin found}
      <4>1. Asked(v6.sample, places, found, lost) /\ missing = Cardinality(lost)
        BY <1>1, <3>4, <3>5 DEF Asked
      <4> HIDE DEF lost, missing
      <4>2. AddUp(v6.sample, captured, missing, total)
        BY <4>1, CountsOfSample
      <4> QED BY <4>2 DEF AddUp
    <3> HIDE DEF captured, total, missing
    <3>7. captured \in 0..CheckSample /\ missing \in 0..CheckSample /\ total \in 0..CheckSample
      BY <3>4, <3>6, CorpusAssumption
    <3> DEFINE passed == captured * 100 >= CheckPass * total
    <3>8. passed \in BOOLEAN /\ (~v12) \in BOOLEAN
      OBVIOUS
    <3>9. /\ passed => missing * 100 <= (100 - CheckPass) * total
          /\ captured = total => passed
      BY <3>6, PassIsArithmetic, CorpusAssumption
    <3>10. ~v12 => captured + missing = total
      BY <1>0, <3>6 DEF Capture!CaptureInv, Capture!SampleInv
    <3> DEFINE steady == ~v12
    <3>11. steady => /\ captured + missing = total
                     /\ missing = 0 => passed
      <4>1. missing = 0 /\ captured + missing = total => captured = total
        BY <3>6
      <4> HIDE DEF passed
      <4> QED BY <3>9, <3>10, <4>1
    <3> HIDE DEF passed, steady
    <3>12. v7' = [passed |-> passed, captured |-> captured, sampled |-> total,
                  missing |-> missing, steady |-> steady]
      BY <3>2 DEF passed, steady
    <3>13. v7' \in CheckVerdict
      BY <3>7, <3>8, <3>12 DEF CheckVerdict, steady
    <3>14. /\ v7'.passed = passed /\ v7'.captured = captured /\ v7'.sampled = total
           /\ v7'.missing = missing /\ v7'.steady = steady
      BY <3>12
    <3>15. Capture!AuditIsHonest'
      BY <3>9, <3>11, <3>14 DEF Capture!AuditIsHonest
    <3> QED BY <3>13, <3>15
  <2> QED BY <2>1, <2>2
<1>3. Capture!TypeOK'
  BY <1>0, <1>2, NothingChecked, CheckTypes, CheckTypesAfter
<1>4. Capture!SampleInv'
  BY <1>0, NothingChecked DEF Capture!SampleInv
<1>5. Capture!WalkInv'
  BY <1>0 DEF Capture!CaptureInv, Capture!WalkInv, Capture!Held, Capture!Range, Capture!Place,
              Capture!NoWalk
<1>6. Capture!ListingInv' /\ Capture!HealedOnce'
  BY <1>0 DEF Capture!CaptureInv, Capture!ListingInv, Capture!HealedOnce
<1> QED BY <1>2, <1>3, <1>4, <1>5, <1>6 DEF Capture!CaptureInv

\* An audit ends without a verdict, or nothing happens.
LEMMA CaptureAuditDies ==
  ASSUME Capture!CaptureInv, Capture!AuditDies \/ UNCHANGED Capture!vars
  PROVE  Capture!CaptureInv'
<1>0. /\ Capture!TypeOK /\ UNCHANGED <<v1, v2, v3, v4, v5, v7, v8, v9, v10, v11, v12>>
      /\ v6' = v6 \/ v6' = Capture!NoAudit
  BY DEF Capture!CaptureInv, Capture!AuditDies, Capture!vars
<1>1. Capture!TypeOK'
  BY <1>0, NothingChecked, CheckTypes, CheckTypesAfter
<1>2. Capture!SampleInv'
  BY <1>0, SampleStands, NothingChecked DEF Capture!CaptureInv, Capture!SampleInv
<1>3. Capture!WalkInv'
  BY <1>0 DEF Capture!CaptureInv, Capture!WalkInv, Capture!Held, Capture!Range, Capture!Place,
              Capture!NoWalk
<1>4. Capture!ListingInv' /\ Capture!AuditIsHonest' /\ Capture!HealedOnce'
  BY <1>0 DEF Capture!CaptureInv, Capture!ListingInv, Capture!AuditIsHonest, Capture!HealedOnce
<1> QED BY <1>1, <1>2, <1>3, <1>4 DEF Capture!CaptureInv

\* Every step.
LEMMA CaptureStep ==
  ASSUME Capture!CaptureInv, Capture!Next \/ UNCHANGED Capture!vars PROVE Capture!CaptureInv'
<1>1. \A i \in DOMAIN v1 : v1[i] \in Checked
  BY CheckTypes, LenProperties DEF Capture!CaptureInv
<1> QED BY <1>1, CapturePublish, CaptureWithdraw, CaptureCapture, CaptureCensus, CaptureWalkPage,
           CaptureWalkRow, CaptureReport, CaptureWalkEnds, CaptureDraw, CaptureSample,
           CaptureJudge, CaptureAuditDies DEF Capture!Next

-----------------------------------------------------------------------------
(***************************************************************************)
(* BoqPool: published on enough tenants, and on nobody who withdrew.       *)
(* v1 .. v6 are clock, catalogue, docs, bench, run and gone.               *)
(***************************************************************************)
PoolConsents == {"none", "active", "withdrawn"}
PoolLine == [item : BoqItems \cup {"none"}, by : {"user", "none"}, priced : BOOLEAN]
PoolUpload(e, day) ==
  /\ e = [tenant |-> e.tenant, day |-> e.day, lines |-> e.lines, consent |-> e.consent]
  /\ e.tenant \in Pair /\ e.day \in 1..day /\ e.consent \in PoolConsents
  /\ e.lines \in [DOMAIN e.lines -> PoolLine]
PoolRun(e, day) ==
  /\ e = [phase |-> e.phase, now |-> e.now, groups |-> e.groups]
  /\ e.phase \in {"idle", "read", "write"}
  /\ e.now \in IF e.phase = "idle" THEN {0} ELSE 1..day
  /\ \A g \in e.groups : g.item \in BoqItems

\* The types, by the names above.
LEMMA PoolTypes ==
  Boq!TypeOK <=>
    /\ v1 \in 1..BoqClock /\ v2 \subseteq BoqItems
    /\ DOMAIN v3 \subseteq BoqDocuments /\ \A d \in DOMAIN v3 : PoolUpload(v3[d], v1)
    /\ \A b \in v4 : b.item \in BoqItems /\ b.day \in 1..v1
    /\ DOMAIN v5 = BoqRuns /\ \A r \in BoqRuns : PoolRun(v5[r], v1)
    /\ v6 \in [BoqDocuments -> 0..BoqClock]
BY DEF Boq!TypeOK, Boq!IsUpload, Boq!IsRun, Boq!Consents, Boq!Line, Boq!None, PoolConsents,
       PoolLine, PoolUpload, PoolRun

\* The types again, of the next state.
LEMMA PoolTypesAfter ==
  ASSUME v1' \in 1..BoqClock, v2' \subseteq BoqItems,
         DOMAIN v3' \subseteq BoqDocuments, \A d \in DOMAIN v3' : PoolUpload(v3'[d], v1'),
         \A b \in v4' : b.item \in BoqItems /\ b.day \in 1..v1',
         DOMAIN v5' = BoqRuns, \A r \in BoqRuns : PoolRun(v5'[r], v1'),
         v6' \in [BoqDocuments -> 0..BoqClock]
  PROVE  Boq!TypeOK'
BY DEF Boq!TypeOK, Boq!IsUpload, Boq!IsRun, Boq!Consents, Boq!Line, Boq!None, PoolConsents,
       PoolLine, PoolUpload, PoolRun

\* Lines stay fit to be published when nothing was withdrawn before their day.
LEMMA PoolStands ==
  ASSUME NEW lines, NEW day, Boq!Published(lines, day),
         \A d \in BoqDocuments : v6'[d] = v6[d] \/ (v6[d] = 0 /\ day <= v6'[d])
  PROVE  Boq!Published(lines, day)'
<1>1. (Boq!Cardinality(Boq!Tenancy(lines)) >= BoqContributors)'
  BY DEF Boq!Published, Boq!Tenancy
<1>2. Boq!LinesHold(lines, day)'
  BY DEF Boq!Published, Boq!LinesHold
<1> QED BY <1>1, <1>2 DEF Boq!Published

\* A run that is not at work.
LEMMA PoolIdle == PoolRun(Boq!Idle, v1) /\ Boq!Idle.groups = {} /\ Boq!Idle.phase = "idle"
BY DEF Boq!Idle, PoolRun

\* The initial states.
LEMMA BoqInit == ASSUME Boq!Init PROVE Boq!PoolInv
<1>1. DOMAIN v5 = BoqRuns /\ \A r \in BoqRuns : v5[r] = Boq!Idle
  BY DEF Boq!Init
<1>2. DOMAIN v3 = {} /\ v4 = {} /\ v1 \in 1..BoqClock /\ v6 \in [BoqDocuments -> 0..BoqClock]
  BY CorpusAssumption DEF Boq!Init
<1>3. v2 \subseteq BoqItems
  BY DEF Boq!Init
<1>4. Boq!TypeOK
  BY <1>1, <1>2, <1>3, PoolIdle, PoolTypes
<1> QED BY <1>1, <1>2, <1>4, PoolIdle DEF Boq!PoolInv

\* A day passes.
LEMMA BoqTick == ASSUME Boq!PoolInv, Boq!Tick PROVE Boq!PoolInv'
<1>0. Boq!TypeOK /\ v1' = v1 + 1 /\ v1 < BoqClock /\ UNCHANGED <<v2, v3, v4, v5, v6>>
  BY DEF Boq!PoolInv, Boq!Tick
<1>1. v1 \in 1..BoqClock /\ v1' \in 1..BoqClock /\ \A day : day \in 1..v1 => day \in 1..v1'
  BY <1>0, PoolTypes, CorpusAssumption
<1>2. /\ \A e : PoolUpload(e, v1) => PoolUpload(e, v1')
      /\ \A e : PoolRun(e, v1) => PoolRun(e, v1')
  BY <1>1 DEF PoolUpload, PoolRun
<1>3. Boq!TypeOK'
  BY <1>0, <1>1, <1>2, PoolTypes, PoolTypesAfter
<1>4. \A lines, day : Boq!Published(lines, day) => Boq!Published(lines, day)'
  BY <1>0, PoolStands
<1> QED BY <1>0, <1>3, <1>4 DEF Boq!PoolInv

\* The first row of a set.
LEMMA FirstOfRows ==
  ASSUME NEW S, S \subseteq Nat, S # {}
  PROVE  Boq!Min(S) \in S /\ \A y \in S : Boq!Min(S) <= y
BY LeastExists DEF Boq!Min

\* The rows that become lines are rows of the sheet.
LEMMA ParsedRows ==
  ASSUME NEW sheet \in BoqSheets
  PROVE  Boq!Parsed(sheet) \subseteq DOMAIN sheet
<1>1. sheet \in Seq(Boq!Row) /\ DOMAIN sheet = 1..Len(sheet) /\ Len(sheet) \in Nat
  BY SheetAssumption, LenProperties
<1>2. SUFFICES ASSUME NEW i \in Boq!Parsed(sheet) PROVE i \in DOMAIN sheet
  OBVIOUS
<1> DEFINE headers == Boq!HeaderRows(sheet)
           head == Boq!Min(headers)
           stops == Boq!Stops(sheet, head) \cup {Boq!Len(sheet)}
           last == Boq!Min(stops)
<1>3. headers # {} /\ i \in (head + 1)..last
  BY <1>2 DEF Boq!Parsed
<1>4. headers \subseteq DOMAIN sheet
  BY DEF Boq!HeaderRows
<1>5. stops \subseteq Nat /\ Len(sheet) \in stops
  BY <1>1 DEF Boq!Stops, Len, Boq!Len
<1> HIDE DEF headers, stops
<1>6. head \in DOMAIN sheet
  BY <1>1, <1>3, <1>4, FirstOfRows
<1>7. last \in Nat /\ last <= Len(sheet)
  BY <1>5, FirstOfRows
<1> HIDE DEF head, last
<1> QED BY <1>1, <1>3, <1>6, <1>7

\* An upload: its lines are unconfirmed, and its document was never withdrawn.
LEMMA BoqUploads ==
  ASSUME Boq!PoolInv, NEW d \in BoqDocuments, NEW t \in Pair, NEW sheet \in BoqSheets,
         NEW consent \in BOOLEAN, Boq!Upload(d, t, sheet, consent)
  PROVE  Boq!PoolInv'
<1>0. Boq!TypeOK /\ d \notin DOMAIN v3 /\ v6[d] = 0 /\ UNCHANGED <<v1, v2, v4, v5, v6>>
  BY DEF Boq!PoolInv, Boq!Upload
<1> DEFINE lines == [i \in Boq!Parsed(sheet) |->
                       [item |-> Boq!Suggested(sheet[i]), by |-> "none",
                        priced |-> sheet[i].priced]]
           given == IF consent THEN "active" ELSE "none"
           doc == [tenant |-> t, day |-> v1, lines |-> lines, consent |-> given]
<1>1. v3' = [e \in DOMAIN v3 \cup {d} |-> IF e = d THEN doc ELSE v3[e]]
  BY DEF Boq!Upload, Boq!None
<1>2. lines \in [DOMAIN lines -> PoolLine]
  <2>1. ASSUME NEW i \in Boq!Parsed(sheet)
        PROVE  Boq!Suggested(sheet[i]) \in BoqItems \cup {"none"} /\ sheet[i].priced \in BOOLEAN
    <3>1. sheet[i] \in Boq!Row
      BY ParsedRows, SheetAssumption, LenProperties
    <3>2. sheet[i].priced \in BOOLEAN /\ sheet[i].close \in BoqItems \cup {"none"}
      BY <3>1 DEF Boq!Row, Boq!None
    <3> QED BY <3>2 DEF Boq!Suggested, Boq!None
  <2> QED BY <2>1 DEF PoolLine
<1>3. v1 \in 1..BoqClock
  BY <1>0, PoolTypes
<1> HIDE DEF lines
<1>4. PoolUpload(doc, v1)
  <2>1. given \in PoolConsents /\ v1 \in 1..v1
    BY <1>3 DEF PoolConsents
  <2> HIDE DEF given
  <2> QED BY <1>2, <2>1 DEF PoolUpload
<1> HIDE DEF doc
<1>5. /\ DOMAIN v3' = DOMAIN v3 \cup {d} /\ v3'[d] = doc
      /\ \A e \in DOMAIN v3 : v3'[e] = v3[e]
  BY <1>0, <1>1
<1>6. Boq!TypeOK'
  BY <1>0, <1>4, <1>5, PoolTypes, PoolTypesAfter
<1>7. \A n, day : Boq!Published(n, day) => Boq!Published(n, day)'
  BY <1>0, PoolStands
<1> QED BY <1>0, <1>5, <1>6, <1>7 DEF Boq!PoolInv

\* The catalogue grows.
LEMMA BoqCatalogue ==
  ASSUME Boq!PoolInv, NEW i \in BoqItems, Boq!CreateCatalogueItem(i) PROVE Boq!PoolInv'
<1>0. Boq!TypeOK /\ v2' = v2 \cup {i} /\ UNCHANGED <<v1, v3, v4, v5, v6>>
  BY DEF Boq!PoolInv, Boq!CreateCatalogueItem
<1>1. Boq!TypeOK'
  BY <1>0, PoolTypes, PoolTypesAfter
<1>2. \A n, day : Boq!Published(n, day) => Boq!Published(n, day)'
  BY <1>0, PoolStands
<1> QED BY <1>0, <1>1, <1>2 DEF Boq!PoolInv

\* A match is confirmed or cleared.
LEMMA BoqPatch ==
  ASSUME Boq!PoolInv, NEW d \in DOMAIN v3, NEW n \in DOMAIN v3[d].lines,
         NEW item \in BoqItems \cup {"none"}, NEW who \in {"user", "none"},
         Boq!PatchLineMatch(d, n, item, who)
  PROVE  Boq!PoolInv'
<1>0. Boq!TypeOK /\ UNCHANGED <<v1, v2, v4, v5, v6>> /\ PoolUpload(v3[d], v1)
  BY PoolTypes DEF Boq!PoolInv, Boq!PatchLineMatch
<1> DEFINE old == v3[d]
           by == IF item = "none" THEN "none" ELSE who
           line == [[old.lines[n] EXCEPT !.item = item] EXCEPT !.by = by]
           lines == [old.lines EXCEPT ![n] = line]
           doc == [old EXCEPT !.lines = lines]
<1>1. v3' = [v3 EXCEPT ![d] = doc]
  BY <1>0 DEF Boq!PatchLineMatch, Boq!None, PoolUpload
<1>2. line \in PoolLine
  <2>1. old.lines[n] \in PoolLine /\ by \in {"user", "none"}
    BY <1>0 DEF PoolUpload
  <2> HIDE DEF by
  <2> QED BY <2>1 DEF PoolLine
<1> HIDE DEF line
<1>3. lines \in [DOMAIN lines -> PoolLine]
  BY <1>0, <1>2 DEF PoolUpload
<1> HIDE DEF lines
<1>4. PoolUpload(doc, v1) /\ doc.consent = old.consent
  BY <1>0, <1>3 DEF PoolUpload
<1> HIDE DEF doc
<1>5. DOMAIN v3' = DOMAIN v3 /\ v3'[d] = doc /\ \A e \in DOMAIN v3 \ {d} : v3'[e] = v3[e]
  BY <1>1
<1>6. Boq!TypeOK'
  BY <1>0, <1>4, <1>5, PoolTypes, PoolTypesAfter
<1>7. \A m, day : Boq!Published(m, day) => Boq!Published(m, day)'
  BY <1>0, PoolStands
<1> QED BY <1>0, <1>4, <1>5, <1>6, <1>7 DEF Boq!PoolInv

\* A document that goes, on the day that its consent ends: what is in hand or published is of
\* that day or an earlier one.
LEMMA PoolWithdrawn ==
  ASSUME Boq!PoolInv, NEW d \in BoqDocuments, v1' = v1, v4' = v4, v5' = v5,
         \/ v6' = v6
         \/ v6[d] = 0 /\ v6' = [v6 EXCEPT ![d] = v1]
  PROVE  /\ v6' \in [BoqDocuments -> 0..BoqClock]
         /\ \A r \in BoqRuns : \A g \in v5[r].groups : Boq!Published(g.lines, v5[r].now)'
         /\ \A b \in v4 : Boq!Published(b.lines, b.day)'
         /\ \A e \in BoqDocuments \ {d} : v6'[e] = v6[e]
<1>0. Boq!TypeOK /\ v1 \in 1..BoqClock /\ v6 \in [BoqDocuments -> 0..BoqClock]
  BY PoolTypes DEF Boq!PoolInv
<1>1. v6' \in [BoqDocuments -> 0..BoqClock] /\ \A e \in BoqDocuments \ {d} : v6'[e] = v6[e]
  BY <1>0
<1>2. ASSUME NEW day \in 0..v1, NEW lines, Boq!Published(lines, day)
      PROVE  Boq!Published(lines, day)'
  <2>1. \A e \in BoqDocuments : v6'[e] = v6[e] \/ (v6[e] = 0 /\ day <= v6'[e])
    BY <1>0, <1>1
  <2> QED BY <1>2, <2>1, PoolStands
<1>3. ASSUME NEW r \in BoqRuns PROVE v5[r].now \in 0..v1
  BY <1>0, PoolTypes DEF PoolRun
<1>4. ASSUME NEW b \in v4 PROVE b.day \in 0..v1
  BY <1>0, PoolTypes
<1>5. \A r \in BoqRuns : \A g \in v5[r].groups : Boq!Published(g.lines, v5[r].now)'
  <2> TAKE r \in BoqRuns
  <2> TAKE g \in v5[r].groups
  <2>1. v5[r].now \in 0..v1 /\ Boq!Published(g.lines, v5[r].now)
    BY <1>3 DEF Boq!PoolInv
  <2> QED BY <1>2, <2>1
<1>6. \A b \in v4 : Boq!Published(b.lines, b.day)'
  <2> TAKE b \in v4
  <2>1. b.day \in 0..v1 /\ Boq!Published(b.lines, b.day)
    BY <1>4 DEF Boq!PoolInv
  <2> QED BY <1>2, <2>1
<1> QED BY <1>1, <1>5, <1>6

\* A consent ends.
LEMMA BoqWithdraw ==
  ASSUME Boq!PoolInv, NEW d \in BoqDocuments, Boq!WithdrawConsent(d) PROVE Boq!PoolInv'
<1>0. /\ Boq!TypeOK /\ UNCHANGED <<v1, v2, v4, v5>> /\ d \in DOMAIN v3 /\ v6[d] = 0
      /\ v3' = [v3 EXCEPT ![d].consent = "withdrawn"] /\ v6' = [v6 EXCEPT ![d] = v1]
  BY DEF Boq!PoolInv, Boq!WithdrawConsent
<1> DEFINE doc == [v3[d] EXCEPT !.consent = "withdrawn"]
<1>1. PoolUpload(v3[d], v1)
  BY <1>0, PoolTypes
<1>2. PoolUpload(doc, v1) /\ doc.consent = "withdrawn"
  BY <1>1 DEF PoolUpload, PoolConsents
<1>3. v3' = [v3 EXCEPT ![d] = doc]
  BY <1>0
<1> HIDE DEF doc
<1>4. DOMAIN v3' = DOMAIN v3 /\ v3'[d] = doc /\ \A e \in DOMAIN v3 \ {d} : v3'[e] = v3[e]
  BY <1>0, <1>3
<1>5. /\ v6' \in [BoqDocuments -> 0..BoqClock]
      /\ \A r \in BoqRuns : \A g \in v5[r].groups : Boq!Published(g.lines, v5[r].now)'
      /\ \A b \in v4 : Boq!Published(b.lines, b.day)'
      /\ \A e \in BoqDocuments \ {d} : v6'[e] = v6[e]
  BY <1>0, PoolWithdrawn
<1>6. Boq!TypeOK'
  BY <1>0, <1>2, <1>4, <1>5, PoolTypes, PoolTypesAfter
<1>7. DOMAIN v3 \subseteq BoqDocuments
  BY <1>0, PoolTypes
<1>8. \A e \in DOMAIN v3' : v3'[e].consent = "active" => v6'[e] = 0
  BY <1>2, <1>4, <1>5, <1>7 DEF Boq!PoolInv
<1> QED BY <1>0, <1>5, <1>6, <1>8 DEF Boq!PoolInv

\* A document is deleted.
LEMMA BoqDelete ==
  ASSUME Boq!PoolInv, NEW d \in BoqDocuments, Boq!DeleteDocument(d) PROVE Boq!PoolInv'
<1>0. /\ Boq!TypeOK /\ UNCHANGED <<v1, v2, v4, v5>> /\ d \in DOMAIN v3
      /\ v3' = [e \in DOMAIN v3 \ {d} |-> v3[e]]
      /\ v6' = [v6 EXCEPT ![d] = IF v6[d] = 0 THEN v1 ELSE v6[d]]
  BY DEF Boq!PoolInv, Boq!DeleteDocument
<1>1. v6' = v6 \/ (v6[d] = 0 /\ v6' = [v6 EXCEPT ![d] = v1])
  <2>1. v6 \in [BoqDocuments -> 0..BoqClock]
    BY <1>0, PoolTypes
  <2>2. CASE v6[d] = 0
    BY <1>0, <2>2
  <2>3. CASE v6[d] # 0
    <3>1. v6' = [v6 EXCEPT ![d] = v6[d]]
      BY <1>0, <2>3
    <3> QED BY <2>1, <3>1
  <2> QED BY <2>2, <2>3
<1>2. DOMAIN v3' = DOMAIN v3 \ {d} /\ \A e \in DOMAIN v3' : v3'[e] = v3[e]
  BY <1>0
<1>3. /\ v6' \in [BoqDocuments -> 0..BoqClock]
      /\ \A r \in BoqRuns : \A g \in v5[r].groups : Boq!Published(g.lines, v5[r].now)'
      /\ \A b \in v4 : Boq!Published(b.lines, b.day)'
      /\ \A e \in BoqDocuments \ {d} : v6'[e] = v6[e]
  BY <1>0, <1>1, PoolWithdrawn
<1>4. Boq!TypeOK'
  BY <1>0, <1>2, <1>3, PoolTypes, PoolTypesAfter
<1>5. DOMAIN v3 \subseteq BoqDocuments
  BY <1>0, PoolTypes
<1>6. \A e \in DOMAIN v3' : v3'[e].consent = "active" => v6'[e] = 0
  BY <1>2, <1>3, <1>5 DEF Boq!PoolInv
<1> QED BY <1>0, <1>3, <1>4, <1>6 DEF Boq!PoolInv

\* A run that is at another place; everything else stands.
LEMMA PoolRuns ==
  ASSUME Boq!PoolInv, NEW r \in BoqRuns, NEW new, PoolRun(new, v1),
         \A g \in new.groups : Boq!Published(g.lines, new.now),
         v5' = [v5 EXCEPT ![r] = new], UNCHANGED <<v1, v2, v3, v6>>,
         \A b \in v4' : /\ b.item \in BoqItems /\ b.day \in 1..v1
                        /\ Boq!Published(b.lines, b.day)
  PROVE  Boq!PoolInv'
<1>0. Boq!TypeOK
  BY DEF Boq!PoolInv
<1>1. DOMAIN v5' = BoqRuns /\ v5'[r] = new /\ \A s \in BoqRuns \ {r} : v5'[s] = v5[s]
  BY <1>0, PoolTypes
<1>2. Boq!TypeOK'
  BY <1>0, <1>1, PoolTypes, PoolTypesAfter
<1>3. \A n, day : Boq!Published(n, day) => Boq!Published(n, day)'
  BY PoolStands
<1>4. \A s \in BoqRuns : \A g \in v5'[s].groups : Boq!Published(g.lines, v5[s].now)'
  <2> TAKE s \in BoqRuns
  <2> TAKE g \in v5'[s].groups
  <2>1. CASE s = r
    <3>1. v5'[s].now = new.now /\ Boq!Published(g.lines, new.now)
      BY <1>1, <2>1
    <3> QED BY <1>3, <3>1 DEF Boq!Published, Boq!LinesHold
  <2>2. CASE s # r
    <3>1. v5'[s] = v5[s] /\ Boq!Published(g.lines, v5[s].now)
      BY <1>1, <2>2 DEF Boq!PoolInv
    <3> QED BY <1>3, <3>1 DEF Boq!Published, Boq!LinesHold
  <2> QED BY <2>1, <2>2
<1>5. \A b \in v4' : Boq!Published(b.lines, b.day)'
  BY <1>3
<1>6. \A d \in DOMAIN v3' : v3'[d].consent = "active" => v6'[d] = 0
  BY DEF Boq!PoolInv
<1> QED BY <1>2, <1>4, <1>5, <1>6 DEF Boq!PoolInv

\* What is published stays when nothing is written.
LEMMA PoolRead ==
  ASSUME Boq!PoolInv, v4' = v4
  PROVE  \A b \in v4' : /\ b.item \in BoqItems /\ b.day \in 1..v1
                        /\ Boq!Published(b.lines, b.day)
BY PoolTypes DEF Boq!PoolInv

\* A run begins, with its own now.
LEMMA BoqStart ==
  ASSUME Boq!PoolInv, NEW r \in BoqRuns, Boq!Start(r) PROVE Boq!PoolInv'
<1> DEFINE new == [[Boq!Idle EXCEPT !.phase = "read"] EXCEPT !.now = v1]
<1>1. v5' = [v5 EXCEPT ![r] = new] /\ UNCHANGED <<v1, v2, v3, v4, v6>>
  BY DEF Boq!Start
<1>2. v1 \in 1..v1
  BY PoolTypes DEF Boq!PoolInv
<1>3. PoolRun(new, v1) /\ new.groups = {}
  <2>1. new = [phase |-> "read", now |-> v1, groups |-> {}]
    <3> DEFINE half == [Boq!Idle EXCEPT !.phase = "read"]
    <3>1. half = [phase |-> "read", now |-> 0, groups |-> {}]
      BY DEF Boq!Idle
    <3> HIDE DEF half
    <3>2. [half EXCEPT !.now = v1] = [phase |-> "read", now |-> v1, groups |-> {}]
      BY <3>1
    <3> QED BY <3>2 DEF half
  <2> HIDE DEF new
  <2> QED BY <1>2, <2>1 DEF PoolRun
<1> HIDE DEF new
<1> QED BY <1>1, <1>3, PoolRuns, PoolRead

\* A run ends halfway.
LEMMA BoqDie ==
  ASSUME Boq!PoolInv, NEW r \in BoqRuns, Boq!Die(r) PROVE Boq!PoolInv'
<1>1. v5' = [v5 EXCEPT ![r] = Boq!Idle] /\ UNCHANGED <<v1, v2, v3, v4, v6>>
  BY DEF Boq!Die
<1> QED BY <1>1, PoolIdle, PoolRuns, PoolRead

\* What is read: lines of documents whose consent stands.
LEMMA BoqMaterialize ==
  ASSUME Boq!PoolInv, NEW r \in BoqRuns, Boq!Materialize(r) PROVE Boq!PoolInv'
<1>0. Boq!TypeOK /\ v5[r].phase = "read" /\ UNCHANGED <<v1, v2, v3, v4, v6>>
  BY DEF Boq!PoolInv, Boq!Materialize
<1> DEFINE now == v5[r].now
           groups == {g \in {[item |-> i, lines |-> Boq!Contributing(i, now)] : i \in BoqItems} :
                        Boq!Cardinality(Boq!Tenancy(g.lines)) >= BoqContributors}
           busy == [[v5[r] EXCEPT !.phase = "write"] EXCEPT !.groups = groups]
           new == IF groups = {} THEN Boq!Idle ELSE busy
<1>1. v5' = [v5 EXCEPT ![r] = new]
  BY DEF Boq!Materialize
<1>2. PoolRun(v5[r], v1) /\ DOMAIN v3 \subseteq BoqDocuments
  BY <1>0, PoolTypes
<1>3. ASSUME NEW i PROVE Boq!LinesHold(Boq!Contributing(i, now), now)
  <2>1. \A l \in Boq!Contributing(i, now) : l.doc \in DOMAIN v3 /\ v3[l.doc].consent = "active"
    BY DEF Boq!Contributing, Boq!Pooled
  <2> QED BY <1>2, <2>1 DEF Boq!PoolInv, Boq!LinesHold
<1>4. \A g \in groups : g.item \in BoqItems /\ Boq!Published(g.lines, now)
  BY <1>3 DEF Boq!Published
<1> HIDE DEF groups
<1>5. PoolRun(busy, v1) /\ busy.groups = groups /\ busy.now = now
  <2>1. busy = [phase |-> "write", now |-> now, groups |-> groups] /\ now \in 1..v1
    <3> DEFINE half == [v5[r] EXCEPT !.phase = "write"]
    <3>0. /\ v5[r] = [phase |-> "read", now |-> now, groups |-> v5[r].groups]
          /\ now \in 1..v1
      BY <1>0, <1>2 DEF PoolRun
    <3>1. half = [phase |-> "write", now |-> now, groups |-> v5[r].groups]
      <4> DEFINE then == now  had == v5[r].groups
      <4>1. v5[r] = [phase |-> "read", now |-> then, groups |-> had]
        BY <3>0
      <4> HIDE DEF then, had
      <4>2. [v5[r] EXCEPT !.phase = "write"] = [phase |-> "write", now |-> then, groups |-> had]
        BY <4>1
      <4> QED BY <4>2 DEF then, had
    <3> HIDE DEF half
    <3>2. [half EXCEPT !.groups = groups] = [phase |-> "write", now |-> now, groups |-> groups]
      BY <3>1
    <3> QED BY <3>0, <3>2 DEF half
  <2> HIDE DEF busy
  <2> QED BY <1>4, <2>1 DEF PoolRun
<1> HIDE DEF busy
<1>6. PoolRun(new, v1) /\ \A g \in new.groups : Boq!Published(g.lines, new.now)
  BY <1>4, <1>5, PoolIdle
<1> HIDE DEF new
<1> QED BY <1>0, <1>1, <1>6, PoolRuns, PoolRead

\* A group is written, in the run's own day.
LEMMA BoqUpsert ==
  ASSUME Boq!PoolInv, NEW r \in BoqRuns, NEW g \in v5[r].groups, Boq!Upsert(r, g)
  PROVE  Boq!PoolInv'
<1>0. Boq!TypeOK /\ v5[r].phase = "write" /\ UNCHANGED <<v1, v2, v3, v6>>
  BY DEF Boq!PoolInv, Boq!Upsert
<1> DEFINE rest == [v5[r] EXCEPT !.groups = v5[r].groups \ {g}]
           new == IF v5[r].groups = {g} THEN Boq!Idle ELSE rest
           row == [item |-> g.item, day |-> v5[r].now, lines |-> g.lines]
<1>1. /\ v5' = [v5 EXCEPT ![r] = new]
      /\ v4' = {b \in v4 : b.item # g.item \/ b.day # v5[r].now} \cup {row}
  <2>1. v5' = [v5 EXCEPT ![r] = new]
    BY DEF Boq!Upsert
  <2>2. v4' = {b \in v4 : b.item # g.item \/ b.day # v5[r].now} \cup {row}
    BY Zenon DEF Boq!Upsert
  <2> QED BY <2>1, <2>2
<1>2. /\ PoolRun(v5[r], v1)
      /\ \A h \in v5[r].groups : Boq!Published(h.lines, v5[r].now)
  BY <1>0, PoolTypes DEF Boq!PoolInv
<1>3. PoolRun(rest, v1) /\ rest.groups \subseteq v5[r].groups /\ rest.now = v5[r].now
  BY <1>2 DEF PoolRun
<1> HIDE DEF rest
<1>4. PoolRun(new, v1) /\ \A h \in new.groups : Boq!Published(h.lines, new.now)
  BY <1>2, <1>3, PoolIdle
<1> HIDE DEF new
<1>5. /\ row.item \in BoqItems /\ row.day \in 1..v1 /\ Boq!Published(row.lines, row.day)
  BY <1>0, <1>2 DEF PoolRun
<1> HIDE DEF row
<1>6. \A b \in v4 : /\ b.item \in BoqItems /\ b.day \in 1..v1
                    /\ Boq!Published(b.lines, b.day)
  BY <1>0, PoolTypes DEF Boq!PoolInv
<1>7. \A b \in v4' : /\ b.item \in BoqItems /\ b.day \in 1..v1
                     /\ Boq!Published(b.lines, b.day)
  BY <1>1, <1>5, <1>6
<1> QED BY <1>0, <1>1, <1>4, <1>7, PoolRuns

\* Every step.
LEMMA BoqStep ==
  ASSUME Boq!PoolInv, Boq!Next \/ UNCHANGED Boq!vars PROVE Boq!PoolInv'
<1>1. ASSUME UNCHANGED Boq!vars PROVE Boq!PoolInv'
  <2>1. UNCHANGED <<v1, v2, v3, v4, v5, v6>>
    BY <1>1 DEF Boq!vars
  <2>2. Boq!TypeOK'
    BY <2>1, PoolTypes, PoolTypesAfter DEF Boq!PoolInv
  <2>3. \A lines, day : Boq!Published(lines, day) => Boq!Published(lines, day)'
    BY <2>1, PoolStands
  <2> QED BY <2>1, <2>2, <2>3 DEF Boq!PoolInv
<1>2. ASSUME Boq!Next PROVE Boq!PoolInv'
  BY <1>2, BoqTick, BoqUploads, BoqCatalogue, BoqPatch, BoqWithdraw, BoqDelete, BoqStart,
     BoqMaterialize, BoqUpsert, BoqDie DEF Boq!Next, Boq!None
<1> QED BY <1>1, <1>2

\* A range that is served rests on enough tenants, and on no document that was withdrawn
\* before its day.
LEMMA PoolHolds == ASSUME Boq!PoolInv PROVE Boq!WithdrawalHolds
BY DEF Boq!PoolInv, Boq!Published, Boq!LinesHold, Boq!WithdrawalHolds, Boq!Served

-----------------------------------------------------------------------------
(***************************************************************************)
(* The corpus: a step is one of the component that focus names, or leaves  *)
(* that component's variables alone.                                       *)
(***************************************************************************)
\* The invariant of the component at work.
CorpusInv ==
  /\ focus = "search" => Search!IndexInv
  /\ focus = "schema" => Schema!SchemaInv
  /\ focus = "forsah" => Forsah!ForsahInv
  /\ focus = "vendors" => Merging!MergeInv
  /\ focus = "agencies" => Agencies!AgencyInv
  /\ focus = "capture" => Capture!CaptureInv
  /\ focus = "boq" => Boq!PoolInv

\* The initial states.
LEMMA CorpusStarts == ASSUME CorpusInit PROVE CorpusInv
<1>1. focus = "search" => Search!IndexInv
  BY IndexInit DEF CorpusInit
<1>2. focus = "schema" => Schema!SchemaInv
  BY SchemaInit DEF CorpusInit
<1>3. focus = "forsah" => Forsah!ForsahInv
  BY ForsahInit DEF CorpusInit
<1>4. focus = "vendors" => Merging!MergeInv
  BY MergeInit DEF CorpusInit
<1>5. focus = "agencies" => Agencies!AgencyInv
  BY AgencyInit DEF CorpusInit
<1>6. focus = "capture" => Capture!CaptureInv
  BY CaptureInit DEF CorpusInit
<1>7. focus = "boq" => Boq!PoolInv
  BY BoqInit DEF CorpusInit
<1> QED BY <1>1, <1>2, <1>3, <1>4, <1>5, <1>6, <1>7 DEF CorpusInv

\* The steps, by the component at work.
LEMMA CorpusSteps == ASSUME CorpusInv, [CorpusNext]_vars PROVE CorpusInv'
<1>0. focus' = focus
  BY DEF CorpusNext, vars
<1>1. ASSUME focus = "search" PROVE Search!IndexInv'
  <2>1. [Search!Next]_(Search!vars)
    BY <1>1 DEF CorpusNext, vars, slots, Search!vars
  <2> QED BY <1>1, <2>1, IndexStep DEF CorpusInv
<1>2. ASSUME focus = "schema" PROVE Schema!SchemaInv'
  <2>1. [Schema!Next]_(Schema!vars)
    BY <1>2 DEF CorpusNext, vars, slots, Schema!vars
  <2> QED BY <1>2, <2>1, SchemaStep DEF CorpusInv
<1>3. ASSUME focus = "forsah" PROVE Forsah!ForsahInv'
  <2>1. [Forsah!Next]_(Forsah!vars)
    BY <1>3 DEF CorpusNext, vars, slots, Forsah!vars
  <2> QED BY <1>3, <2>1, ForsahStep DEF CorpusInv
<1>4. ASSUME focus = "vendors" PROVE Merging!MergeInv'
  <2>1. [Merging!Next]_(Merging!vars)
    BY <1>4 DEF CorpusNext, vars, slots, Merging!vars
  <2> QED BY <1>4, <2>1, MergeStep DEF CorpusInv
<1>5. ASSUME focus = "agencies" PROVE Agencies!AgencyInv'
  <2>1. [Agencies!Next]_(Agencies!vars)
    BY <1>5 DEF CorpusNext, vars, slots, Agencies!vars
  <2> QED BY <1>5, <2>1, AgencyStep DEF CorpusInv
<1>6. ASSUME focus = "capture" PROVE Capture!CaptureInv'
  <2>1. [Capture!Next]_(Capture!vars)
    BY <1>6 DEF CorpusNext, vars, slots, Capture!vars
  <2> QED BY <1>6, <2>1, CaptureStep DEF CorpusInv
<1>7. ASSUME focus = "boq" PROVE Boq!PoolInv'
  <2>1. [Boq!Next]_(Boq!vars)
    BY <1>7 DEF CorpusNext, vars, slots, Boq!vars
  <2> QED BY <1>7, <2>1, BoqStep DEF CorpusInv
<1> QED BY <1>0, <1>1, <1>2, <1>3, <1>4, <1>5, <1>6, <1>7 DEF CorpusInv

\* In every reachable state of the jobs around the corpus the one at work keeps its invariant,
\* whatever its bounds and however many rows, files, names, tenders or documents there are.
THEOREM CorpusIsInvariant == CorpusSpec => []CorpusInv
BY CorpusStarts, CorpusSteps, PTL DEF CorpusSpec

\* The variables of the job at work keep their types.
THEOREM CorpusTypes == CorpusSpec => []CorpusTypeOK
<1>1. CorpusInv => CorpusTypeOK
  BY DEF CorpusInv, CorpusTypeOK, Search!IndexInv, Schema!SchemaInv, Forsah!ForsahInv,
         Merging!MergeInv, Agencies!AgencyInv, Capture!CaptureInv, Boq!PoolInv
<1> QED BY <1>1, CorpusIsInvariant, PTL

\* The index holds the newest change or a job is on its way with it (indexer.py); a migration is
\* recorded with its statements and in its turn (migrate.py); an opportunity's events tell its
\* changes (forsah.py); merging names takes no offer from its vendor, and agencies unite the
\* spellings that tenders were linked by (resolution.py); the checks of what was captured heal
\* and count what they claim to (reconcile.py, audit.py); a withdrawn document feeds no later benchmark, and none that is
\* served rests on too few tenants (item_benchmarks.py).
THEOREM CorpusKept == CorpusSpec => []CorpusIsKept
<1>1. CorpusInv => CorpusIsKept
  <2>1. ASSUME CorpusInv, focus = "search" PROVE Search!IndexIsCurrent
    BY <2>1, IndexFollows DEF CorpusInv
  <2>2. ASSUME CorpusInv, focus = "capture"
        PROVE  Capture!HeadIsCaptured /\ Capture!HealedOnce /\ Capture!AuditIsHonest
    BY <2>2, HeadWasWalked DEF CorpusInv, Capture!CaptureInv
  <2>3. ASSUME CorpusInv, focus = "boq" PROVE Boq!WithdrawalHolds
    BY <2>3, PoolHolds DEF CorpusInv
  <2> QED BY <2>1, <2>2, <2>3
          DEF CorpusInv, CorpusIsKept, Schema!SchemaInv, Forsah!ForsahInv, Merging!MergeInv,
              Agencies!AgencyInv
<1> QED BY <1>1, CorpusIsInvariant, PTL
=============================================================================
