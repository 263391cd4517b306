----------------------------- MODULE VendorMerge -----------------------------
(***************************************************************************)
(* Vendors whose names have one match key are merged (dedupe_vendors in    *)
(* resolution.py) while a harvest lane stores bid tables that name them    *)
(* (store_awarding).  The merge works from a list read before its          *)
(* transactions; only row locks and the foreign key keep the two apart.    *)
(*                                                                         *)
(* A tender's bid table is one offer.  Ids grow and are not reused.        *)
(***************************************************************************)
EXTENDS Naturals

CONSTANTS
  Tenders,
  Key,         \* match_key of each name
  MaxVendors,  \* bound: vendor rows ever inserted
  MaxStores    \* bound: bid tables stored

VARIABLES
  vendors,     \* canonical_name of each committed row, by id
  lastId,
  offers,      \* committed offers: vendor_name_raw and vendor_id by tender
  store,       \* the open transaction of the lane
  stores,
  merge,       \* the run: phase, groups to do, group in hand, offers it locked
  settled      \* history: the ids that the last complete run had read

vars == <<vendors, lastId, offers, store, stores, merge, settled>>

Names == DOMAIN Key
Ids == 1..MaxVendors
NoOffer == [name |-> 0, vendor |-> 0]
NoStore == [tender |-> 0, name |-> 0, vendor |-> 0]
Idle == [phase |-> "idle", listed |-> {}, todo |-> {}, group |-> {}, locked |-> {}]

TypeOK ==
  /\ DOMAIN vendors \subseteq Ids /\ \A v \in DOMAIN vendors : vendors[v] \in Names
  /\ lastId \in 0..MaxVendors /\ stores \in 0..MaxStores
  /\ offers \in [Tenders -> [name : Names \cup {0}, vendor : Ids \cup {0}]]
  /\ store \in [tender : Tenders \cup {0}, name : Names \cup {0}, vendor : Ids \cup {0}]
  /\ merge \in [phase : {"idle", "listed", "repointed"}, listed : SUBSET Ids,
               todo : SUBSET SUBSET Ids, group : SUBSET Ids, locked : SUBSET Tenders]
  /\ settled \subseteq Ids

Init ==
  /\ vendors = << >> /\ lastId = 0
  /\ offers = [t \in Tenders |-> NoOffer]
  /\ store = NoStore /\ stores = 0
  /\ merge = Idle /\ settled = {}

-----------------------------------------------------------------------------
Keeper(group) == CHOOSE v \in group : \A w \in group : v <= w
Dupes(group) == group \ {Keeper(group)}
Named(name) == {v \in DOMAIN vendors : vendors[v] = name}

\* The old offers are deleted and the vendor of the name is found or inserted;
\* both keep their locks to the end.  The DELETE waits for offers that the
\* merge has repointed and not committed.
StoreLink(t, name) ==
  /\ store = NoStore /\ stores < MaxStores
  /\ t \notin merge.locked
  /\ IF Named(name) # {}
     THEN /\ store' = [tender |-> t, name |-> name, vendor |-> CHOOSE v \in Named(name) : TRUE]
          /\ UNCHANGED lastId
     ELSE /\ lastId < MaxVendors
          /\ lastId' = lastId + 1
          /\ store' = [tender |-> t, name |-> name, vendor |-> lastId + 1]
  /\ stores' = stores + 1
  /\ UNCHANGED <<vendors, offers, merge, settled>>

StoreCommit ==
  /\ store # NoStore
  /\ vendors' = [v \in DOMAIN vendors \cup {store.vendor} |->
                   IF v = store.vendor THEN store.name ELSE vendors[v]]
  /\ offers' = [offers EXCEPT ![store.tender] = [name |-> store.name, vendor |-> store.vendor]]
  /\ store' = NoStore
  /\ UNCHANGED <<lastId, stores, merge, settled>>

\* An error, a deadlock that the database broke: nothing but the id is gone.
StoreFails ==
  /\ store # NoStore
  /\ store' = NoStore
  /\ UNCHANGED <<vendors, lastId, offers, stores, merge, settled>>

-----------------------------------------------------------------------------
\* Mutant: names would be compared as they are.
SameKey_Raw(v) == Named(vendors[v])

SameKey(v) == {w \in DOMAIN vendors : Key[vendors[w]] = Key[vendors[v]]}

\* SELECT id, canonical_name FROM vendors; groups of one need nothing.
List ==
  /\ merge.phase = "idle"
  /\ merge' = [Idle EXCEPT !.phase = "listed", !.listed = DOMAIN vendors,
                 !.todo = {SameKey(v) : v \in {w \in DOMAIN vendors : SameKey(w) # {w}}}]
  /\ UNCHANGED <<vendors, lastId, offers, store, stores, settled>>

Pointing(group) == {t \in Tenders : offers[t].vendor \in Dupes(group)}

\* The UPDATE locks the offers that it sees; it waits for those that the lane
\* has deleted and not committed.
Repoint(group) ==
  /\ merge.phase = "listed" /\ group \in merge.todo
  /\ store.tender \notin Pointing(group)
  /\ merge' = [merge EXCEPT !.phase = "repointed", !.todo = @ \ {group}, !.group = group,
                            !.locked = Pointing(group)]
  /\ UNCHANGED <<vendors, lastId, offers, store, stores, settled>>

\* Offers of the group that have been committed since the UPDATE.
Behind == Pointing(merge.group) \ merge.locked

\* The DELETE waits for a lane that holds the row of a duplicate; an offer
\* that still refers to one breaks the foreign key, and the run ends.
Remove ==
  /\ merge.phase = "repointed"
  /\ store.vendor \notin Dupes(merge.group)
  /\ IF Behind = {}
     THEN /\ offers' = [t \in Tenders |-> IF t \in merge.locked
                                          THEN [offers[t] EXCEPT !.vendor = Keeper(merge.group)]
                                          ELSE offers[t]]
          /\ vendors' = [v \in DOMAIN vendors \ Dupes(merge.group) |-> vendors[v]]
          /\ merge' = [merge EXCEPT !.phase = "listed", !.group = {}, !.locked = {}]
     ELSE /\ merge' = Idle
          /\ UNCHANGED <<offers, vendors>>
  /\ UNCHANGED <<lastId, store, stores, settled>>

Finish ==
  /\ merge.phase = "listed" /\ merge.todo = {}
  /\ settled' = merge.listed
  /\ merge' = Idle
  /\ UNCHANGED <<vendors, lastId, offers, store, stores>>

\* A signal, a deadlock: the open transaction is undone, those before it stay.
MergeDies ==
  /\ merge.phase # "idle"
  /\ merge' = Idle
  /\ UNCHANGED <<vendors, lastId, offers, store, stores, settled>>

Next ==
  \/ \E t \in Tenders, name \in Names : StoreLink(t, name)
  \/ StoreCommit \/ StoreFails
  \/ List \/ Remove \/ Finish \/ MergeDies
  \/ \E group \in merge.todo : Repoint(group)

Spec == Init /\ [][Next]_vars

-----------------------------------------------------------------------------
\* An offer refers to a vendor that exists and has the match key of the name
\* that the bid table gave, however merges and stores interleave.
OffersKeepTheirVendor ==
  \A t \in Tenders :
    offers[t] # NoOffer =>
      /\ offers[t].vendor \in DOMAIN vendors
      /\ Key[vendors[offers[t].vendor]] = Key[offers[t].name]

\* A complete run leaves one vendor per key among those it read; only names
\* that were stored since split a vendor again.
OneVendorPerKey ==
  \A v, w \in settled \cap DOMAIN vendors : Key[vendors[v]] = Key[vendors[w]] => v = w
-----------------------------------------------------------------------------
\* The lane holds a vendor of the name, or one that nobody has seen yet.
StoreInv ==
  store # NoStore =>
    /\ store.tender \in Tenders /\ store.name \in Names /\ store.vendor \in 1..lastId
    /\ IF store.vendor \in DOMAIN vendors
       THEN vendors[store.vendor] = store.name
       ELSE store.vendor \notin merge.listed \cup settled

\* The groups that the run has still to do, the one in hand included.
Groups == merge.todo \cup IF merge.phase = "repointed" THEN {merge.group} ELSE {}

\* The groups are apart, of one key each, and hold every two vendors of one
\* key that the run has read.
GroupsInv ==
  /\ DOMAIN vendors \cup merge.listed \cup settled \subseteq 1..lastId
  /\ merge.phase = "idle" => merge = Idle
  /\ merge.phase = "repointed" => merge.group \notin merge.todo
  /\ \A g \in Groups : /\ g # {} /\ g \subseteq DOMAIN vendors
                       /\ \A v, w \in g : Key[vendors[v]] = Key[vendors[w]]
                       /\ \A h \in Groups : g = h \/ g \cap h = {}
  /\ \A v, w \in merge.listed \cap DOMAIN vendors :
       Key[vendors[v]] = Key[vendors[w]] => v = w \/ \E g \in Groups : v \in g /\ w \in g

\* An offer that the run has locked keeps its vendor until the run lets go.
LocksInv ==
  /\ merge.phase # "repointed" => merge.locked = {}
  /\ store.tender \notin merge.locked
  /\ \A t \in merge.locked : offers[t].vendor \in Dupes(merge.group)

MergeInv ==
  TypeOK /\ StoreInv /\ GroupsInv /\ LocksInv /\ OffersKeepTheirVendor /\ OneVendorPerKey
=============================================================================
