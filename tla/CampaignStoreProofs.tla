------------------------ MODULE CampaignStoreProofs ------------------------
(***************************************************************************)
(* Proofs about CampaignStore, for any sets of campaigns, observations,     *)
(* pages, transactions and readers, and any page size.                      *)
(***************************************************************************)
EXTENDS CampaignStore, FiniteSetTheorems, TLAPS

\* The rows are finite, and positions are drawn from the sequence.
RowsInv ==
    /\ IsFiniteSet(records) /\ IsFiniteSet(events)
    /\ \A e \in events : e.seq <= sequence

\* An advisory lock is held from the statement that took it to the end.
LockInv ==
    \A w \in Writers :
        /\ pc[w] \in {"verified", "locked"} => bundle[w].page \in Pages
        /\ pc[w] \notin {"idle", "verified"} /\ bundle[w].page # NoPage
              => campaignLock[bundle[w].campaign] = w
        /\ pc[w] = "allocating" \/ (pc[w] = "committing" /\ pending[w] # {})
              => feedLock = w

\* The rows of the version before x.
Before(x) == {y \in VersionsOf(x.campaign) : y.version = x.version - 1}

\* x may be added to the versions of its campaign.
IsNext(x) ==
    /\ \A y \in VersionsOf(x.campaign) : y.version < x.version
    /\ x.version > 1 => \E y \in Before(x) : y.record # x.record

ChangeOf(x) ==
    [campaign |-> x.campaign, version |-> x.version, record_id |-> x.id,
     previous |-> {y.id : y \in Before(x)}]

\* What a transaction has written and not committed: at most one observation,
\* of the latest version or of the one new version it has written too.
WritesInv(w) ==
    /\ pc[w] \in {"idle", "verified", "locked"} => writes[w] = NoWrites /\ pending[w] = {}
    /\ writes[w].observations # {} => bundle[w].page \in Pages /\ Observed(w) = {}
    /\ \A o \in writes[w].observations :
          /\ o = NewObservation(w, o.record_id)
          /\ \E x \in records \cup writes[w].records :
                /\ x.id = o.record_id /\ x.campaign = o.campaign /\ x.record = o.record
                /\ \/ x \in writes[w].records
                   \/ IsLatest(x, o.campaign) /\ writes[w].records = {}
    /\ writes[w].records = {} => pending[w] = {}
    /\ \A x \in writes[w].records :
          /\ writes[w].records = {x}
          /\ writes[w].observations # {}
          /\ x.id = RecordId(w) /\ x.campaign = bundle[w].campaign
          /\ x.record = bundle[w].page.record
          /\ IsNext(x)
          /\ pending[w] = {ChangeOf(x)}

\* The event a transaction has inserted: its position is after every other.
EventInv(w) ==
    /\ pc[w] # "committing" => writes[w].events = {}
    /\ pc[w] = "committing" => \A c \in pending[w] : \E e \in writes[w].events : e.change = c
    /\ \A e \in writes[w].events :
          /\ writes[w].events = {e}
          /\ e.change \in pending[w]
          /\ e.seq <= sequence
          /\ \A f \in events : f.seq < e.seq

\* A version was observed when it was written, and has its event.
HistoryInv ==
    /\ \A x \in records :
          /\ x.id = <<x.campaign, x.id[2], x.record>>
          /\ \E o \in observations : o.campaign = x.campaign /\ o.observation = x.id[2]
    /\ \A e \in events : \E x \in records :
          x.id = e.change.record_id /\ x.campaign = e.change.campaign

\* A reader has shown a prefix of the feed, and what it has shown behind its
\* cursor is on the page it reads next.
ReaderInv ==
    \A r \in Readers :
        /\ processed[r] \subseteq events
        /\ cursor[r] = 0 \/ \E e \in processed[r] : e.seq = cursor[r]
        /\ processed[r] \cap After(r) \subseteq Page(r)

IInv ==
    /\ TypeOK
    /\ RowsInv
    /\ LockInv
    /\ \A w \in Writers : WritesInv(w) /\ EventInv(w)
    /\ HistoryInv
    /\ VersionChain
    /\ OneVersionPerObservation
    /\ FeedTellsHistory
    /\ ReaderInv
    /\ FeedComplete

-----------------------------------------------------------------------------
(* Lemmas.                                                                  *)

\* Finitely many rows have finitely many campaigns.
LEMMA CampaignsCounted ==
    ASSUME NEW S, IsFiniteSet(S)
    PROVE  Cardinality({x.campaign : x \in S}) \in Nat
  <1> DEFINE T == {x.campaign : x \in S}
             f == [x \in S |-> x.campaign]
  <1>1. f \in Surjection(S, T)
    BY DEF Surjection
  <1>2. IsFiniteSet(T)
    BY <1>1, FS_Surjection
  <1> QED BY <1>2, FS_CardinalityType

\* What a transaction counts is a number: it has written finitely many rows.
LEMMA CountIsNatural ==
    ASSUME IInv, NEW w \in Writers
    PROVE  CampaignCount(w) \in Nat
  <1> DEFINE rows == records \cup writes[w].records
             S == {y \in rows : IsServed(y, rows) /\ y.status = "validated"}
  <1>1. IsFiniteSet(writes[w].records)
    <2>1. CASE writes[w].records = {}
      BY <2>1, FS_EmptySet
    <2>2. ASSUME NEW x \in writes[w].records
          PROVE  IsFiniteSet(writes[w].records)
      <3>1. writes[w].records = {x}
        BY <2>2 DEF IInv, WritesInv
      <3> QED BY <3>1, FS_Singleton
    <2> QED BY <2>1, <2>2, Zenon
  <1>2. IsFiniteSet(rows)
    BY <1>1, FS_Union DEF IInv, RowsInv
  <1>3. IsFiniteSet(S)
    BY <1>2, FS_Subset
  <1>4. Cardinality({x.campaign : x \in S}) \in Nat
    BY <1>3, CampaignsCounted
  <1> QED BY <1>4 DEF CampaignCount

\* Init establishes the invariant.
LEMMA InitIInv == Init => IInv
  <1> SUFFICES ASSUME Init PROVE IInv
    OBVIOUS
  <1> USE DEF Init
  <1>1. TypeOK
    BY StoreAssumption DEF TypeOK, NoWrites
  <1>2. RowsInv /\ LockInv
    BY FS_EmptySet DEF RowsInv, LockInv
  <1>3. \A w \in Writers : WritesInv(w) /\ EventInv(w)
    BY DEF WritesInv, EventInv, NoWrites
  <1>4. HistoryInv /\ VersionChain /\ OneVersionPerObservation /\ FeedTellsHistory
    BY DEF HistoryInv, VersionChain, OneVersionPerObservation, FeedTellsHistory
  <1>5. ReaderInv /\ FeedComplete
    BY DEF ReaderInv, FeedComplete, After
  <1> QED BY <1>1, <1>2, <1>3, <1>4, <1>5 DEF IInv

\* A step of one transaction that commits nothing leaves the committed rows,
\* the readers and what the other transactions have written as they are.
LEMMA StatementIInv ==
    ASSUME IInv, NEW w \in Writers,
           UNCHANGED <<store, reader>>,
           sequence <= sequence',
           \A v \in Writers \ {w} :
              /\ pc'[v] = pc[v] /\ bundle'[v] = bundle[v]
              /\ writes'[v] = writes[v] /\ pending'[v] = pending[v],
           TypeOK', LockInv', WritesInv(w)', EventInv(w)'
    PROVE  IInv'
  <1> USE DEF IInv, store, reader
  <1>1. RowsInv'
    BY DEF RowsInv, TypeOK, Events
  <1>2. ASSUME NEW v \in Writers \ {w}
        PROVE  WritesInv(v)' 
    BY <1>2 DEF WritesInv, Observed, NewObservation, RecordId, IsLatest, VersionsOf,
               IsNext, Before, ChangeOf
  <1>3. ASSUME NEW v \in Writers \ {w}
        PROVE  EventInv(v)'
    BY <1>3 DEF EventInv, TypeOK, Events
  <1>4. (HistoryInv /\ VersionChain /\ OneVersionPerObservation /\ FeedTellsHistory)'
    BY DEF HistoryInv, VersionChain, OneVersionPerObservation, FeedTellsHistory, VersionsOf
  <1>5. (ReaderInv /\ FeedComplete)'
    BY DEF ReaderInv, FeedComplete, After, Page
  <1> QED BY <1>1, <1>2, <1>3, <1>4, <1>5
-----------------------------------------------------------------------------
(* The statements of persist().                                             *)

\* A transaction begins.
LEMMA BeginIInv ==
    ASSUME IInv, NEW w \in Writers, NEW b \in Bundles, Begin(w, b)
    PROVE  IInv'
  <1> USE DEF IInv, Begin, store, reader, locks
  <1>1. TypeOK'
    BY DEF TypeOK
  <1>2. LockInv'
    BY DEF LockInv, TypeOK, Bundles
  <1>3. WritesInv(w)' /\ EventInv(w)'
    BY DEF WritesInv, EventInv, TypeOK, NoWrites
  <1>4. sequence <= sequence'
    BY StoreAssumption DEF TypeOK
  <1> QED BY <1>1, <1>2, <1>3, <1>4, StatementIInv DEF TypeOK

\* The lock of the campaign is taken.
LEMMA LockCampaignIInv ==
    ASSUME IInv, NEW w \in Writers, LockCampaign(w)
    PROVE  IInv'
  <1> USE DEF IInv, LockCampaign, store, reader
  <1>1. TypeOK'
    BY DEF TypeOK
  <1>2. LockInv'
    BY StoreAssumption DEF LockInv, TypeOK, Bundles
  <1>3. WritesInv(w)' /\ EventInv(w)'
    BY DEF WritesInv, EventInv, TypeOK, NoWrites
  <1>4. sequence <= sequence'
    BY StoreAssumption DEF TypeOK
  <1> QED BY <1>1, <1>2, <1>3, <1>4, StatementIInv DEF TypeOK

\* A known observation goes on to the coverage.
LEMMA KnownObservationIInv ==
    ASSUME IInv, NEW w \in Writers, KnownObservation(w)
    PROVE  IInv'
  <1> USE DEF IInv, KnownObservation, store, reader, locks
  <1>1. TypeOK'
    BY DEF TypeOK
  <1>2. LockInv'
    BY StoreAssumption DEF LockInv, TypeOK, Bundles
  <1>3. WritesInv(w)' /\ EventInv(w)'
    BY DEF WritesInv, EventInv, TypeOK, NoWrites
  <1>4. sequence <= sequence'
    BY StoreAssumption DEF TypeOK
  <1> QED BY <1>1, <1>2, <1>3, <1>4, StatementIInv DEF TypeOK

\* The end without a commit drops what was written.
LEMMA EndIInv ==
    ASSUME IInv, NEW w \in Writers, EndTransaction(w), UNCHANGED <<store, sequence, reader>>
    PROVE  IInv'
  <1> USE DEF IInv, EndTransaction, store, reader
  <1>1. TypeOK'
    BY StoreAssumption DEF TypeOK, NoWrites
  <1>2. LockInv'
    BY StoreAssumption DEF LockInv, TypeOK, Bundles
  <1>3. WritesInv(w)' /\ EventInv(w)'
    BY DEF WritesInv, EventInv, TypeOK, NoWrites
  <1>4. sequence <= sequence'
    BY StoreAssumption DEF TypeOK
  <1> QED BY <1>1, <1>2, <1>3, <1>4, StatementIInv DEF TypeOK

\* The row a new observation is mapped to has the type of the table.
LEMMA NewObservationType ==
    ASSUME IInv, NEW w \in Writers, pc[w] = "locked", NEW id \in RecordIds
    PROVE  NewObservation(w, id) \in ObservationRows
  BY DEF IInv, TypeOK, LockInv, Bundles, NewObservation, ObservationRows

\* An observation of the latest version is written.
LEMMA SameAsLatestIInv ==
    ASSUME IInv, NEW w \in Writers, SameAsLatest(w)
    PROVE  IInv'
  <1>0. /\ pc[w] = "locked" /\ pc' = [pc EXCEPT ![w] = "counting"] /\ Observed(w) = {}
        /\ UNCHANGED <<store, sequence, bundle, pending, locks, reader>>
        /\ TypeOK /\ LockInv /\ WritesInv(w)
    BY DEF SameAsLatest, IInv
  <1> DEFINE WriteSet == [records : SUBSET Records, observations : SUBSET ObservationRows,
                          coverage : SUBSET Entries, events : SUBSET Events]
  <1>1. PICK x \in records :
           /\ IsLatest(x, bundle[w].campaign)
           /\ x.record = bundle[w].page.record
           /\ writes' = [writes EXCEPT ![w].observations = {NewObservation(w, x.id)}]
    BY DEF SameAsLatest
  <1>2. x.id \in RecordIds /\ writes[w] = NoWrites /\ pending[w] = {}
    BY <1>0 DEF TypeOK, Records, WritesInv
  <1>3. NewObservation(w, x.id) \in ObservationRows
    BY <1>0, <1>2, NewObservationType
  <1>4. /\ writes \in [Writers -> WriteSet] /\ writes' \in [Writers -> WriteSet]
        /\ writes'[w] = [NoWrites EXCEPT !.observations = {NewObservation(w, x.id)}]
        /\ \A v \in Writers \ {w} : writes'[v] = writes[v]
    <2>1. writes \in [Writers -> WriteSet]
      BY <1>0 DEF TypeOK
    <2> QED BY <1>1, <1>2, <1>3, <2>1
  <1>5. TypeOK'
    BY <1>0, <1>4 DEF TypeOK, store, reader, locks
  <1>6. LockInv'
    BY <1>0, StoreAssumption DEF LockInv, TypeOK, Bundles, locks
  <1>7. bundle[w].page \in Pages /\ x.campaign = bundle[w].campaign
    BY <1>0, <1>1 DEF LockInv, IsLatest, VersionsOf
  <1>8. WritesInv(w)'
    <2>1. writes'[w].records = {} /\ writes'[w].observations = {NewObservation(w, x.id)}
      BY <1>4 DEF NoWrites
    <2>2. pc'[w] = "counting" /\ pending'[w] = {} /\ bundle' = bundle
          /\ records' = records /\ observations' = observations
      BY <1>0, <1>2 DEF TypeOK, store
    <2> QED BY <1>0, <1>1, <1>7, <2>1, <2>2
            DEF WritesInv, Observed, NewObservation, IsLatest, VersionsOf
  <1>9. EventInv(w)'
    BY <1>0, <1>4 DEF EventInv, TypeOK, NoWrites
  <1>10. sequence <= sequence'
    BY <1>0, StoreAssumption DEF TypeOK
  <1> QED BY <1>0, <1>4, <1>5, <1>6, <1>8, <1>9, <1>10, StatementIInv DEF TypeOK

\* A version that is next is written with its observation and its change.
LEMMA WriteVersionIInv ==
    ASSUME IInv, NEW w \in Writers, pc[w] = "locked", Observed(w) = {},
           NEW version \in Nat \ {0}, NEW previous \in SUBSET RecordIds,
           WriteVersion(w, version, previous),
           IsNext(NewRecord(w, version)),
           previous = {y.id : y \in Before(NewRecord(w, version))}
    PROVE  IInv'
  <1> DEFINE x == NewRecord(w, version)
             o == NewObservation(w, RecordId(w))
             c == [campaign |-> bundle[w].campaign, version |-> version,
                   record_id |-> RecordId(w), previous |-> previous]
             WriteSet == [records : SUBSET Records, observations : SUBSET ObservationRows,
                          coverage : SUBSET Entries, events : SUBSET Events]
  <1>0. /\ pc' = [pc EXCEPT ![w] = "counting"]
        /\ UNCHANGED <<store, sequence, bundle, locks, reader>>
        /\ TypeOK /\ LockInv /\ WritesInv(w)
    BY DEF WriteVersion, IInv
  <1>1. bundle[w] \in Bundles /\ bundle[w].page \in Pages
        /\ writes[w] = NoWrites /\ pending[w] = {}
    BY <1>0 DEF TypeOK, LockInv, WritesInv
  <1>2. RecordId(w) \in RecordIds
    BY <1>1 DEF RecordId, RecordIds, Bundles
  <1>3. x \in Records /\ o \in ObservationRows /\ c \in Changes
    BY <1>1, <1>2, NewObservationType DEF NewRecord, Records, Changes, Bundles
  <1>4. /\ writes' \in [Writers -> WriteSet]
        /\ writes'[w] = [NoWrites EXCEPT !.records = {x}, !.observations = {o}]
        /\ \A v \in Writers \ {w} : writes'[v] = writes[v]
    <2>1. writes \in [Writers -> WriteSet]
      BY <1>0 DEF TypeOK
    <2>2. writes' = [writes EXCEPT ![w].records = {x}, ![w].observations = {o}]
      BY DEF WriteVersion
    <2> HIDE DEF x, o
    <2>3. writes' = [writes EXCEPT ![w] = [writes[w] EXCEPT !.records = {x}, !.observations = {o}]]
      BY <2>1, <2>2
    <2> QED BY <1>1, <1>3, <2>1, <2>3
  <1>5. /\ pending' \in [Writers -> SUBSET Changes]
        /\ pending'[w] = {c}
        /\ \A v \in Writers \ {w} : pending'[v] = pending[v]
    BY <1>0, <1>3 DEF TypeOK, WriteVersion
  <1>6. TypeOK'
    BY <1>0, <1>4, <1>5 DEF TypeOK, store, locks, reader
  <1>7. LockInv'
    BY <1>0, <1>5, StoreAssumption DEF LockInv, TypeOK, Bundles, locks
  <1>8. /\ c = ChangeOf(x) /\ x.id = RecordId(w) /\ x.campaign = bundle[w].campaign
        /\ x.record = bundle[w].page.record
    BY DEF ChangeOf, NewRecord
  <1>9. WritesInv(w)'
    <2>1. writes'[w].records = {x} /\ writes'[w].observations = {o}
      BY <1>4 DEF NoWrites
    <2>2. pc'[w] = "counting" /\ bundle' = bundle
          /\ records' = records /\ observations' = observations
      BY <1>0 DEF TypeOK, store
    <2>3. RecordId(w)' = RecordId(w) /\ Observed(w)' = Observed(w)
      BY <2>2 DEF RecordId, Observed
    <2>4. o.record_id = RecordId(w) /\ o.campaign = x.campaign /\ o.record = x.record
      BY DEF NewObservation, NewRecord
    <2>5. NewObservation(w, RecordId(w))' = o
      BY <2>2, <2>3 DEF NewObservation
    <2>6. \A y : IsNext(y)' = IsNext(y) /\ ChangeOf(y)' = ChangeOf(y)
      BY <2>2 DEF IsNext, ChangeOf, Before, VersionsOf
    <2>7. IsNext(x) /\ Observed(w) = {}
      OBVIOUS
    <2> HIDE DEF x, o, c
    <2> QED BY <1>1, <1>5, <1>8, <2>1, <2>2, <2>3, <2>4, <2>5, <2>6, <2>7 DEF WritesInv
  <1>10. EventInv(w)'
    BY <1>0, <1>4 DEF EventInv, TypeOK, NoWrites
  <1>11. sequence <= sequence'
    BY <1>0, StoreAssumption DEF TypeOK
  <1> QED BY <1>0, <1>4, <1>5, <1>6, <1>7, <1>9, <1>10, <1>11, StatementIInv DEF TypeOK

\* The first version of a campaign.
LEMMA FirstVersionIInv ==
    ASSUME IInv, NEW w \in Writers, FirstVersion(w)
    PROVE  IInv'
  <1> DEFINE x == NewRecord(w, 1)
  <1>1. pc[w] = "locked" /\ Observed(w) = {} /\ WriteVersion(w, 1, {})
        /\ VersionsOf(x.campaign) = {} /\ x.version = 1
    BY DEF FirstVersion, NewRecord
  <1>2. IsNext(x) /\ {} = {y.id : y \in Before(x)}
    BY <1>1 DEF IsNext, Before
  <1> HIDE DEF x
  <1> QED BY <1>1, <1>2, WriteVersionIInv DEF x

\* A version after the latest one.
LEMMA NextVersionIInv ==
    ASSUME IInv, NEW w \in Writers, NextVersion(w)
    PROVE  IInv'
  <1>1. PICK y \in records : /\ IsLatest(y, bundle[w].campaign)
                             /\ y.record # bundle[w].page.record
                             /\ WriteVersion(w, y.version + 1, {y.id})
    BY DEF NextVersion
  <1>2. pc[w] = "locked" /\ Observed(w) = {}
    BY DEF NextVersion
  <1>3. records \subseteq Records /\ VersionChain
    BY DEF IInv, TypeOK
  <1>4. y.version \in Nat \ {0} /\ y.id \in RecordIds
        /\ \A z \in records : z.version \in Nat
    BY <1>3 DEF Records
  <1> DEFINE x == NewRecord(w, y.version + 1)
  <1>5. /\ x.campaign = bundle[w].campaign /\ x.version = y.version + 1
        /\ x.record = bundle[w].page.record
    BY DEF NewRecord
  <1> HIDE DEF x
  <1>6. \A z \in VersionsOf(x.campaign) : z \in records /\ z.campaign = y.campaign
                                          /\ z.version <= y.version
    BY <1>1, <1>5 DEF IsLatest, VersionsOf
  <1>7. y \in VersionsOf(x.campaign)
    BY <1>1, <1>5 DEF IsLatest
  <1>8. \A z \in Before(x) : z = y
    <2> SUFFICES ASSUME NEW z \in Before(x) PROVE z = y
      OBVIOUS
    <2>1. z \in records /\ z.campaign = y.campaign /\ z.version = y.version
      BY <1>4, <1>5, <1>6 DEF Before
    <2> QED BY <1>3, <2>1 DEF VersionChain
  <1>9. Before(x) = {y}
    BY <1>4, <1>5, <1>7, <1>8 DEF Before
  <1>10. IsNext(x)
    BY <1>1, <1>4, <1>5, <1>6, <1>9 DEF IsNext
  <1>11. {y.id} = {z.id : z \in Before(x)}
    BY <1>9
  <1> QED BY <1>1, <1>2, <1>4, <1>10, <1>11, WriteVersionIInv DEF x

\* The coverage is counted.
LEMMA CountCoverageIInv ==
    ASSUME IInv, NEW w \in Writers, CountCoverage(w)
    PROVE  IInv'
  <1> DEFINE entry == [observed_at |-> bundle[w].observed_at, campaign_count |-> CampaignCount(w)]
             WriteSet == [records : SUBSET Records, observations : SUBSET ObservationRows,
                          coverage : SUBSET Entries, events : SUBSET Events]
  <1>0. /\ TypeOK /\ LockInv /\ WritesInv(w) /\ EventInv(w)
        /\ pc[w] = "counting"
        /\ pc' = [pc EXCEPT ![w] = IF pending[w] = {} THEN "committing" ELSE "publishing"]
        /\ writes' = [writes EXCEPT ![w].coverage = {entry}]
        /\ UNCHANGED <<store, sequence, bundle, pending, locks, reader>>
    BY DEF CountCoverage, IInv
  <1>1. entry \in Entries
    BY <1>0, CountIsNatural DEF TypeOK, Bundles, Entries
  <1> HIDE DEF entry
  <1>2. /\ writes' \in [Writers -> WriteSet]
        /\ writes'[w] = [writes[w] EXCEPT !.coverage = {entry}]
        /\ \A v \in Writers \ {w} : writes'[v] = writes[v]
        /\ writes[w] \in WriteSet
    <2>1. writes \in [Writers -> WriteSet]
      BY <1>0 DEF TypeOK
    <2> QED BY <1>0, <1>1, <2>1
  <1>3. TypeOK'
    BY <1>0, <1>2 DEF TypeOK, store, locks, reader
  <1>4. LockInv'
    BY <1>0, StoreAssumption DEF LockInv, TypeOK, Bundles, locks
  <1>5. /\ writes'[w].records = writes[w].records /\ writes'[w].events = writes[w].events
        /\ writes'[w].observations = writes[w].observations
    BY <1>2
  <1>6. pc'[w] \in {"committing", "publishing"} /\ (pc'[w] = "committing" => pending[w] = {})
    BY <1>0 DEF TypeOK
  <1>7. WritesInv(w)'
    BY <1>0, <1>5, <1>6 DEF WritesInv, Observed, NewObservation, RecordId, IsLatest, VersionsOf,
                           IsNext, Before, ChangeOf, store
  <1>8. EventInv(w)'
    BY <1>0, <1>5, <1>6 DEF EventInv
  <1>9. sequence <= sequence'
    BY <1>0, StoreAssumption DEF TypeOK
  <1> QED BY <1>0, <1>2, <1>3, <1>4, <1>7, <1>8, <1>9, StatementIInv DEF TypeOK

\* The lock of the feed is taken.
LEMMA LockFeedIInv ==
    ASSUME IInv, NEW w \in Writers, LockFeed(w)
    PROVE  IInv'
  <1>0. /\ TypeOK /\ LockInv /\ WritesInv(w) /\ EventInv(w)
    BY DEF IInv
  <1>1. TypeOK'
    BY <1>0 DEF LockFeed, TypeOK, store, reader
  <1>2. LockInv'
    BY <1>0, StoreAssumption DEF LockFeed, LockInv, TypeOK
  <1>3. WritesInv(w)'
    BY <1>0 DEF LockFeed, TypeOK, store, WritesInv, Observed, NewObservation, RecordId, IsLatest,
                VersionsOf, IsNext, Before, ChangeOf
  <1>4. EventInv(w)'
    BY <1>0 DEF LockFeed, EventInv, TypeOK
  <1>5. sequence <= sequence'
    BY <1>0, StoreAssumption DEF LockFeed, TypeOK
  <1> QED BY <1>0, <1>1, <1>2, <1>3, <1>4, <1>5, StatementIInv DEF LockFeed, TypeOK

\* A transaction has one change to publish at most.
LEMMA OneChange ==
    ASSUME IInv, NEW w \in Writers
    PROVE  \A c, d \in pending[w] : c = d
  <1>1. WritesInv(w)
    BY DEF IInv
  <1>2. CASE writes[w].records = {}
    BY <1>1, <1>2 DEF WritesInv
  <1>3. CASE writes[w].records # {}
    BY <1>1, <1>3 DEF WritesInv
  <1> QED BY <1>2, <1>3

\* The event is inserted at the next position.
LEMMA AddEventIInv ==
    ASSUME IInv, NEW w \in Writers, AddEvent(w)
    PROVE  IInv'
  <1> DEFINE new == {[seq |-> sequence + 1, change |-> c] : c \in pending[w]}
             WriteSet == [records : SUBSET Records, observations : SUBSET ObservationRows,
                          coverage : SUBSET Entries, events : SUBSET Events]
  <1>0. /\ TypeOK /\ LockInv /\ WritesInv(w) /\ EventInv(w) /\ RowsInv
        /\ pc[w] = "allocating" /\ sequence < MaxSequence /\ sequence' = sequence + 1
        /\ pc' = [pc EXCEPT ![w] = "committing"]
        /\ writes' = [writes EXCEPT ![w].events = new]
        /\ UNCHANGED <<store, bundle, pending, locks, reader>>
    BY DEF AddEvent, IInv
  <1>1. sequence \in Nat /\ sequence' \in 0..MaxSequence
    BY <1>0, StoreAssumption DEF TypeOK
  <1>2. new \in SUBSET Events
    BY <1>0, <1>1 DEF TypeOK, Events
  <1>3. \A e, f \in new : e = f
    BY OneChange
  <1>4. \A e \in new : e.change \in pending[w] /\ e.seq = sequence + 1
    OBVIOUS
  <1>5. ASSUME NEW c \in pending[w]
        PROVE  \E e \in new : e.change = c
    <2>1. [seq |-> sequence + 1, change |-> c] \in new
      OBVIOUS
    <2> QED BY <2>1
  <1> HIDE DEF new
  <1>6. /\ writes' \in [Writers -> WriteSet]
        /\ writes'[w] = [writes[w] EXCEPT !.events = new]
        /\ \A v \in Writers \ {w} : writes'[v] = writes[v]
        /\ writes[w] \in WriteSet
    <2>1. writes \in [Writers -> WriteSet]
      BY <1>0 DEF TypeOK
    <2> QED BY <1>0, <1>2, <2>1
  <1>7. TypeOK'
    BY <1>0, <1>1, <1>6 DEF TypeOK, store, locks, reader
  <1>8. LockInv'
    BY <1>0, StoreAssumption DEF LockInv, TypeOK, Bundles, locks
  <1>9. /\ writes'[w].records = writes[w].records /\ writes'[w].events = new
        /\ writes'[w].observations = writes[w].observations
    BY <1>6
  <1>10. pc'[w] = "committing"
    BY <1>0 DEF TypeOK
  <1>11. WritesInv(w)'
    BY <1>0, <1>9, <1>10 DEF WritesInv, Observed, NewObservation, RecordId, IsLatest, VersionsOf,
                           IsNext, Before, ChangeOf, store
  <1>12. \A e \in new : e.seq <= sequence' /\ \A f \in events' : f.seq < e.seq
    BY <1>0, <1>1, <1>4 DEF RowsInv, TypeOK, Events, store
  <1>13. EventInv(w)'
    BY <1>0, <1>3, <1>4, <1>5, <1>9, <1>10, <1>12 DEF EventInv
  <1>14. sequence <= sequence'
    BY <1>0, <1>1
  <1> QED BY <1>0, <1>6, <1>7, <1>8, <1>11, <1>13, <1>14, StatementIInv DEF TypeOK

-----------------------------------------------------------------------------
(* The commit.                                                              *)

\* A new version comes with its observation and its event; without one there
\* is no event.
LEMMA WrittenTogether ==
    ASSUME IInv, NEW w \in Writers, pc[w] = "committing"
    PROVE  /\ writes[w].records = {} => writes[w].events = {}
           /\ \A x \in writes[w].records :
                 /\ writes[w].records = {x}
                 /\ \E e \in writes[w].events :
                       /\ writes[w].events = {e}
                       /\ e.change = ChangeOf(x)
                       /\ \A f \in events : f.seq < e.seq
                 /\ \E o \in writes[w].observations :
                       o.campaign = x.campaign /\ o.observation = x.id[2]
                 /\ x.id = <<x.campaign, x.id[2], x.record>>
                 /\ \A y \in records :
                       y.id # x.id /\ ~(y.campaign = x.campaign /\ y.id[2] = x.id[2])
                 /\ IsNext(x)
  <1>0. WritesInv(w) /\ EventInv(w) /\ HistoryInv
    BY DEF IInv
  <1>1. writes[w].records = {} => writes[w].events = {}
    BY <1>0 DEF WritesInv, EventInv
  <1>2. ASSUME NEW x \in writes[w].records
        PROVE  \E e \in writes[w].events :
                  /\ writes[w].events = {e}
                  /\ e.change = ChangeOf(x)
                  /\ \A f \in events : f.seq < e.seq
    <2>1. ChangeOf(x) \in pending[w]
      BY <1>0 DEF WritesInv
    <2>2. PICK e \in writes[w].events : e.change = ChangeOf(x)
      BY <1>0, <2>1 DEF EventInv
    <2> QED BY <1>0, <2>2 DEF EventInv
  <1>3. ASSUME NEW x \in writes[w].records
        PROVE  /\ \E o \in writes[w].observations :
                     o.campaign = x.campaign /\ o.observation = x.id[2]
               /\ x.id = <<x.campaign, x.id[2], x.record>>
    <2>1. PICK o \in writes[w].observations : TRUE
      BY <1>0 DEF WritesInv
    <2>2. o.campaign = bundle[w].campaign /\ o.observation = bundle[w].observation
      BY <1>0 DEF WritesInv, NewObservation
    <2> QED BY <1>0, <2>2 DEF WritesInv, RecordId
  <1>4. ASSUME NEW x \in writes[w].records, NEW y \in records
        PROVE  y.id # x.id /\ ~(y.campaign = x.campaign /\ y.id[2] = x.id[2])
    <2>1. Observed(w) = {} /\ x.campaign = bundle[w].campaign
          /\ x.id[2] = bundle[w].observation
      BY <1>0 DEF WritesInv, RecordId
    <2>2. ~(y.campaign = x.campaign /\ y.id[2] = x.id[2])
      BY <1>0, <2>1 DEF HistoryInv, Observed
    <2>3. y.id[1] = y.campaign /\ x.id[1] = x.campaign
      BY <1>0, <1>3 DEF HistoryInv
    <2> QED BY <2>2, <2>3
  <1> QED BY <1>0, <1>1, <1>2, <1>3, <1>4 DEF WritesInv

\* What another transaction has written holds after a commit too: the two
\* have different campaigns, or one of them adds nothing to the other's.
LEMMA CommitKeepsWrites ==
    ASSUME IInv, NEW w \in Writers, Commit(w), NEW v \in Writers \ {w}
    PROVE  WritesInv(v)' /\ EventInv(v)'
  <1>0. /\ TypeOK /\ LockInv /\ WritesInv(w) /\ EventInv(w) /\ WritesInv(v) /\ EventInv(v)
        /\ pc[w] = "committing"
        /\ records' = records \cup writes[w].records
        /\ observations' = observations \cup writes[w].observations
        /\ events' = events \cup writes[w].events
        /\ pc'[v] = pc[v] /\ bundle'[v] = bundle[v] /\ writes'[v] = writes[v]
        /\ pending'[v] = pending[v] /\ sequence' = sequence
    BY DEF Commit, EndTransaction, IInv, TypeOK
  <1>1. CASE writes[v].observations = {}
    <2>1. writes[v].records = {} /\ pending[v] = {}
      BY <1>0, <1>1 DEF WritesInv
    <2>2. writes[v].events = {}
      BY <1>0, <2>1 DEF EventInv
    <2>3. WritesInv(v)'
      BY <1>0, <1>1, <2>1 DEF WritesInv
    <2>4. EventInv(v)'
      BY <1>0, <2>1, <2>2 DEF EventInv
    <2> QED BY <2>3, <2>4
  <1>2. CASE writes[v].observations # {}
    <2>1. campaignLock[bundle[v].campaign] = v
      <3>1. pc[v] \notin {"idle", "verified", "locked"} /\ bundle[v].page \in Pages
        BY <1>0, <1>2 DEF WritesInv, NoWrites
      <3> QED BY <1>0, <3>1, StoreAssumption DEF LockInv
    <2>2. /\ \A x \in writes[w].records : x.campaign # bundle[v].campaign
          /\ \A o \in writes[w].observations : o.campaign # bundle[v].campaign
      <3>1. CASE writes[w].observations = {}
        BY <1>0, <3>1 DEF WritesInv
      <3>2. CASE writes[w].observations # {}
        <4>1. bundle[w].page \in Pages
          BY <1>0, <3>2 DEF WritesInv
        <4>2. campaignLock[bundle[w].campaign] = w
          BY <1>0, <4>1, StoreAssumption DEF LockInv
        <4>3. bundle[w].campaign # bundle[v].campaign
          BY <2>1, <4>2
        <4>4. \A o \in writes[w].observations : o.campaign = bundle[w].campaign
          BY <1>0 DEF WritesInv, NewObservation
        <4> QED BY <1>0, <4>3, <4>4 DEF WritesInv
      <3> QED BY <3>1, <3>2
    <2>3. Observed(v)' = Observed(v)
      BY <1>0, <2>2 DEF Observed
    <2>4. VersionsOf(bundle[v].campaign)' = VersionsOf(bundle[v].campaign)
      BY <1>0, <2>2 DEF VersionsOf
    <2>5. \A x : x.campaign = bundle[v].campaign =>
              IsNext(x)' = IsNext(x) /\ ChangeOf(x)' = ChangeOf(x)
      BY <1>0, <2>4 DEF IsNext, ChangeOf, Before
    <2>6. \A x : IsLatest(x, bundle[v].campaign)' = IsLatest(x, bundle[v].campaign)
      BY <1>0, <2>4 DEF IsLatest
    <2>7. RecordId(v)' = RecordId(v)
          /\ \A id : NewObservation(v, id)' = NewObservation(v, id)
      BY <1>0 DEF RecordId, NewObservation
    <2>8. \A o \in writes[v].observations : o.campaign = bundle[v].campaign
      BY <1>0 DEF WritesInv, NewObservation
    <2>9. WritesInv(v)'
      <3>1. \A x \in writes[v].records : x.campaign = bundle[v].campaign
        BY <1>0 DEF WritesInv
      <3>2. ASSUME NEW o \in writes[v].observations
            PROVE  \E x \in records' \cup writes'[v].records :
                      /\ x.id = o.record_id /\ x.campaign = o.campaign /\ x.record = o.record
                      /\ \/ x \in writes'[v].records
                         \/ IsLatest(x, o.campaign)' /\ writes'[v].records = {}
        <4>1. PICK x \in records \cup writes[v].records :
                      /\ x.id = o.record_id /\ x.campaign = o.campaign /\ x.record = o.record
                      /\ \/ x \in writes[v].records
                         \/ IsLatest(x, o.campaign) /\ writes[v].records = {}
          BY <1>0 DEF WritesInv
        <4>2. IsLatest(x, o.campaign)' = IsLatest(x, o.campaign)
          BY <2>6, <2>8, <1>0 DEF IsLatest, VersionsOf
        <4> QED BY <1>0, <4>1, <4>2
      <3> QED BY <1>0, <2>3, <2>5, <2>7, <3>1, <3>2 DEF WritesInv
    <2>10. EventInv(v)'
      <3>1. CASE writes[v].events = {}
        BY <1>0, <3>1 DEF EventInv
      <3>2. CASE writes[v].events # {}
        <4>1. pc[v] = "committing" /\ pending[v] # {}
          BY <1>0, <3>2 DEF EventInv
        <4>2. feedLock = v
          BY <1>0, <4>1 DEF LockInv
        <4>3. pending[w] = {}
          BY <1>0, <4>2 DEF LockInv
        <4>4. writes[w].events = {}
          BY <1>0, <4>3 DEF EventInv
        <4> QED BY <1>0, <4>4 DEF EventInv
      <3> QED BY <3>1, <3>2
    <2> QED BY <2>9, <2>10
  <1> QED BY <1>1, <1>2

\* The history stays whole.
LEMMA CommitKeepsHistory ==
    ASSUME IInv, NEW w \in Writers, Commit(w)
    PROVE  (HistoryInv /\ VersionChain /\ OneVersionPerObservation /\ FeedTellsHistory)'
  <1>0. /\ TypeOK /\ RowsInv /\ HistoryInv /\ VersionChain /\ OneVersionPerObservation
        /\ FeedTellsHistory
        /\ pc[w] = "committing"
        /\ records' = records \cup writes[w].records
        /\ observations' = observations \cup writes[w].observations
        /\ events' = events \cup writes[w].events
    BY DEF Commit, IInv
  <1>1. CASE writes[w].records = {}
    <2>1. records' = records /\ events' = events
      BY <1>0, <1>1, WrittenTogether
    <2>2. HistoryInv'
      BY <1>0, <2>1 DEF HistoryInv
    <2>3. (VersionChain /\ OneVersionPerObservation)'
      BY <1>0, <2>1 DEF VersionChain, OneVersionPerObservation
    <2>4. FeedTellsHistory'
      BY <1>0, <2>1 DEF FeedTellsHistory, VersionsOf
    <2> QED BY <2>2, <2>3, <2>4
  <1>2. ASSUME NEW x \in writes[w].records
        PROVE  (HistoryInv /\ VersionChain /\ OneVersionPerObservation /\ FeedTellsHistory)'
    <2>1. PICK e \in writes[w].events : /\ writes[w].events = {e}
                                        /\ e.change = ChangeOf(x)
                                        /\ \A f \in events : f.seq < e.seq
      BY <1>0, WrittenTogether
    <2>2. /\ records' = records \cup {x} /\ events' = events \cup {e}
          /\ IsNext(x)
          /\ x.id = <<x.campaign, x.id[2], x.record>>
      BY <1>0, <2>1, WrittenTogether
    <2>3. \A y \in records : y.id # x.id /\ ~(y.campaign = x.campaign /\ y.id[2] = x.id[2])
      BY <1>0, WrittenTogether
    <2>4. \A y \in records : y.campaign = x.campaign => y.version < x.version
      BY <2>2 DEF IsNext, VersionsOf
    <2>5. \A y \in records' : y.version \in Nat \ {0}
      BY <1>0, <2>2 DEF TypeOK, Records
    <2>6. /\ e.change.campaign = x.campaign /\ e.change.version = x.version
          /\ e.change.record_id = x.id /\ e.change.previous = {y.id : y \in Before(x)}
      BY <2>1 DEF ChangeOf
    <2>7. \A f \in events : \E y \in records :
              /\ y.id = f.change.record_id /\ y.campaign = f.change.campaign
              /\ y.version = f.change.version
      BY <1>0 DEF HistoryInv, FeedTellsHistory
    <2>8. \A y \in records' : Before(y)' = Before(y)
      <3>1. \A y \in records' : x.campaign = y.campaign => x.version # y.version - 1
        BY <2>2, <2>4, <2>5
      <3> QED BY <2>2, <3>1 DEF Before, VersionsOf
    <2>9. HistoryInv'
      <3>1. \E o \in observations' : o.campaign = x.campaign /\ o.observation = x.id[2]
        BY <1>0, WrittenTogether
      <3> QED BY <1>0, <2>2, <2>6, <3>1 DEF HistoryInv
    <2>10. VersionChain'
      <3>1. \A y, z \in records' :
               y = z \/ (y.id # z.id /\ <<y.campaign, y.version>> # <<z.campaign, z.version>>)
        BY <1>0, <2>2, <2>3, <2>4, <2>5 DEF VersionChain
      <3>2. \A y \in records' : y.version > 1 =>
               \E z \in records' : /\ z.campaign = y.campaign
                                   /\ z.version = y.version - 1
                                   /\ z.record # y.record
        BY <1>0, <2>2 DEF VersionChain, IsNext, Before, VersionsOf
      <3> QED BY <3>1, <3>2 DEF VersionChain
    <2>11. OneVersionPerObservation'
      BY <1>0, <2>2, <2>3 DEF OneVersionPerObservation
    <2>12. FeedTellsHistory'
      <3>1. {y.id : y \in records'} = {f.change.record_id : f \in events'}
        <4>1. {y.id : y \in records} = {f.change.record_id : f \in events}
          BY <1>0 DEF FeedTellsHistory
        <4>2. {y.id : y \in records'} = {y.id : y \in records} \cup {x.id}
          BY <2>2
        <4>3. {f.change.record_id : f \in events'}
                 = {f.change.record_id : f \in events} \cup {x.id}
          BY <2>2, <2>6
        <4> QED BY <4>1, <4>2, <4>3
      <3>2. ASSUME NEW y \in records', NEW f \in events', f.change.record_id = y.id
            PROVE  /\ f.change.version = y.version
                   /\ f.change.previous = {z.id : z \in Before(y)'}
        <4>1. CASE y \in records /\ f \in events
          BY <1>0, <2>8, <3>2, <4>1 DEF FeedTellsHistory, Before
        <4>2. CASE y = x /\ f \in events
          BY <2>3, <2>7, <3>2, <4>2
        <4>3. CASE y \in records /\ f = e
          BY <2>3, <2>6, <3>2, <4>3
        <4>4. CASE y = x /\ f = e
          BY <2>2, <2>6, <2>8, <4>4
        <4> QED BY <2>2, <4>1, <4>2, <4>3, <4>4
      <3>3. ASSUME NEW f \in events', NEW g \in events',
                   f.change.campaign = g.change.campaign, f.change.version < g.change.version
            PROVE  f.seq < g.seq
        <4>1. CASE f \in events /\ g \in events
          BY <1>0, <3>3, <4>1 DEF FeedTellsHistory
        <4>2. CASE f \in events /\ g = e
          BY <2>1, <4>2
        <4>3. CASE f = e /\ g \in events
          <5>1. PICK y \in records : y.campaign = g.change.campaign /\ y.version = g.change.version
            BY <2>7, <4>3
          <5>2. y.version < x.version /\ x.version < y.version
            BY <2>4, <2>6, <3>3, <4>3, <5>1
          <5> QED BY <2>2, <2>5, <5>2
        <4>4. CASE f = e /\ g = e
          BY <2>2, <2>5, <2>6, <3>3, <4>4
        <4> QED BY <2>2, <4>1, <4>2, <4>3, <4>4
      <3> QED BY <3>1, <3>2, <3>3 DEF FeedTellsHistory, Before
    <2> QED BY <2>9, <2>10, <2>11, <2>12
  <1> QED BY <1>1, <1>2

\* A reader finds the new event behind everything it has shown.
LEMMA CommitKeepsReaders ==
    ASSUME IInv, NEW w \in Writers, Commit(w)
    PROVE  (ReaderInv /\ FeedComplete)'
  <1>0. /\ TypeOK /\ ReaderInv /\ FeedComplete /\ EventInv(w)
        /\ events' = events \cup writes[w].events
        /\ cursor' = cursor /\ processed' = processed
    BY DEF Commit, IInv, reader
  <1>1. \A e \in writes[w].events : \A f \in events : f.seq < e.seq
    BY <1>0 DEF EventInv
  <1>2. \A e \in events' : e.seq \in Nat \ {0}
    BY <1>0 DEF TypeOK, Events
  <1> SUFFICES ASSUME NEW r \in Readers
               PROVE  /\ processed'[r] \subseteq events'
                      /\ cursor'[r] = 0 \/ \E e \in processed'[r] : e.seq = cursor'[r]
                      /\ processed'[r] \cap After(r)' \subseteq Page(r)'
                      /\ \A e \in events' :
                            \/ e \in processed'[r]
                            \/ /\ e.seq > cursor'[r]
                               /\ \A f \in processed'[r] : f.seq < e.seq
    BY DEF ReaderInv, FeedComplete
  <1>3. processed[r] \subseteq events /\ cursor[r] \in Nat
    BY <1>0, StoreAssumption DEF ReaderInv, TypeOK
  <1>4. ASSUME NEW f \in processed[r] \cap After(r)'
        PROVE  f \in Page(r)'
    <2>1. f \in events /\ f \in After(r) /\ f \in Page(r)
      BY <1>0, <1>3 DEF ReaderInv, After
    <2>2. {g \in After(r)' : g.seq < f.seq} = {g \in After(r) : g.seq < f.seq}
      BY <1>0, <1>1, <1>2, <2>1 DEF After
    <2> QED BY <2>1, <2>2 DEF Page
  <1>5. ASSUME NEW e \in writes[w].events
        PROVE  e.seq > cursor[r] /\ \A f \in processed[r] : f.seq < e.seq
    BY <1>0, <1>1, <1>2, <1>3 DEF ReaderInv
  <1> QED BY <1>0, <1>3, <1>4, <1>5 DEF ReaderInv, FeedComplete

\* A transaction commits.
LEMMA CommitIInv ==
    ASSUME IInv, NEW w \in Writers, Commit(w)
    PROVE  IInv'
  <1>0. TypeOK /\ RowsInv /\ LockInv /\ WritesInv(w) /\ EventInv(w)
    BY DEF IInv
  <1>1. TypeOK'
    BY <1>0, StoreAssumption DEF Commit, EndTransaction, TypeOK, NoWrites, reader
  <1>2. RowsInv'
    <2>1. IsFiniteSet(writes[w].records)
      <3>1. ASSUME NEW x \in writes[w].records PROVE writes[w].records = {x}
        BY <1>0 DEF WritesInv
      <3> QED BY <3>1, FS_EmptySet, FS_Singleton, Zenon
    <2>2. IsFiniteSet(writes[w].events)
      <3>1. ASSUME NEW e \in writes[w].events PROVE writes[w].events = {e}
        BY <1>0 DEF EventInv
      <3> QED BY <3>1, FS_EmptySet, FS_Singleton, Zenon
    <2>3. IsFiniteSet(records') /\ IsFiniteSet(events')
      BY <1>0, <2>1, <2>2, FS_Union DEF Commit, RowsInv
    <2>4. \A e \in events' : e.seq <= sequence'
      BY <1>0 DEF Commit, RowsInv, EventInv
    <2> QED BY <2>3, <2>4 DEF RowsInv
  <1>3. LockInv'
    BY <1>0, StoreAssumption DEF Commit, EndTransaction, LockInv, TypeOK, Bundles
  <1>4. WritesInv(w)' /\ EventInv(w)'
    BY <1>0 DEF Commit, EndTransaction, TypeOK, WritesInv, EventInv, NoWrites
  <1>5. \A v \in Writers : WritesInv(v)' /\ EventInv(v)'
    BY <1>4, CommitKeepsWrites
  <1> QED BY <1>1, <1>2, <1>3, <1>5, CommitKeepsHistory, CommitKeepsReaders DEF IInv

-----------------------------------------------------------------------------
(* The readers.                                                             *)

\* A page is a prefix of what is behind the cursor.
LEMMA PageIsPrefix ==
    ASSUME IInv, NEW r \in Readers, NEW e \in Page(r), NEW f \in After(r) \ Page(r)
    PROVE  e.seq < f.seq
  <1> DEFINE Ahead(x) == {g \in After(r) : g.seq < x.seq}
  <1>1. IsFiniteSet(After(r))
    BY FS_Subset DEF IInv, RowsInv, After
  <1>2. \A g \in After(r) : g.seq \in Nat
    BY DEF IInv, TypeOK, Events, After
  <1>3. IsFiniteSet(Ahead(e)) /\ IsFiniteSet(Ahead(f))
    BY <1>1, FS_Subset
  <1>4. Cardinality(Ahead(e)) \in Nat /\ Cardinality(Ahead(f)) \in Nat
    BY <1>3, FS_CardinalityType
  <1>5. Cardinality(Ahead(e)) < PageSize /\ ~(Cardinality(Ahead(f)) < PageSize)
    BY DEF Page
  <1>6. e \in After(r)
    BY DEF Page
  <1>7. ASSUME f.seq <= e.seq PROVE FALSE
    <2>1. Ahead(f) \in SUBSET Ahead(e)
      BY <1>2, <1>6, <1>7
    <2>2. Cardinality(Ahead(f)) <= Cardinality(Ahead(e))
      BY <1>3, <2>1, FS_Subset
    <2> QED BY <1>4, <1>5, <2>2, StoreAssumption
  <1> QED BY <1>2, <1>6, <1>7

\* A reader shows a page.
LEMMA PollIInv ==
    ASSUME IInv, NEW r \in Readers, Poll(r)
    PROVE  IInv'
  <1>0. /\ TypeOK /\ RowsInv /\ ReaderInv /\ FeedComplete
        /\ processed' = [processed EXCEPT ![r] = @ \cup Page(r)]
        /\ UNCHANGED <<store, sequence, txn, locks>>
    BY DEF Poll, IInv
  <1>1. /\ Page(r) \subseteq After(r) /\ After(r) \subseteq events
        /\ processed[r] \subseteq events /\ cursor[r] \in 0..MaxSequence
        /\ \A e \in events : e.seq \in Nat \ {0} /\ e.seq <= MaxSequence
    BY <1>0, StoreAssumption DEF Page, After, ReaderInv, TypeOK, RowsInv, Events
  <1>2. events' = events /\ processed'[r] = processed[r] \cup Page(r)
        /\ \A q \in Readers \ {r} : processed'[q] = processed[q]
    BY <1>0 DEF TypeOK, store
  <1>3. cursor' \in [Readers -> 0..MaxSequence] /\ \A q \in Readers \ {r} : cursor'[q] = cursor[q]
    BY <1>0, <1>1, StoreAssumption DEF Poll, TypeOK
  <1>4. TypeOK'
    BY <1>0, <1>1, <1>3 DEF TypeOK, store, txn, locks
  <1>5. RowsInv' /\ LockInv' /\ (\A w \in Writers : WritesInv(w)' /\ EventInv(w)')
    BY <1>0 DEF IInv, RowsInv, LockInv, WritesInv, EventInv, Observed, NewObservation, RecordId,
                IsLatest, VersionsOf, IsNext, Before, ChangeOf, store, txn, locks
  <1>6. (HistoryInv /\ VersionChain /\ OneVersionPerObservation /\ FeedTellsHistory)'
    BY <1>0 DEF IInv, HistoryInv, VersionChain, OneVersionPerObservation, FeedTellsHistory,
                VersionsOf, store
  <1>7. ASSUME NEW q \in Readers
        PROVE  /\ processed'[q] \subseteq events'
               /\ cursor'[q] = 0 \/ \E e \in processed'[q] : e.seq = cursor'[q]
               /\ processed'[q] \cap After(q)' \subseteq Page(q)'
               /\ \A e \in events' :
                     \/ e \in processed'[q]
                     \/ /\ e.seq > cursor'[q]
                        /\ \A f \in processed'[q] : f.seq < e.seq
    <2>1. CASE q # r
      <3>1. processed'[q] = processed[q] /\ After(q)' = After(q) /\ Page(q)' = Page(q)
            /\ cursor'[q] = cursor[q]
        BY <1>2, <1>3, <2>1 DEF After, Page
      <3> QED BY <1>0, <1>2, <3>1 DEF ReaderInv, FeedComplete
    <2>2. CASE q = r /\ Page(r) = After(r)
      <3>1. cursor'[r] = cursor[r] /\ After(r)' = After(r) /\ Page(r)' = Page(r)
        BY <1>2, <2>2 DEF Poll, After, Page
      <3> QED BY <1>0, <1>1, <1>2, <2>2, <3>1 DEF ReaderInv, FeedComplete, After
    <2>3. CASE q = r /\ Page(r) # After(r)
      <3>1. PICK last \in Page(r) : /\ \A e \in Page(r) : e.seq <= last.seq
                                    /\ cursor' = [cursor EXCEPT ![r] = last.seq]
        BY <2>3 DEF Poll
      <3>2. cursor'[r] = last.seq /\ last.seq > cursor[r]
        BY <1>0, <3>1 DEF TypeOK, Page, After
      <3>3. ASSUME NEW f \in processed'[r], f.seq > last.seq
            PROVE  FALSE
        <4>1. f \in processed[r]
          BY <1>1, <1>2, <3>1, <3>3
        <4>2. f \in After(r)
          BY <1>1, <3>2, <3>3, <4>1 DEF After
        <4>3. f \in Page(r)
          BY <1>0, <4>1, <4>2 DEF ReaderInv
        <4> QED BY <1>1, <3>1, <3>3, <4>3
      <3>4. processed'[r] \cap After(r)' = {}
        BY <3>2, <3>3 DEF After
      <3>5. ASSUME NEW e \in events, e \notin processed'[r]
            PROVE  e.seq > last.seq /\ \A f \in processed'[r] : f.seq < e.seq
        <4>1. e.seq > cursor[r] /\ \A f \in processed[r] : f.seq < e.seq
          BY <1>0, <1>2, <3>5 DEF FeedComplete
        <4>2. e \in After(r) \ Page(r)
          BY <1>2, <3>5, <4>1 DEF After
        <4>3. \A f \in Page(r) : f.seq < e.seq
          BY <4>2, PageIsPrefix
        <4> QED BY <1>1, <1>2, <3>1, <4>1, <4>3
      <3> QED BY <1>1, <1>2, <2>3, <3>1, <3>2, <3>4, <3>5
    <2> QED BY <2>1, <2>2, <2>3
  <1> QED BY <1>4, <1>5, <1>6, <1>7 DEF IInv, ReaderInv, FeedComplete

-----------------------------------------------------------------------------
(* The theorems.                                                            *)

\* Every step keeps the invariant.
LEMMA NextIInv == IInv /\ [Next]_vars => IInv'
  <1> SUFFICES ASSUME IInv, [Next]_vars PROVE IInv'
    OBVIOUS
  <1>1. ASSUME NEW w \in Writers, NEW b \in Bundles, Begin(w, b)
        PROVE  IInv'
    BY <1>1, BeginIInv
  <1>2. ASSUME NEW w \in Writers, Statement(w)
        PROVE  IInv'
    <2>1. CASE LockCampaign(w)
      BY <2>1, LockCampaignIInv
    <2>2. CASE KnownObservation(w)
      BY <2>2, KnownObservationIInv
    <2>3. CASE ObservationConflict(w)
      BY <2>3, EndIInv DEF ObservationConflict
    <2>4. CASE SameAsLatest(w)
      BY <2>4, SameAsLatestIInv
    <2>5. CASE FirstVersion(w)
      BY <2>5, FirstVersionIInv
    <2>6. CASE NextVersion(w)
      BY <2>6, NextVersionIInv
    <2>7. CASE CountCoverage(w)
      BY <2>7, CountCoverageIInv
    <2>8. CASE LockFeed(w)
      BY <2>8, LockFeedIInv
    <2>9. CASE AddEvent(w)
      BY <2>9, AddEventIInv
    <2>10. CASE Commit(w)
      BY <2>10, CommitIInv
    <2> QED BY <1>2, <2>1, <2>2, <2>3, <2>4, <2>5, <2>6, <2>7, <2>8, <2>9, <2>10
            DEF Statement
  <1>3. ASSUME NEW w \in Writers, Rollback(w)
        PROVE  IInv'
    BY <1>3, EndIInv DEF Rollback
  <1>4. ASSUME NEW r \in Readers, Poll(r)
        PROVE  IInv'
    BY <1>4, PollIInv
  <1>5. CASE UNCHANGED vars
    <2> USE <1>5 DEF vars, store, locks, reader, txn
    <2>1. (TypeOK /\ RowsInv /\ LockInv)'
      BY DEF IInv, TypeOK, RowsInv, LockInv
    <2>2. ASSUME NEW w \in Writers PROVE WritesInv(w)' /\ EventInv(w)'
      BY DEF IInv, WritesInv, EventInv, Observed, NewObservation, RecordId, IsLatest,
             VersionsOf, IsNext, Before, ChangeOf
    <2>3. (HistoryInv /\ VersionChain /\ OneVersionPerObservation /\ FeedTellsHistory)'
      BY DEF IInv, HistoryInv, VersionChain, OneVersionPerObservation, FeedTellsHistory, VersionsOf
    <2>4. (ReaderInv /\ FeedComplete)'
      BY DEF IInv, ReaderInv, FeedComplete, After, Page
    <2> QED BY <2>1, <2>2, <2>3, <2>4 DEF IInv
  <1> QED BY <1>1, <1>2, <1>3, <1>4, <1>5 DEF Next

\* The invariant holds in every reachable state.
LEMMA Invariance == Spec => []IInv
  BY InitIInv, NextIInv, PTL DEF Spec

\* Every row, cursor and lock is of its type, whatever is persisted.
THEOREM StoreTypeCorrect == Spec => []TypeOK
  <1>1. IInv => TypeOK
    BY DEF IInv
  <1> QED BY <1>1, Invariance, PTL

\* No reader ever skips an event, for any number of transactions and page size.
THEOREM FeedNeverSkips == Spec => []FeedComplete
  <1>1. IInv => FeedComplete
    BY DEF IInv
  <1> QED BY <1>1, Invariance, PTL

\* The versions of a campaign have no gap and no duplicate.
THEOREM VersionsChain == Spec => []VersionChain
  <1>1. IInv => VersionChain
    BY DEF IInv
  <1> QED BY <1>1, Invariance, PTL

\* Retries and zombies of one observation make one version.
THEOREM OneVersionEach == Spec => []OneVersionPerObservation
  <1>1. IInv => OneVersionPerObservation
    BY DEF IInv
  <1> QED BY <1>1, Invariance, PTL

\* The feed has one event per version, linked and in order.
THEOREM FeedIsHistory == Spec => []FeedTellsHistory
  <1>1. IInv => FeedTellsHistory
    BY DEF IInv
  <1> QED BY <1>1, Invariance, PTL

\* An observation is committed with the newest version as its record.
THEOREM ObservationOfLatest == Spec => ObservationIsOfLatest
  <1> DEFINE OfLatest == \A o \in observations' \ observations : \E x \in records' :
                /\ x.id = o.record_id /\ x.campaign = o.campaign /\ x.record = o.record
                /\ \A y \in records' : y.campaign = x.campaign => y.version <= x.version
  <1>1. IInv /\ [Next]_vars => [OfLatest]_vars
    <2> SUFFICES ASSUME IInv, Next, NEW o \in observations' \ observations
                 PROVE  \E x \in records' :
                /\ x.id = o.record_id /\ x.campaign = o.campaign /\ x.record = o.record
                /\ \A y \in records' : y.campaign = x.campaign => y.version <= x.version
      OBVIOUS
    <2>1. PICK w \in Writers : Commit(w)
      <3>1. ASSUME NEW w \in Writers, NEW b \in Bundles, Begin(w, b) PROVE FALSE
        BY <3>1 DEF Begin, store
      <3>2. ASSUME NEW w \in Writers, Statement(w) PROVE Commit(w)
        BY <3>2 DEF Statement, LockCampaign, KnownObservation, ObservationConflict, SameAsLatest,
                    FirstVersion, NextVersion, WriteVersion, CountCoverage, LockFeed, AddEvent, store
      <3>3. ASSUME NEW w \in Writers, Rollback(w) PROVE FALSE
        BY <3>3 DEF Rollback, store
      <3>4. ASSUME NEW r \in Readers, Poll(r) PROVE FALSE
        BY <3>4 DEF Poll, store
      <3> QED BY <3>1, <3>2, <3>3, <3>4 DEF Next
    <2>2. /\ o \in writes[w].observations /\ records' = records \cup writes[w].records
          /\ WritesInv(w) /\ TypeOK
      BY <2>1 DEF Commit, IInv
    <2>3. PICK x \in records \cup writes[w].records :
             /\ x.id = o.record_id /\ x.campaign = o.campaign /\ x.record = o.record
             /\ \/ x \in writes[w].records
                \/ IsLatest(x, o.campaign) /\ writes[w].records = {}
      BY <2>2 DEF WritesInv
    <2>4. \A y \in records' : y.version \in Nat
      BY <2>2 DEF TypeOK, Records
    <2>5. ASSUME NEW y \in records', y.campaign = x.campaign
          PROVE  y.version <= x.version
      <3>1. CASE x \in writes[w].records
        <4>1. writes[w].records = {x} /\ IsNext(x)
          BY <2>2, <3>1 DEF WritesInv
        <4> QED BY <2>2, <2>4, <2>5, <4>1 DEF IsNext, VersionsOf
      <3>2. CASE IsLatest(x, o.campaign) /\ writes[w].records = {}
        BY <2>2, <2>3, <2>5, <3>2 DEF IsLatest, VersionsOf
      <3> QED BY <2>3, <3>1, <3>2
    <2> QED BY <2>2, <2>3, <2>5
  <1>2. [][IInv /\ [Next]_vars]_vars => ObservationIsOfLatest
    BY <1>1, PTL DEF ObservationIsOfLatest
  <1> QED BY <1>2, Invariance, PTL DEF Spec

-----------------------------------------------------------------------------
(* The feed implements the log of FeedLog.                                  *)

\* A commit appends its event, if it has one, behind all others.
LEMMA CommitAppends ==
    ASSUME IInv, NEW w \in Writers, Commit(w)
    PROVE  Feed!Append \/ UNCHANGED Feed!vars
  <1>0. /\ TypeOK /\ EventInv(w)
        /\ events' = events \cup writes[w].events
        /\ processed' = processed
    BY DEF Commit, IInv, reader
  <1>1. CASE writes[w].events = {}
    BY <1>0, <1>1 DEF Feed!vars
  <1>2. ASSUME NEW e \in writes[w].events
        PROVE  Feed!Append
    <2>1. writes[w].events = {e} /\ \A f \in events : f.seq < e.seq
      BY <1>0 DEF EventInv
    <2>2. e \in Events
      BY <1>0 DEF TypeOK
    <2> QED BY <1>0, <2>1, <2>2 DEF Feed!Append
  <1> QED BY <1>1, <1>2

\* A poll shows a longer prefix of the log.
LEMMA PollShows ==
    ASSUME IInv, NEW r \in Readers, Poll(r)
    PROVE  Feed!Show(r)
  <1>0. /\ TypeOK /\ RowsInv /\ ReaderInv /\ FeedComplete
        /\ processed' = [processed EXCEPT ![r] = @ \cup Page(r)]
        /\ events' = events
    BY DEF Poll, IInv, store
  <1>1. /\ Page(r) \subseteq After(r) /\ After(r) \subseteq events
        /\ processed[r] \subseteq events
        /\ \A e \in events : e.seq \in Nat \ {0} /\ e.seq <= MaxSequence
    BY <1>0, StoreAssumption DEF Page, After, ReaderInv, TypeOK, RowsInv, Events
  <1>2. CASE Page(r) = After(r)
    <2>1. processed[r] \cup Page(r) = events
      BY <1>0, <1>1, <1>2 DEF FeedComplete, After
    <2>2. Feed!Prefix(MaxSequence) = events
      BY <1>1 DEF Feed!Prefix
    <2>3. MaxSequence \in 0..MaxSequence
      BY StoreAssumption
    <2> QED BY <1>0, <1>1, <2>1, <2>2, <2>3 DEF Feed!Show
  <1>3. CASE Page(r) # After(r)
    <2>1. PICK last \in Page(r) : \A e \in Page(r) : e.seq <= last.seq
      BY <1>3 DEF Poll
    <2>2. last.seq \in 0..MaxSequence /\ last.seq > cursor[r]
      BY <1>1, <2>1, StoreAssumption DEF Page, After
    <2>3. ASSUME NEW e \in events, e.seq <= last.seq
          PROVE  e \in processed[r] \cup Page(r)
      <3>1. CASE e \in processed[r]
        BY <3>1
      <3>2. CASE e \notin processed[r]
        <4>1. e \in After(r)
          BY <1>0, <3>2 DEF FeedComplete, After
        <4>2. e \in Page(r)
          BY <1>1, <2>3, <4>1, PageIsPrefix
        <4> QED BY <4>2
      <3> QED BY <3>1, <3>2
    <2>4. ASSUME NEW f \in processed[r], f.seq > last.seq
          PROVE  FALSE
      <3>1. f \in After(r)
        BY <1>0, <1>1, <2>2, <2>4 DEF After, TypeOK
      <3>2. f \in Page(r)
        BY <1>0, <3>1 DEF ReaderInv
      <3> QED BY <1>1, <2>1, <2>4, <3>2
    <2>5. processed[r] \cup Page(r) = Feed!Prefix(last.seq)
      BY <1>1, <2>1, <2>3, <2>4 DEF Feed!Prefix
    <2> QED BY <1>0, <2>2, <2>5 DEF Feed!Show
  <1> QED BY <1>2, <1>3

\* Every behaviour of the store is, for its readers, an append-only log of
\* which each of them shows a growing prefix.
THEOREM StoreImplementsFeed == Spec => Feed!Spec
  <1>1. Init => Feed!Init
    BY DEF Init, Feed!Init
  <1>2. IInv /\ [Next]_vars => [Feed!Next]_(Feed!vars)
    <2> SUFFICES ASSUME IInv, [Next]_vars PROVE Feed!Next \/ UNCHANGED Feed!vars
      OBVIOUS
    <2>1. ASSUME NEW w \in Writers, Commit(w)
          PROVE  Feed!Next \/ UNCHANGED Feed!vars
      BY <2>1, CommitAppends DEF Feed!Next
    <2>2. ASSUME NEW r \in Readers, Poll(r)
          PROVE  Feed!Next
      BY <2>2, PollShows DEF Feed!Next
    <2>3. ASSUME NEW w \in Writers,
                 Rollback(w) \/ (\E b \in Bundles : Begin(w, b)) \/ (Statement(w) /\ ~Commit(w))
          PROVE  UNCHANGED Feed!vars
      BY <2>3 DEF Begin, Rollback, Statement, LockCampaign, KnownObservation, ObservationConflict,
                  SameAsLatest, FirstVersion, NextVersion, WriteVersion, CountCoverage, LockFeed,
                  AddEvent, store, reader, Feed!vars
    <2>4. CASE UNCHANGED vars
      BY <2>4 DEF vars, store, reader, Feed!vars
    <2> QED BY <2>1, <2>2, <2>3, <2>4 DEF Next
  <1> QED BY <1>1, <1>2, Invariance, PTL DEF Spec, Feed!Spec
=============================================================================
