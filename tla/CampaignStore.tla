--------------------------- MODULE CampaignStore ---------------------------
(***************************************************************************)
(* The write path of storage/write_adapter.py: one READ COMMITTED           *)
(* transaction per persist() that allocates a campaign version under a      *)
(* per-campaign advisory lock and publishes it in the notification feed     *)
(* under one global advisory lock; and the notification readers, who page   *)
(* through the feed with a feed_sequence cursor (storage/read_adapter.py,   *)
(* application/services.py, web/src/app/App.tsx).                           *)
(*                                                                         *)
(* A transaction's writes are kept apart in "writes" until it commits:      *)
(* every other transaction reads committed rows only.  Persisting is not    *)
(* fenced by the job lease, so any number of transactions may carry the     *)
(* same observation: retries, zombies and concurrent scans.                 *)
(***************************************************************************)
EXTENDS Integers, FiniteSets

CONSTANTS
    Campaigns,      \* campaign_key values of one source
    Observations,   \* observation_key values: (scan run, campaign, URL) digests
    Pages,          \* what a fetch may bring: [clean, record, status]
    Times,          \* fetch instants (observed_at)
    Writers,        \* worker transactions that may be open at once
    Readers,        \* browsers that follow the feed
    PageSize,       \* the limit a reader asks for
    MaxSequence,    \* bound: the feed sequence is advanced at most this often
    NoPage,         \* the bundle carries no record (blocked, not modified, ...)
    NoWriter        \* nobody holds the advisory lock

ASSUME StoreAssumption ==
    /\ Pages \subseteq [clean : STRING, record : STRING,
                        status : {"validated", "needs_review", "rejected"}]
    /\ NoPage \notin Pages
    /\ Times \subseteq Nat
    /\ NoWriter \notin Writers
    /\ PageSize \in Nat \ {0}
    /\ MaxSequence \in Nat

VARIABLES
    records,        \* campaign_records
    observations,   \* campaign_observations
    coverage,       \* coverage_entries (content-hashed, so a set)
    events,         \* outbox_events of the campaign-change topic
    sequence,       \* outbox_feed_sequence: nextval is never rolled back
    pc,             \* where each transaction is
    bundle,         \* the PersistenceBundle it persists
    writes,         \* its uncommitted rows
    pending,        \* its _PendingCampaignChange, if any
    campaignLock,   \* pg_advisory_xact_lock(hash(campaign_key))
    feedLock,       \* the outbox feed lock
    cursor,         \* each reader's feed_sequence cursor
    processed       \* the events each reader has shown

store  == <<records, observations, coverage, events>>
locks  == <<campaignLock, feedLock>>
reader == <<cursor, processed>>
txn    == <<pc, bundle, writes, pending>>
vars   == <<store, sequence, txn, locks, reader>>

Bundles == [campaign : Campaigns, observation : Observations,
            page : Pages \cup {NoPage}, observed_at : Times]

\* _record_id hashes exactly these three.
RecordIds == Campaigns \X Observations \X {p.record : p \in Pages}

Records == [id : RecordIds, campaign : Campaigns, version : Nat \ {0},
            record : {p.record : p \in Pages}, status : {p.status : p \in Pages},
            observed_at : Times]

ObservationRows == [campaign : Campaigns, observation : Observations,
                    clean : {p.clean : p \in Pages},
                    record : {p.record : p \in Pages}, record_id : RecordIds]

Entries == [observed_at : Times, campaign_count : Nat]

\* The payload; previous_record_id is the version before it, if there is one.
Changes == [campaign : Campaigns, version : Nat \ {0},
            record_id : RecordIds, previous : SUBSET RecordIds]

Events == [seq : Nat \ {0}, change : Changes]

NoWrites == [records |-> {}, observations |-> {}, coverage |-> {}, events |-> {}]

TypeOK ==
    /\ records \subseteq Records
    /\ observations \subseteq ObservationRows
    /\ coverage \subseteq Entries
    /\ events \subseteq Events
    /\ sequence \in 0..MaxSequence
    /\ pc \in [Writers -> {"idle", "verified", "locked", "counting",
                           "publishing", "allocating", "committing"}]
    /\ DOMAIN bundle = Writers
    /\ \A w \in Writers : pc[w] # "idle" => bundle[w] \in Bundles
    /\ writes \in [Writers -> [records : SUBSET Records,
                               observations : SUBSET ObservationRows,
                               coverage : SUBSET Entries,
                               events : SUBSET Events]]
    /\ pending \in [Writers -> SUBSET Changes]
    /\ campaignLock \in [Campaigns -> Writers \cup {NoWriter}]
    /\ feedLock \in Writers \cup {NoWriter}
    /\ cursor \in [Readers -> 0..MaxSequence]
    /\ processed \in [Readers -> SUBSET Events]

Init ==
    /\ records = {} /\ observations = {} /\ coverage = {} /\ events = {}
    /\ sequence = 0
    /\ pc = [w \in Writers |-> "idle"]
    /\ bundle = [w \in Writers |-> NoPage]
    /\ writes = [w \in Writers |-> NoWrites]
    /\ pending = [w \in Writers |-> {}]
    /\ campaignLock = [c \in Campaigns |-> NoWriter]
    /\ feedLock = NoWriter
    /\ cursor = [r \in Readers |-> 0]
    /\ processed = [r \in Readers |-> {}]

-----------------------------------------------------------------------------
(* The queries a transaction runs.                                          *)

VersionsOf(c) == {x \in records : x.campaign = c}

\* CampaignRepository.latest: ORDER BY version DESC LIMIT 1.
IsLatest(x, c) ==
    x \in VersionsOf(c) /\ \A y \in VersionsOf(c) : y.version <= x.version

\* CampaignObservationRepository.get
Observed(w) ==
    {x \in observations : /\ x.campaign = bundle[w].campaign
                          /\ x.observation = bundle[w].observation}

\* The recorded observation is the one in the bundle.  The scan run is part
\* of the observation key.
SameContent(x, w) ==
    x.clean = bundle[w].page.clean /\ x.record = bundle[w].page.record

\* The served version: newest observed_at, then highest version.
IsServed(x, rows) ==
    /\ x \in rows
    /\ \A y \in rows :
          y.campaign = x.campaign =>
             \/ y.observed_at < x.observed_at
             \/ y.observed_at = x.observed_at /\ y.version <= x.version

\* _coverage_counts, over the rows this transaction can see.
CampaignCount(w) ==
    LET rows == records \cup writes[w].records IN
    Cardinality({x.campaign : x \in {y \in rows : IsServed(y, rows)
                                                  /\ y.status = "validated"}})

-----------------------------------------------------------------------------
(* persist(), statement by statement.                                       *)

\* BEGIN, _verified_source, add_fetch, add_document; the artifact rows are
\* content-addressed and nothing below reads them.
Begin(w, b) ==
    /\ pc[w] = "idle"
    /\ bundle' = [bundle EXCEPT ![w] = b]
    /\ pc' = [pc EXCEPT ![w] = IF b.page = NoPage THEN "counting" ELSE "verified"]
    /\ UNCHANGED <<store, sequence, writes, pending, locks, reader>>

\* Fault: the campaign lock is not waited for.
LockCampaign_NoWait(w) ==
    /\ pc[w] = "verified"
    /\ campaignLock' = [campaignLock EXCEPT ![bundle[w].campaign] = w]
    /\ pc' = [pc EXCEPT ![w] = "locked"]
    /\ UNCHANGED <<store, sequence, bundle, writes, pending, feedLock, reader>>

LockCampaign(w) ==
    /\ pc[w] = "verified"
    /\ campaignLock[bundle[w].campaign] = NoWriter
    /\ campaignLock' = [campaignLock EXCEPT ![bundle[w].campaign] = w]
    /\ pc' = [pc EXCEPT ![w] = "locked"]
    /\ UNCHANGED <<store, sequence, bundle, writes, pending, feedLock, reader>>

\* A retry of a persisted observation returns the record it was mapped to.
KnownObservation(w) ==
    /\ pc[w] = "locked"
    /\ \E x \in Observed(w) : SameContent(x, w)
    /\ pc' = [pc EXCEPT ![w] = "counting"]
    /\ UNCHANGED <<store, sequence, bundle, writes, pending, locks, reader>>

\* Transaction end: the locks go with it.
EndTransaction(w) ==
    /\ pc' = [pc EXCEPT ![w] = "idle"]
    /\ bundle' = [bundle EXCEPT ![w] = NoPage]
    /\ writes' = [writes EXCEPT ![w] = NoWrites]
    /\ pending' = [pending EXCEPT ![w] = {}]
    /\ campaignLock' = [c \in Campaigns |->
                          IF campaignLock[c] = w THEN NoWriter ELSE campaignLock[c]]
    /\ feedLock' = IF feedLock = w THEN NoWriter ELSE feedLock

\* The same observation with other content: ObservationConflictError.
ObservationConflict(w) ==
    /\ pc[w] = "locked"
    /\ \E x \in Observed(w) : ~SameContent(x, w)
    /\ EndTransaction(w)
    /\ UNCHANGED <<store, sequence, reader>>

NewObservation(w, id) ==
    [campaign |-> bundle[w].campaign, observation |-> bundle[w].observation,
     clean |-> bundle[w].page.clean, record |-> bundle[w].page.record,
     record_id |-> id]

\* Fault: any version with this content will do.
SameAsLatest_AnyVersion(w) ==
    /\ pc[w] = "locked" /\ Observed(w) = {}
    /\ \E x \in VersionsOf(bundle[w].campaign) :
          /\ x.record = bundle[w].page.record
          /\ writes' = [writes EXCEPT ![w].observations = {NewObservation(w, x.id)}]
    /\ pc' = [pc EXCEPT ![w] = "counting"]
    /\ UNCHANGED <<store, sequence, bundle, pending, locks, reader>>

\* A new observation of the latest version: no new record, no event.
SameAsLatest(w) ==
    /\ pc[w] = "locked" /\ Observed(w) = {}
    /\ \E x \in records :
          /\ IsLatest(x, bundle[w].campaign)
          /\ x.record = bundle[w].page.record
          /\ writes' = [writes EXCEPT ![w].observations = {NewObservation(w, x.id)}]
    /\ pc' = [pc EXCEPT ![w] = "counting"]
    /\ UNCHANGED <<store, sequence, bundle, pending, locks, reader>>

RecordId(w) ==
    <<bundle[w].campaign, bundle[w].observation, bundle[w].page.record>>

NewRecord(w, version) ==
    [id |-> RecordId(w), campaign |-> bundle[w].campaign, version |-> version,
     record |-> bundle[w].page.record, status |-> bundle[w].page.status,
     observed_at |-> bundle[w].observed_at]

\* campaigns.add_record, observations.add, _PendingCampaignChange.  The unique
\* indexes over id and (campaign, version) are properties, not guards: no
\* legal interleaving may ever run into them.
WriteVersion(w, version, previous) ==
    /\ writes' = [writes EXCEPT ![w].records = {NewRecord(w, version)},
                                ![w].observations = {NewObservation(w, RecordId(w))}]
    /\ pending' = [pending EXCEPT ![w] =
          {[campaign |-> bundle[w].campaign, version |-> version,
            record_id |-> RecordId(w), previous |-> previous]}]
    /\ pc' = [pc EXCEPT ![w] = "counting"]
    /\ UNCHANGED <<store, sequence, bundle, locks, reader>>

FirstVersion(w) ==
    /\ pc[w] = "locked" /\ Observed(w) = {}
    /\ VersionsOf(bundle[w].campaign) = {}
    /\ WriteVersion(w, 1, {})

\* Fault: an observation already recorded is not looked up.
NextVersion_Unchecked(w) ==
    /\ pc[w] = "locked"
    /\ \E x \in records : /\ IsLatest(x, bundle[w].campaign)
                          /\ x.record # bundle[w].page.record
                          /\ WriteVersion(w, x.version + 1, {x.id})

NextVersion(w) ==
    /\ pc[w] = "locked" /\ Observed(w) = {}
    /\ \E x \in records : /\ IsLatest(x, bundle[w].campaign)
                          /\ x.record # bundle[w].page.record
                          /\ WriteVersion(w, x.version + 1, {x.id})

\* _coverage_counts and CoverageRepository.add: before the outbox, so that no
\* lock is taken after the feed lock.
CountCoverage(w) ==
    /\ pc[w] = "counting"
    /\ writes' = [writes EXCEPT ![w].coverage =
          {[observed_at |-> bundle[w].observed_at, campaign_count |-> CampaignCount(w)]}]
    /\ pc' = [pc EXCEPT ![w] = IF pending[w] = {} THEN "committing" ELSE "publishing"]
    /\ UNCHANGED <<store, sequence, bundle, pending, locks, reader>>

\* Fault: feed positions are handed out without the feed lock.
LockFeed_NoWait(w) ==
    /\ pc[w] = "publishing"
    /\ feedLock' = w
    /\ pc' = [pc EXCEPT ![w] = "allocating"]
    /\ UNCHANGED <<store, sequence, bundle, writes, pending, campaignLock, reader>>

LockFeed(w) ==
    /\ pc[w] = "publishing"
    /\ feedLock = NoWriter
    /\ feedLock' = w
    /\ pc' = [pc EXCEPT ![w] = "allocating"]
    /\ UNCHANGED <<store, sequence, bundle, writes, pending, campaignLock, reader>>

\* Fault: the event is inserted by a session of its own.
AddEvent_OwnSession(w) ==
    /\ pc[w] = "allocating"
    /\ sequence < MaxSequence
    /\ sequence' = sequence + 1
    /\ events' = events \cup {[seq |-> sequence + 1, change |-> c] : c \in pending[w]}
    /\ pc' = [pc EXCEPT ![w] = "committing"]
    /\ UNCHANGED <<records, observations, coverage, bundle, writes, pending, locks, reader>>

\* OutboxRepository.add: INSERT with feed_sequence = nextval(...).
AddEvent(w) ==
    /\ pc[w] = "allocating"
    /\ sequence < MaxSequence
    /\ sequence' = sequence + 1
    /\ writes' = [writes EXCEPT ![w].events =
                    {[seq |-> sequence + 1, change |-> c] : c \in pending[w]}]
    /\ pc' = [pc EXCEPT ![w] = "committing"]
    /\ UNCHANGED <<store, bundle, pending, locks, reader>>

Commit(w) ==
    /\ pc[w] = "committing"
    /\ records' = records \cup writes[w].records
    /\ observations' = observations \cup writes[w].observations
    /\ coverage' = coverage \cup writes[w].coverage
    /\ events' = events \cup writes[w].events
    /\ EndTransaction(w)
    /\ UNCHANGED <<sequence, reader>>

\* A failed statement, a lost connection or a killed process: nothing is
\* written, and an allocated feed position becomes a gap.
Rollback(w) ==
    /\ pc[w] # "idle"
    /\ EndTransaction(w)
    /\ UNCHANGED <<store, sequence, reader>>

-----------------------------------------------------------------------------
(* The notification reader.                                                 *)

After(r) == {e \in events : e.seq > cursor[r]}

\* ORDER BY feed_sequence LIMIT PageSize
Page(r) ==
    {e \in After(r) : Cardinality({f \in After(r) : f.seq < e.seq}) < PageSize}

\* Fault: the cursor the server returns is dropped.
Poll_CursorKept(r) ==
    /\ processed' = [processed EXCEPT ![r] = @ \cup Page(r)]
    /\ UNCHANGED <<store, sequence, txn, locks, cursor>>

\* One request and its rendering.  The cursor moves only past a page with
\* more behind it; the last page is read again, and shown events are skipped
\* by their id.  A lost answer is the step not taken.
Poll(r) ==
    /\ processed' = [processed EXCEPT ![r] = @ \cup Page(r)]
    /\ IF Page(r) = After(r)
       THEN cursor' = cursor
       ELSE \E last \in Page(r) :
               /\ \A e \in Page(r) : e.seq <= last.seq
               /\ cursor' = [cursor EXCEPT ![r] = last.seq]
    /\ UNCHANGED <<store, sequence, txn, locks>>

-----------------------------------------------------------------------------

Statement(w) ==
    \/ LockCampaign(w) \/ KnownObservation(w) \/ ObservationConflict(w)
    \/ SameAsLatest(w) \/ FirstVersion(w) \/ NextVersion(w)
    \/ CountCoverage(w) \/ LockFeed(w) \/ AddEvent(w) \/ Commit(w)

Next ==
    \/ \E w \in Writers : \/ \E b \in Bundles : Begin(w, b)
                          \/ Statement(w)
                          \/ Rollback(w)
    \/ \E r \in Readers : Poll(r)

Spec == Init /\ [][Next]_vars

\* A browser polls every 15 seconds while its tab is visible.  Nothing is
\* assumed of the writers.
Fairness == \A r \in Readers : WF_vars(Poll(r))

-----------------------------------------------------------------------------
(* Properties.                                                              *)

\* A reader never skips an event: whatever is committed at or below its
\* cursor, or below anything it has shown, it has shown.  feed_sequence is
\* drawn before commit, so this is what the feed lock and the order "insert,
\* then commit, then next nextval" are for.
FeedComplete ==
    \A r \in Readers : \A e \in events :
        \/ e \in processed[r]
        \/ /\ e.seq > cursor[r]
           /\ \A f \in processed[r] : f.seq < e.seq

\* The versions of a campaign are 1, 2, ... without gap or duplicate, no
\* version repeats the content of the one before, and no record id is taken
\* twice: the StorageErrors of write_adapter.py ("reused an existing record
\* identity", "reused an existing outbox dedupe key") are unreachable.
VersionChain ==
    /\ \A x, y \in records :
          \/ x = y
          \/ x.id # y.id /\ <<x.campaign, x.version>> # <<y.campaign, y.version>>
    /\ \A x \in records : x.version > 1 =>
          \E y \in records : /\ y.campaign = x.campaign
                             /\ y.version = x.version - 1
                             /\ y.record # x.record

\* One observation makes at most one version, however often and in whatever
\* order its job is retried: "the retry of an old A after B makes no v3".
OneVersionPerObservation ==
    \A x, y \in records :
        x.campaign = y.campaign /\ x.id[2] = y.id[2] => x = y

\* The feed tells the history of every campaign: one event per version, linked
\* to the version before it, in version order.
FeedTellsHistory ==
    /\ {x.id : x \in records} = {e.change.record_id : e \in events}
    /\ \A x \in records, e \in events : e.change.record_id = x.id =>
          /\ e.change.version = x.version
          /\ e.change.previous = {y.id : y \in {z \in VersionsOf(x.campaign) :
                                                 z.version = x.version - 1}}
    /\ \A e, f \in events :
          e.change.campaign = f.change.campaign /\ e.change.version < f.change.version
             => e.seq < f.seq

\* When an observation is committed, the record it names holds its content and
\* is the newest version: A, B, A is three versions, never a pointer back to
\* the first.
ObservationIsOfLatest ==
    [][\A o \in observations' \ observations : \E x \in records' :
          /\ x.id = o.record_id /\ x.campaign = o.campaign /\ x.record = o.record
          /\ \A y \in records' : y.campaign = x.campaign => y.version <= x.version]_vars

\* The feed as readers may think of it: an append-only log that each of them
\* reads in order, and sooner or later to its end.
Feed == INSTANCE FeedLog WITH log <- events, shown <- processed,
                              Positions <- 0..MaxSequence
ImplementsFeedLog == Feed!FairSpec
=============================================================================
