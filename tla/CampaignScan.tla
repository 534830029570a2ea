---------------------------- MODULE CampaignScan ----------------------------
(***************************************************************************)
(* The periodic campaign scan: CampaignScanner over the short transactions  *)
(* of PostgresCampaignScanStore (runtime/scanning.py), the repositories of  *)
(* monitored targets and source states (storage/repositories.py) and        *)
(* discover_campaign_index (ingestion/discovery.py).  The scan is a Job of  *)
(* a Kubernetes CronJob, which is external: a Job may have several pods,    *)
(* all with its UID as scan_run_id, and Jobs may overlap.                   *)
(*                                                                         *)
(* One bank: banks share nothing but the order in which they are scanned.   *)
(* Each await of the store or the collector is a step, so that a pod may    *)
(* die between any two.  An index body is the set of links it shows, as     *)
(* they resolve where its fetch ended: a fetch follows redirects between    *)
(* the bank's hosts, and the code judges links and known targets by the URL *)
(* at which this fetch ended, not by the one that is registered.            *)
(***************************************************************************)
EXTENDS Integers, FiniteSets, Sequences

CONSTANTS
    Pods,
    ScanRuns,       \* scan_run_ids
    MaxPods,        \* bound: how many pods are ever started
    Sources,        \* the bank's rows of the campaign registry, in order
    Urls,           \* detail and product pages, numbered as they sort
    Bodies,         \* Bodies[m]: what the page m may serve
    Ends,           \* Ends[m]: the final URLs at which a fetch of m may end
    Near,           \* Near[f]: the Urls on the host of f and not at its path
    Nothing         \* no row, no pod, no content

Kinds == {"unavailable", "index", "collection", "static"}

\* The pages a row fetches: its index URL, or its curated static pages.
PagesOf(s) == {Sources[s].pages[i] : i \in DOMAIN Sources[s].pages}
Monitored == UNION {PagesOf(s) : s \in DOMAIN Sources}
Contents == UNION {Bodies[m] : m \in Monitored}
FinalUrls == UNION {Ends[m] : m \in Monitored}

\* _parse_campaign_source and _validate_bank_source_groups.  That no static
\* page is also an index URL is true of the registries but not validated.
ASSUME ScanAssumption ==
    /\ MaxPods \in Nat
    /\ Urls \subseteq Nat /\ IsFiniteSet(Urls) /\ Nothing \notin Urls
    /\ Sources \in Seq([kind : Kinds, pages : Seq(Nat), details : SUBSET Urls, max_links : Nat])
    /\ Len(Sources) > 0
    /\ DOMAIN Bodies = Monitored
    /\ \A m \in Monitored : Bodies[m] \subseteq SUBSET Urls /\ Nothing \notin Bodies[m]
    /\ Nothing \notin Monitored
    /\ DOMAIN Ends = Monitored /\ \A m \in Monitored : Ends[m] # {}
    /\ Near \in [FinalUrls -> SUBSET Urls] /\ Nothing \notin FinalUrls
    /\ \A s \in DOMAIN Sources :
          /\ Len(Sources[s].pages) > 0 <=> Sources[s].kind # "unavailable"
          /\ Sources[s].kind \in {"index", "collection"} => Len(Sources[s].pages) = 1
          /\ Sources[s].kind = "static" => PagesOf(s) \subseteq Urls
    /\ \A s, t \in DOMAIN Sources :
          Sources[s].kind = "index" /\ s # t => PagesOf(s) \cap PagesOf(t) = {}

VARIABLES
    pods,           \* how many pods there have been
    targets,        \* monitored_campaign_targets: discovered_from, by URL
    observed,       \* monitored_source_states: last_content_sha256, by page
    queue,          \* the source jobs enqueued, as <<scan_run_id, url>>
    pod,            \* the scan each pod is in
    latest,         \* history: the body each page was last fetched with
    ended,          \* history: the final URLs each page was read under
    unasked         \* history: changed collections whose review is not printed

vars == <<pods, targets, observed, queue, pod, latest, ended, unasked>>

ScanStatuses == {"success", "blocked", "failed"}
Phases == {"listing", "fetching", "observing", "upserting", "recording",
           "enqueuing", "exiting"}

\* The frames of CampaignScanner.run and of the source it is at.  A local that
\* is not read again is cleared.
Scans == [run : ScanRuns,
          phase : Phases,
          source : DOMAIN Sources,
          position : Nat \ {0},                           \* in its pages
          targets : [Urls -> Monitored \cup {Nothing}],   \* the dict targets
          status : ScanStatuses,
          content : Contents \cup {Nothing},
          end : FinalUrls \cup {Nothing},                 \* of the last fetch
          todo : SUBSET Urls,                             \* of the loop it is in
          broken : SUBSET Monitored,                      \* indexes that refused a known target
          failed : BOOLEAN,                               \* has_failures
          review : SUBSET Monitored,                      \* review_required
          due : SUBSET Urls, seen : SUBSET Urls]          \* history: see ScanIsWhole

TypeOK ==
    /\ pods \in 0..MaxPods
    /\ targets \in [Urls -> Monitored \cup {Nothing}]
    /\ observed \in [Monitored -> Contents \cup {Nothing}]
    /\ queue \subseteq ScanRuns \X Urls
    /\ pod \in [Pods -> Scans \cup {Nothing}]
    /\ latest \in [Monitored -> Contents \cup {Nothing}]
    /\ ended \in [Monitored -> SUBSET FinalUrls]
    /\ unasked \subseteq Monitored

Unmapped == [u \in Urls |-> Nothing]

Init ==
    /\ pods = 0
    /\ targets = Unmapped
    /\ observed = [m \in Monitored |-> Nothing]
    /\ queue = {}
    /\ pod = [p \in Pods |-> Nothing]
    /\ latest = [m \in Monitored |-> Nothing]
    /\ ended = [m \in Monitored |-> {}]
    /\ unasked = {}

In(p, phase) == pod[p] # Nothing /\ pod[p].phase = phase
Row(p) == Sources[pod[p].source]
PageOf(p) == Row(p).pages[pod[p].position]

\* The URLs of a table or a dict of targets.  No code makes a row inactive.
Mapped(table) == {u \in Urls : table[u] # Nothing}

\* sorted(...)[:n], and the next of a sorted loop.
Smallest(S, n) == {u \in S : Cardinality({v \in S : v < u}) < n}
First(S, u) == u \in S /\ \A v \in S : u <= v

-----------------------------------------------------------------------------
(* Where CampaignScanner goes next, as functions of its frame.              *)

\* run: the next source, or the summary and the exit code.
NextSource(s) ==
    IF s.source < Len(Sources)
    THEN [s EXCEPT !.source = @ + 1, !.phase = "listing"]
    ELSE [s EXCEPT !.phase = "exiting"]

\* Fault: a scan with failures does not enqueue what is known.
EnqueueTargets_OnSuccess(s) ==
    LET t == [s EXCEPT !.position = 1, !.targets = Unmapped]
    IN IF Mapped(s.targets) = {} \/ s.failed
       THEN NextSource(t)
       ELSE [t EXCEPT !.phase = "enqueuing", !.todo = Mapped(s.targets)]

EnqueueTargets(s) ==
    LET t == [s EXCEPT !.position = 1, !.targets = Unmapped]
    IN IF Mapped(s.targets) = {}
       THEN NextSource(t)
       ELSE [t EXCEPT !.phase = "enqueuing", !.todo = Mapped(s.targets)]

\* The loop of _scan_static_pages; an index is one page.
NextPage(s) ==
    IF s.position < Len(Sources[s.source].pages)
    THEN [s EXCEPT !.phase = "fetching", !.position = @ + 1]
    ELSE EnqueueTargets(s)

-----------------------------------------------------------------------------
(* Kubernetes.                                                              *)

\* A replacement pod has the run id of its Job, and Jobs may overlap.  Which
\* Job gets its next pod, and how often (backoffLimit), is up to Kubernetes.
StartPod(p, r) ==
    /\ pod[p] = Nothing
    /\ pods < MaxPods
    /\ pods' = pods + 1
    /\ pod' = [pod EXCEPT ![p] =
          [run |-> r, phase |-> "listing", source |-> 1, position |-> 1,
           targets |-> Unmapped, status |-> "success",
           content |-> Nothing, end |-> Nothing, todo |-> {}, broken |-> {}, failed |-> FALSE,
           review |-> {}, due |-> Mapped(targets), seen |-> {}]]
    /\ UNCHANGED <<targets, observed, queue, latest, ended, unasked>>

\* The pod is killed, or a store call outside of the try blocks raises.
PodDies(p) ==
    /\ pod[p] # Nothing
    /\ pod' = [pod EXCEPT ![p] = Nothing]
    /\ UNCHANGED <<pods, targets, observed, queue, latest, ended, unasked>>

-----------------------------------------------------------------------------
(* One source: _scan_source, _scan_static_pages, _failed_index_result.      *)

List(p) ==
    /\ In(p, "listing")
    /\ LET s == [pod[p] EXCEPT !.targets = targets]
       IN pod' = [pod EXCEPT ![p] =
            IF Row(p).kind = "unavailable" THEN EnqueueTargets(s)
            ELSE [s EXCEPT !.phase = "fetching"]]
    /\ UNCHANGED <<pods, targets, observed, queue, latest, ended, unasked>>

\* The bank serves any body.  Each process has a response cache of its own and
\* asks for a page once, so no answer is a 304.  It may redirect to another
\* URL than the last time.
Fetch(p, status, body, end) ==
    /\ In(p, "fetching")
    /\ body \in Bodies[PageOf(p)] /\ end \in Ends[PageOf(p)]
    /\ pod' = [pod EXCEPT ![p].phase = "observing", ![p].status = status,
          ![p].content = IF status = "success" THEN body ELSE Nothing,
          ![p].end = IF status = "success" THEN end ELSE Nothing]
    /\ UNCHANGED <<pods, targets, observed, queue, latest, ended, unasked>>

\* Fault: the row takes the hash of a failed fetch, which is none.
RecordObservation_LosesHash(hash, status, content) == content

\* MonitoredSourceStateRepository.record_observation: the new hash.  A page
\* without a row and one whose row has no hash yet are treated alike, the row
\* lock (or the primary key) makes it one step, and last_status is not read.
RecordObservation(hash, status, content) ==
    IF status = "success" THEN content ELSE hash

IndexChanged(hash, status, content) ==
    status = "success" /\ hash # Nothing /\ hash # content

\* Fault: every known target of the bank is taken for one of this index.
IndexKnown_OfBank(p) == Mapped(pod[p].targets)

\* index_known: what this index has discovered, as far as the pod knows.
IndexKnown(p) == {u \in Urls : pod[p].targets[u] = PageOf(p)}

\* What this fetch of an index takes for a detail page: a URL below the
\* prefixes, on the host of its final URL and not at the path of that.
DetailPages(p) == Row(p).details \cap Near[pod[p].end]

\* _canonical_known_targets: what an index has discovered must be among them.
KnownAccepted(p) == Row(p).kind = "index" => IndexKnown(p) \subseteq DetailPages(p)

\* The detail targets of the fetched page; a static page is its own.
Yield(p) ==
    IF pod[p].status # "success" \/ Row(p).kind = "collection" THEN {}
    ELSE IF Row(p).kind = "static" THEN {PageOf(p)}
    ELSE Smallest(pod[p].content \cap DetailPages(p), Row(p).max_links)

\* observe_index, and what follows it up to the next await: for a page that
\* was fetched, discover_campaign_index and the loop over its targets.
Observe(p) ==
    /\ In(p, "observing")
    /\ LET m == PageOf(p)
           s == pod[p]
           review == IF Row(p).kind = "collection"
                        /\ IndexChanged(observed[m], s.status, s.content)
                     THEN {m} ELSE {}
           t == [s EXCEPT !.status = "success", !.content = Nothing, !.end = Nothing,
                          !.review = @ \cup review, !.failed = @ \/ (s.status = "failed")]
       IN /\ observed' = [observed EXCEPT ![m] =
                RecordObservation(observed[m], s.status, s.content)]
          /\ latest' = IF s.status = "success" THEN [latest EXCEPT ![m] = s.content]
                       ELSE latest
          /\ ended' = IF s.status = "success" THEN [ended EXCEPT ![m] = @ \cup {s.end}]
                      ELSE ended
          /\ unasked' = unasked \cup review
          /\ pod' = [pod EXCEPT ![p] =
                IF s.status = "success" /\ ~ KnownAccepted(p)
                THEN [t EXCEPT !.phase = "recording", !.broken = @ \cup {m}]
                ELSE IF Yield(p) = {} THEN NextPage(t)
                ELSE [t EXCEPT !.phase = "upserting", !.todo = Yield(p),
                               !.seen = @ \cup Yield(p)]]
    /\ UNCHANGED <<pods, targets, queue>>

\* Fault: the transaction of upsert_seen is not committed.
UpsertSeen_NoCommit(p, u) ==
    /\ In(p, "upserting") /\ First(pod[p].todo, u)
    /\ LET s == [pod[p] EXCEPT !.targets[u] = PageOf(p), !.todo = @ \ {u}]
       IN pod' = [pod EXCEPT ![p] = IF s.todo = {} THEN NextPage(s) ELSE s]
    /\ UNCHANGED <<pods, targets, observed, queue, latest, ended, unasked>>

\* upsert_seen: the row of a known URL moves to who saw it last.
UpsertSeen(p, u) ==
    /\ In(p, "upserting") /\ First(pod[p].todo, u)
    /\ targets' = [targets EXCEPT ![u] = PageOf(p)]
    /\ LET s == [pod[p] EXCEPT !.targets[u] = PageOf(p), !.todo = @ \ {u}]
       IN pod' = [pod EXCEPT ![p] = IF s.todo = {} THEN NextPage(s) ELSE s]
    /\ UNCHANGED <<pods, observed, queue, latest, ended, unasked>>

\* An exception inside of the try blocks: the collector raises, or the
\* database refuses a transaction.
Raise(p) ==
    /\ In(p, "fetching") \/ In(p, "observing") \/ In(p, "upserting")
    /\ pod' = [pod EXCEPT ![p].phase = "recording", ![p].todo = {},
                          ![p].status = "success", ![p].content = Nothing,
                          ![p].end = Nothing]
    /\ UNCHANGED <<pods, targets, observed, queue, latest, ended, unasked>>

\* observe_index_error; what is known is enqueued all the same.
RecordError(p) ==
    /\ In(p, "recording")
    /\ observed' = [observed EXCEPT ![PageOf(p)] =
          RecordObservation(observed[PageOf(p)], "failed", Nothing)]
    /\ pod' = [pod EXCEPT ![p] = NextPage([pod[p] EXCEPT !.failed = TRUE])]
    /\ UNCHANGED <<pods, targets, queue, latest, ended, unasked>>

\* enqueue_detail: the dedupe key is the pair, so a second one adds nothing.
EnqueueDetail(p, u) ==
    /\ In(p, "enqueuing") /\ First(pod[p].todo, u)
    /\ queue' = queue \cup {<<pod[p].run, u>>}
    /\ LET s == [pod[p] EXCEPT !.todo = @ \ {u}]
       IN pod' = [pod EXCEPT ![p] = IF s.todo = {} THEN NextSource(s) ELSE s]
    /\ UNCHANGED <<pods, targets, observed, latest, ended, unasked>>

\* _campaign_scan prints the summary and exits with has_failures.
Exit(p) ==
    /\ In(p, "exiting")
    /\ unasked' = unasked \ pod[p].review
    /\ pod' = [pod EXCEPT ![p] = Nothing]
    /\ UNCHANGED <<pods, targets, observed, queue, latest, ended>>

-----------------------------------------------------------------------------
Next ==
    \/ \E p \in Pods, r \in ScanRuns : StartPod(p, r)
    \/ \E p \in Pods : PodDies(p)
    \/ \E p \in Pods : List(p)
    \/ \E p \in Pods, status \in ScanStatuses, b \in Contents, f \in FinalUrls :
          Fetch(p, status, b, f)
    \/ \E p \in Pods : Observe(p)
    \/ \E p \in Pods, u \in Urls : UpsertSeen(p, u)
    \/ \E p \in Pods : Raise(p)
    \/ \E p \in Pods : RecordError(p)
    \/ \E p \in Pods, u \in Urls : EnqueueDetail(p, u)
    \/ \E p \in Pods : Exit(p)

Spec == Init /\ [][Next]_vars

-----------------------------------------------------------------------------
(* Properties.                                                              *)

\* A scan that gets to its exit has a job of its own run for every target
\* that was known when the pod started, whatever failed on the way and
\* whatever pods of the same run did before; and, when it exits with 0, for
\* every target its pages yielded.  (_enqueue_targets on every path out of
\* _scan_source, has_failures.)
ScanIsWhole ==
    \A p \in Pods : In(p, "exiting") =>
        /\ \A u \in pod[p].due : <<pod[p].run, u>> \in queue
        /\ ~ pod[p].failed => \A u \in pod[p].seen : <<pod[p].run, u>> \in queue

\* Only monitored targets are scheduled: a job never outruns the transaction
\* that made its target durable, even if the pod dies next.
ScheduledIsMonitored ==
    \A r \in ScanRuns, u \in Urls : <<r, u>> \in queue => targets[u] # Nothing

\* An index refuses the targets it discovered itself only if its own fetches
\* ended at URLs that differ in host, or one of them at a target: no history
\* of scans, of whatever rows of the bank, makes it refuse its page as long as
\* its redirects stay where they were (the check of _canonical_known_targets).
IndexStaysGreen ==
    \A p \in Pods : pod[p] # Nothing =>
        \A m \in pod[p].broken : \E f, g \in ended[m] : Near[f] # Near[g]

\* An index accepts what it has discovered itself, wherever its fetch ends.
\* (scanning.py says that the check is scoped to the targets this index itself
\* discovered, discovery.py that it is about the registered index.)
IndexAcceptsItsOwn ==
    \A p \in Pods : pod[p] # Nothing => pod[p].broken = {}

\* The stored hash is the page's last successful fetch, through failures and
\* through pods that die, so that the next change is compared with the right
\* content.
HashIsOfLatestSuccess == observed = latest

\* A collection that changed is reported for review by a scan that is still
\* running.  (ADR-009: such a page yields source_index_changed and a human
\* review; the code commits the new hash long before it prints them.)
ReviewIsAsked ==
    \A m \in unasked : \E p \in Pods : pod[p] # Nothing /\ m \in pod[p].review
=============================================================================
