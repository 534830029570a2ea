# Verification of Katılım Analiz

Katılım Analiz follows the campaigns of Turkish participation banks. A scheduled
scan discovers campaign pages and enqueues one durable job per page; worker
processes fetch, clean and extract each page and write versioned campaign
records; an API serves, compares and answers questions about them, and browsers
follow a notification feed of changes. All state that lasts is in PostgreSQL.

This directory holds TLA+ models of that system, the TLC configurations that
check them on small instances, and proofs, checked by TLAPS, of theorems that
hold for every value of the constants. `PROJECT.json` maps every definition to
the lines it models, lists the hazards of the code with the properties that
watch them, and names the deviations found.

    tlc -config jobs_safety.cfg MCDurableJobs.tla      # one run
    tlapm DurableJobsProofs.tla                         # one module of proofs

Paths below are relative to `src/backend/src/katilim_analiz/`.

## Inventory

| Component | State | Operations | Hard parts | Correct when |
|---|---|---|---|---|
| Durable jobs, `storage/repositories.py` `JobRepository` | `durable_jobs` | enqueue, claim_next, renew, complete, fail | leases that expire under a live worker, `now()` frozen at BEGIN, SKIP LOCKED, attempt budget | one owner per claim, results of the latest claim, no job stranded, decided jobs final |
| Worker, `runtime/worker.py` | run loop, lease, heartbeat task, stop event | claim, execute with heartbeat, shutdown, retry, complete | three tasks race; crash anywhere; event loop stalls | a punctual worker keeps its lease; every job ends |
| Write transaction, `storage/write_adapter.py` | records, observations, coverage, outbox | persist | concurrent versions of one campaign, retries of old observations, lock order, partial failure | gapless version chain, one version per observation, one event per version |
| Notification feed, `OutboxRepository.add`, `storage/read_adapter.py`, `application/services.py`, `web/.../App.tsx` | `outbox_events`, feed sequence, browser cursor | add, list, poll | `nextval` is not commit-ordered; rollback gaps; paging | readers see a growing prefix and miss nothing |
| Outbox publisher leases, `OutboxRepository` | lease columns of the outbox | claim_next, mark_published, release | publishers that stall beyond their lease; no dead state; no caller yet | published under the last lease, never leased again |
| Read model, `storage/read_adapter.py` | none | latest, get, search, facets, coverage | which version is "latest"; search and its limit | partly modelled: served version, coverage, search |
| Source processing, `application/processing.py`, `runtime/adapters.py` | none | execute | every outcome must be persisted before the job completes | no lost outcome |
| HTTP collection, `ingestion/fetcher.py`, `ingestion/cache.py` | process-local response cache | fetch, retries, redirects | redirects that move, shared validators, 304 after a failed execution; retries times redirects times robots.txt | a 304 repeats the right, processed bytes; a fetch has an end |
| Request policy, `ingestion/policy.py`, `robots.py` | next allowed start per host, robots snapshots | acquire, back-off, decide | pacing under concurrency and cancellation; groups split over a robots.txt | starts are spaced; the longest rule of our groups decides |
| Campaign scan, `runtime/scanning.py`, `ingestion/discovery.py` | index hashes, monitored targets | scan, enqueue details | each step is a transaction of its own: failures and deaths between them, replaced and overlapping pods, targets shared by the sources of a bank | what is known is scheduled whatever fails; no scan spoils the next |
| Source registry, `runtime/registry.py`, `ingestion/registry.py`, `SourceRepository` | `source_registry` | load, validate, sync, upsert | versions compared as text, concurrent starts of several images, two files that must fit | rows are of one release; a page has one bank |
| Model client, `llm/client.py`, `llm/composer.py` | circuit breaker, semaphore | extract, compose | stale calls and the half-open probe, cancellation, shared deadline | at most one probe, service comes back |
| Model answers, `llm/prompt.py`, `contracts.py`, `cache.py` | bounded answer cache | ask, take an answer | what fits into a question, proposals outside it | partly modelled: no prompts, no cache |
| Extraction, merge and validation policy, `extraction/` | none | rules, hint, model merge, candidate, status | table hints that live on, facts bound by one reader and read again by another, ambiguity | a candidate replays; validated means stated, complete and not instructed |
| Comparison, normalization, `domain/` | none | compare, normalize | units, signatures, waivers, peers; decimal points, dates without a year | one scale per ranking; peers do not matter; numbers read back |
| Question answering, `application/answering.py`, `planning.py` | none | plan, retrieve, select, answer | search that is relaxed, precision restored elsewhere, a model's wording | answers keep to what the question names |
| Authentication, `auth/` | users, sessions, rate reservations | bootstrap, sign in, rotate, touch, revoke, reserve | two advisory locks, rows that change while one waits, stale clocks | windows hold, failures count, sign-out is final |
| API, CLI, export, demo, evaluation, infrastructure, web presentation | none of their own | — | — | not modelled |

How they interact: scan and CLI call `enqueue`; a worker claims a job and runs
`ProcessSourceUseCase.execute`, which calls the HTTP collection, the extraction
(with the model client behind it) and then `persist` in one transaction; the
worker then calls `complete` or `fail` in another. `persist` is not fenced by
the job lease: an execution whose lease was taken over may still commit, and
only the observation key makes that harmless. Readers see committed rows only.
A question is planned by rules, answered from validated records that the read
model finds, and compared with the same operators that the comparison page
uses. The bank registry is written by every process at its start; sign-ins and
the outbox publisher have storage operations but no caller in `src/` yet.

## Modules

| Module | Models | State and actions |
|---|---|---|
| `DurableJobs` | the job table with the workers that lease from it | `job` is the table; `pc`, `lease`, `beat`, `verdict`, `stop` are the worker's locals and tasks; a store call is a Begin step that freezes its clock (`age`) and a commit step; `Tick` is the clock |
| `JobQueue` | what the job table promises its callers | `record` is what is stored of a job, `has` the job each worker has, `late` the workers that may have lost touch; no clock, lease, token or transaction |
| `DurableJobsProofs`, `CampaignStoreProofs`, `ProcessSourceProofs`, `CampaignScanProofs`, `ModelCircuitProofs` | theorems about the module each is named after | |
| `AuthProofs` | theorems about `LoginRate`, `LoginAccount`, `AuthSessions` | |
| `ServiceProofs` | theorems about `HostPacing`, `SourceRegistry`, `OutboxLeases` | |
| `DecisionsProofs` | theorems about the operators of `Comparison`, `Normalization`, `Robots` and `RegistryFiles`, and what follows for `MCDecisions` | |
| `FeedLog` | what the feed promises | an append-only log and readers that show growing prefixes of it |
| `CampaignStore` | `persist` statement by statement, and the feed readers | committed tables `records`, `observations`, `coverage`, `events`; per transaction `pc`, `bundle`, `writes` (uncommitted rows), `pending`; the two advisory locks; `cursor`, `processed` per reader |
| `ProcessSource` | one job from claim to result: fetch, cache, clean, extract, persist, finish | `run` is the execution in a process; `cache` its response cache; `job`, `outcomes` the database; `page`, `route` the bank's server |
| `CampaignScan` | the scan of one bank's sources, a step per await | `targets`, `observed`, `queue` are the tables; `pod` the frame of `CampaignScanner` in each pod; `latest`, `ended` and `unasked` remember what was fetched, where each fetch ended, and what is not yet reported |
| `ModelCircuit` | circuit breaker, semaphore, deadline | the fields of `CircuitBreaker`; `call`, `age` per caller; `probing` remembers who was admitted as the probe |
| `HostPacing` | the requests to one host: pacing, retries, back-off, redirects, robots.txt snapshots | `nextAllowed`, `hostLock` are the rate limiter's; `fetching` the frame of each task between its awaits; any of them may be cancelled |
| `Robots` | what a robots.txt says of a path | operators: groups, rules, patterns, the decision by status |
| `SourceRegistry` | `sync_source_registry` of processes that start at once | `source` is the table, `sync` a transaction each, with the banks it has written |
| `RegistryFiles` | what the loaders of both registry files accept | operators: a file is the record its JSON gives |
| `OutboxLeases` | publishing the outbox | `events` are the rows, `publisher` the lease each believes to hold, `handedOn` what it did |
| `LoginRate` | the two sliding windows of sign-ins under advisory locks | `attempt` is a transaction with its locks and its stale clock, `reservations` the rows |
| `LoginAccount` | the administrator's row: bootstrap, failures, lockout | `account`, `signIn` |
| `AuthSessions` | rotation, touch and revocation of sessions | `sessions` the rows; `caller` a READ COMMITTED transaction: rows found, waited for, and looked at again |
| `Comparison` | `compare_campaigns` | operators: gates, signatures, missing values, ranks |
| `Normalization` | numbers, amounts, rates, terms, dates of a Turkish field | operators over what the patterns find |
| `ExtractionRules` | reading a page by rules, table hints included | operators over blocks of sentences with marks and values |
| `ModelMerge` | the question to the model, the answer that is taken, the facts that are merged | operators; extends `ExtractionRules` |
| `ValidationPolicy` | required fields, blocking issues, the status | operators |
| `Candidates` | one page from rules to candidate, second reading and status | composes the three above; `ExtractOne` is the pipeline |
| `Answering` | one question from plan to answer | extends `Comparison`; `AnswerTo` is `ChatService.answer` |
| `MC...` | instances for TLC | shared definitions for the configurations; `MCServices` lets one of the services run, or the fetches of a page, `MCAvailability` one of the queue, the circuit and the feed; `MCDecisions` asks one question of the operators |

The modules meet at narrow interfaces. `ProcessSource` sees the queue as tokens
that may be taken over at any time (what `DurableJobs` shows: `OneOwner`,
`ResultOfLatestClaim`) and the write transaction as one atomic step (what
`CampaignStore` shows). `CampaignStore` lets any number of transactions carry
the same observation, which is what zombies of `DurableJobs` do. The `queue` of
`CampaignScan` is what its calls of `Enqueue` leave in `DurableJobs`: a job per
dedupe key, which a second call does not touch (`TerminalIsFinal`). Definitions
marked `Fault:` are plausible slips of the code; each is used to confirm that a
property notices it, and none is part of a specification.

### Abstractions

* Instants in `DurableJobs` are kept relative to the database clock: a stored
  instant is `instant - now`, and an open transaction has an age. Only
  differences matter to the code, so the clock needs no bound; instants older
  than any open transaction are alike and saturate.
* A lease token is a fresh UUID in the code and the number of the claim in the
  models; `leased_by` is the same for every replica and fences nothing.
* `priority` is 0 and `max_attempts` the default for every caller, so neither
  is a variable. Jobs with equal instants may be claimed in either order.
* A page is its clean hash, its record hash and the status of its record;
  hashes are injective. Source verification is a step that may roll back.
* `add_fetch`, `add_document` and `add_candidate` insert content-addressed rows
  that nothing later in the transaction reads.
* In `CampaignScan` an index body is the set of links in it and URLs are numbers
  in sorting order, so that `max_links` cuts as the code does. There is one
  bank; the status and times of observations, which nothing reads, are left
  out. A raise outside of the `try` blocks ends the process, as a death does. A
  fetch follows redirects between the bank's hosts, and links and known targets
  are judged by where it ended: `Ends` says where a page may redirect to, `Near`
  which pages are on the host of such a URL and are not that URL.
* A text is what the patterns of the code find in it: marks, and the values the
  normalizers read from it. Two texts with the same finds are one. That cuts
  the regular expressions off, and nothing behind them: the order in which
  finds are looked at, vetoed and bound is the code's. Words of a question or a
  record are stems, so that the tolerance for suffixes is equality.
* A span quotes a whole sentence, or one mark, cell or amount of it; the byte
  budget of a prompt is a number of sentences (`MaxSentences`), and the room of
  an answer is counted in lengths of sentences (`MaxLength`).
* The gate before a model's wording looks at pairs of number and unit; numbers
  without a unit are left out. It allows, as the code does, what is in the text
  of a fact's value, in the title of its record and in the quote of its first
  piece of evidence, whether the number was read as a value or not. What a
  verdict displays of the winner is left out.
* An amount has its number and, if "kadar" follows it, is a bound as well
  (`bound`). Only a waived fee looks at that; every other reader takes a bound
  for the amount, in the model because it does in the code.
* The mechanism of a product has a rule that sets it (`MechanismOf`), its
  security has none; neither is a field that a model is asked for. In the
  records of `Comparison` they are inputs like the others.
* A block with instructions to a model is not read at all, and neither ends a
  table nor clears its hint: the rows below it are read under the header above
  it, as in the code. `CellsFollowTheirHeader` says it that way.
* In `ModelCircuit` the failure counters stop at their thresholds, since the
  code only asks whether they have reached them.

## Runs

| Run | Checks | Bounds |
|---|---|---|
| `jobs_safety` | `TypeOK`, `QueuedIsClaimable`, `OneOwner`, `ResultOfLatestClaim`, `PunctualKeepsLease`, `TerminalIsFinal`, `ImplementsJobQueue` | 2 jobs, 2 workers, 2 attempts, lease 5, heartbeat 1, retry 1, transactions of at most 1 tick |
| `availability` | `EveryJobEnds`, `OneProbe`, `ModelIsServed`, `FeedComplete`, `ImplementsFeedLog` | 1 job, 2 workers; 3 callers, 2 slots, thresholds 2 and 3, recovery 3, deadline 2, and waiting calls may be cancelled; 3 campaigns, 2 transactions, 1 reader with pages of 2, 3 positions |
| `store_versions` | `VersionChain`, `OneVersionPerObservation`, `FeedTellsHistory`, `ObservationIsOfLatest` | 1 campaign, 3 observations, 3 page renderings, 2 transactions, 3 positions |
| `scan_safety` | `ScanIsWhole`, `ScheduledIsMonitored`, `IndexStaysGreen`, `HashIsOfLatestSuccess` | 2 pods of one or two scan ids, an index with 2 detail pages and a link limit of 1, 2 static pages (one below the index's prefix), 2 index bodies, 2 final URLs of the index on one host (itself, or one of its detail pages) |
| `services` | `WindowsHold`, `SomeAttemptProceeds`, `EveryFailureCounts`, `RevokedIsFinal`, `StartsAreSpaced`, `RequestsAreBounded`, `OneReleaseAtATime`, `PublishedByLastLease`, `SuccessWasPersisted`, `NotModifiedIsCurrent` | 2 actors in each service; 2 user names and 1 client whose lock keys cross; 6 failures; 2 sessions; 2 attempts, 1 redirect and 1 tick of crawl delay; 3 releases, 2 of a day with numbers 9 and 10; 2 events with 2 attempts; 2 processes, 1 job with 2 attempts, 2 URLs sharing 2 validators, 2 bodies |
| `decisions` | `OneScale`, `PeersKeepTheOrder`, `NumbersReadBack`, `WindowsInOrder`, `TablesAreReadBelow`, `CandidatesReplay`, `ValidatedOnEvidence`, `AnswersKeepToTheQuestion`, `RobotsAreObeyed`, `PagesHaveTheirBank` | 2 or 3 records of a comparison; numbers up to 7 digits; dates around the new year and February; tables of 4 rows, or of 3 with quarantined blocks and odd headers among them; pages of up to 4 blocks with an answer of up to 2 proposals; 3 records, plans of 2, 3 citations, room for 4, 3 wordings; robots.txt files of 4 lines; 2 banks, 2 or 3 sources |

What the three runs of several parts show. `availability` takes one of three
parts, each under the fairness of its own module: the queue, the circuit and
the feed. Its properties are those of `DurableJobs`, `ModelCircuit` and
`CampaignStore`; `ModelIsServed` is `ModelComesBack` in the behaviours in which
the circuit is the part that runs. `services` takes one service at a time
through every interleaving of two actors: a reservation counted under one lock
only would let a window overflow; a session found before it was revoked is
looked at again once its row is free; a task that is cancelled while it holds
the host's lock leaves the spacing as it was; a process with an older image
never overwrites part of a newer release; a publisher that comes back after its
lease changes nothing; and a page that is fetched through a moving redirect is
never answered with the bytes of another. `decisions` is one step deep: an input is chosen,
the operators decide, and the property relates what goes in to what comes out
(an invariant of the question, or a property of the step that asks it; for a
page it speaks of every answer a model may give).
What makes it more than a table of results is that most properties join two
parts that the code keeps apart: what one function binds another one reads
again (`CandidatesReplay`), the search relaxes what the selection must restore
(`AnswersKeepToTheQuestion`), one file must fit another
(`PagesHaveTheirBank`), and a pair is compared with and without its peers
(`PeersKeepTheOrder`).

Why the bounds are enough: two attempts give a first claim, a take-over and an
exhausted budget; a lease of 5 against a heartbeat of 1 and transactions of 1
is the smallest that satisfies `LeaseOutlivesHeartbeat`, so the margins are
tight; three observations and three renderings give A, B, A and a retry between
them, and an equal record from another rendering; three positions and pages of
two give a full page, a gap after a rollback and a last page that is read
again; two URLs that share validators are what makes a 304 ambiguous; two pods
are a scan and its replacement, or two scans that overlap, and a static page on
each side of the prefix is what ownership of targets can go wrong with. Two
transactions of one user and a client in common are all that two locks need to
be taken in both orders, and the digests lock in the opposite order of their
names; a sixth failure is one past the threshold of five; releases 9 and 10 of
a day are where text and number disagree; a third record is the smallest peer;
three rows below a heading are room for a header, a quarantined block and a row
of values; a wording with a sum that is only quoted is where the gate differs
from the facts; plans of 2 over 3 records, with fewer citations and less room than facts, make
every limit of an answer bite.

The bounds in guards are `MaxTxnAge` (no transaction outlives it; the code's
statements are short and unbounded ones would only delay everything else),
`MaxSequence` (how often the feed sequence is advanced), `MaxPods` (how many
pods of scans are started; the run stops there), the clocks `MaxRateClock`,
`MaxLoginClock`, `MaxAuthClock`, `MaxPaceClock` and `MaxOutboxClock`, the
counts `MaxReservations`, `MaxFailures`, `MaxSessions` and `OutboxSize`, and
the attempts of `DurableJobs` and `ProcessSource`, which are the code's own. In
`availability` a call's deadline is below the recovery time; what `OneProbe`
needs is in "Proofs". `CampaignStore`, `ProcessSource`, `ModelCircuit` (`CircuitTypeOK`) and `CampaignScan` have a type
invariant that their runs do not check; it is proved.

### Deviations found

Each of these runs ends in a violation: the code does not do what the quoted
place says.

| Run | What TLC shows |
|---|---|
| `fetch_consumed` | `fetch` stores the response cache entry before the body is processed. An execution that raises later (`runtime/worker.py:165-176` retries it and the process lives on) is followed by a retry that gets 304 and completes the job as not modified. `ingestion/cache.py:23-26` says the entry's identity "already consumed these bytes". |
| `circuit_cancelled` | A cancelled probe leaves `probe_in_flight` set for ever; later calls are refused because a probe "is already running" (`llm/client.py:172`). |
| `scan_redirect` | An index whose redirect moves from one of the bank's hosts to another refuses the targets it recorded before, because they are compared with the host where this fetch ended (`runtime/scanning.py:306`, `ingestion/discovery.py:109-116`). It fails and records no others, so every later scan refuses them as well until the redirect moves back. The comments speak of "targets this index itself discovered" and of "the registered index host/path", and neither has changed. Every bank of the registry has more than one allowed host. |
| `robots_delay` | A `Crawl-delay` between two agent lines ends their list (`ingestion/robots.py:137`). In `User-agent: katilim`, `Crawl-delay: 5`, `User-agent: *`, `Disallow: /` the crawler has a group without rules and is let in. `ingestion/robots.py:184` claims the group and rule precedence of RFC 9309, by which other records do not interfere (2.2.4) and the rule is for both agents. |
| `bounds_read` | "700 TL'ye kadar ParafPara" is a reward of exactly 700 TRY, since `normalize_money` (`domain/normalization.py:324-411`) does not look for words that make an amount a bound. `extraction/rules.py:1026-1028` says that bounds fail normalization and the field stays unresolved. The record may be validated with it: for `ValidatedOnEvidence` a bound is a stated sum. |
| `scan_review_lost` | A pod that dies after it committed a collection's new hash takes `review_required` with it; its replacement sees no change. ADR-009:64-65 promises the review. |

Some more things the models show, which no text of the repository denies and
which are therefore hazards in `PROJECT.json` and no findings. Records with
equal values share a rank, and the answer calls the one whose id comes first
more advantageous (`application/answering.py:456`). The citations of an answer
are limited together, so that a later record's sentence may have none
(`application/answering.py:566`). The rows of a question are cut to the plan's
limit before the name of a sheet is looked at, so that a matching record may be
missed (`storage/read_adapter.py:192`). The two orders of versions, by number
where they are written and by fetch time where they are read, and the coverage
count of overlapping transactions are of that kind too.

### Fairness

* `availability`, the queue: the clock runs; a running process takes its next step and an
  execution ends (weak fairness; the model client and the fetcher have
  deadlines). A worker that is restarted again and again gets a claim through
  in the end (strong fairness of the claim's steps: the orchestrator restarts
  the process, and a crash loop that never reaches its first claim is an
  outage, not a behaviour of the code). Crashes, stalls and signals may happen
  for ever.
* `availability`, the circuit: calls keep coming, deadlines end them, the event
  loop serves a caller whose turn it is, and time passes. Cancellation of a
  running call is left out of this run because `circuit_cancelled` shows what it
  does.
* `availability`, the feed: only that a browser polls (`refetchInterval` of
  15 s).
* The other runs check safety and state no fairness.

## Proofs

Every safety property of the runs about components with a state (`jobs_safety`,
`availability`, `store_versions`, `scan_safety`, `services`) is a theorem, for every value of the constants that
satisfies the named assumption of the module, and none of the bounds of an
instance. Each proof has one shape: an inductive invariant (`IInv`, or one for
each part of `AuthProofs` and `ServiceProofs`) that `Init` establishes, every
action preserves, with a lemma for each action or kind of action, and that
implies the property. Each invariant was checked by TLC on the instances of the
runs before it was proved. The assumptions say what a configuration or a
loader of the code makes sure of; TLC evaluates them in every run.

**Durable jobs** (`DurableJobsProofs`): `TypeCorrect`, `QueuedStaysClaimable`,
`Fencing`, `LatestResult`, `HeartbeatsKeepLease`, `TerminalStaysFinal`,
`TableImplementsQueue`.
`TypeOK` is inductive alone. Fencing needs more than its own statement: a lease
in memory was handed out by a claim of that row, so its token is at most the
row's `attempts`; while a claim is open the row still has the attempts it was
selected with, because the row lock keeps every other statement away; and the
token of a running row is its number of attempts. Two holders of one token
would be two claims of one attempt. That invariant also gives the result
property, since `complete` demands the current token. The heartbeat theorem
adds a potential: for a punctual worker the time left on the lease is at least
what the phase of its heartbeat still needs, `HeartbeatEvery` plus one
transaction for each of the claim, the cancelled renewal and the final
statement, which is where `LeaseOutlivesHeartbeat` comes from. That assumption
is stronger than the check in `WorkerRunner.__init__` (heartbeat shorter than
lease); the deployed values, 30 s and 120 s, satisfy it while a transaction
takes less than 30 s.

`TableImplementsQueue` sums these up as a refinement. In `JobQueue` there is no
time: a worker has a job, falls behind or not, and decides the job or forgets
it; a job is taken from a worker only if that worker has fallen behind; a job
is given up only when nobody who keeps up has it and its attempts are used. The
mapping gives a worker the job whose current token it holds, and counts it as
behind when it is not `punctual`. Every transaction is then one step of the
queue or none, including `claim_next`, which may bury any set of exhausted jobs
and take another one in the same commit. The step that a take-over finds its
job abandoned is the heartbeat theorem; that the new owner is not behind needs
one more invariant, `FreshInv`: outside an execution a worker counts as
punctual. `late` is only what a worker may have lost: the queue lets one that
fell behind still decide its job while nobody has taken it, as the table does.

**Write transaction and feed** (`CampaignStoreProofs`): `StoreTypeCorrect`,
`VersionsChain`, `OneVersionEach`, `FeedIsHistory`, `FeedNeverSkips`,
`ObservationOfLatest`, and `StoreImplementsFeed`, the refinement of `FeedLog`
(the steps; its liveness stays with TLC). The invariant ties the uncommitted
rows of a transaction to what it may still rely on: between its statements no
other transaction commits to its campaign, since that one would need the
advisory lock of the campaign (`LockInv`), so the version it computed is still
the next one and the record it looked at still the latest (`WritesInv`). An
event that has a position and is not committed belongs to the holder of the
global lock, and its position is above all committed ones (`EventInv`); this
is why no cursor can have passed it. A reader's page starts with what it has
shown behind its cursor (`ReaderInv`).

**Source processing** (`ProcessSourceProofs`): `ProcessTypeCorrect`,
`SuccessIsPersisted`, `NotModifiedCurrent`. An execution that is about to
complete its job has an outcome in the database (`ResultInv`), whichever other
execution of the job put it there. A cache entry, and a copy of it that an
execution took before its request, tell the truth about the body that had this
validator at this final URL; a 304 is then about those bytes. It rests on
`ProcessAssumption`: validators tell the bodies of one URL apart, as RFC 9110
demands of a server, and may well be shared by two URLs.

**Campaign scan** (`CampaignScanProofs`): `ScanTypeCorrect`,
`OnlyMonitoredScheduled`, `HashOfLatest`, `IndexGreen`, `WholeScan`. The frame
of a pod (`Frame`) says for every phase where what was due and what was seen is
now: in the queue already, or in the part of the list the source is still going
to enqueue; other pods only add targets and jobs. `Green` says of the table
that a target an index recorded is one that some successful fetch of it accepted
where it ended, so that a fetch that ends on the same host and at no target
accepts it too. `IndexGreen` says no more than that: an index whose own fetches
end on different hosts does refuse its targets (`scan_redirect`). It
rests on `ScanAssumption`: no index is itself a page of another source. The
loader makes sure of that for two indexes (`runtime/registry.py:303`); of an
index and a curated page it holds for the registry that is shipped, and a
registry with such a pair could make its index fail scan after scan.

**Model client** (`ModelCircuitProofs`): `OneProbeAtATime`, under the condition
that calls take turns (`Serial`, the default `MODEL_CONCURRENCY=1` as far as
extraction goes) or that every call ends before the circuit half-opens
(`Prompt`). The condition is needed: the invariant says that a running call
which is not the probe was admitted before the circuit opened and has a
deadline that is counted from an earlier time, so that it is over by the end of
the recovery. Without it TLC finds two probes (2 slots, recovery 1, deadline
5): a call of before ends beside the probe, `success` or `failure` clears
`probe_in_flight` for a probe that is not its own, and a second one is let in.
The settings do allow it: `config.py:71` accepts a deadline of 600 s and
`config.py:73` four calls at once, the recovery is fixed at 120 s
(`llm/client.py:150`), and the deployed deadline of 120 s leaves no margin.

**Authentication** (`AuthProofs`): `SignInsPerWindow`, `NoCircleOfAttempts`,
`FailuresCounted`, `SignOutIsFinal`.
For the windows, an attempt that was allowed still is when it writes
(`StillAllowed`): between the two statements it holds the locks of its user
name and its client, and whoever reserves for either needs the same lock, also
when two digests collide on one key. Rows that were pruned are in no window of
any attempt, open or to come (`PrunedIsPast`), since an attempt's clock is
never ahead of the clock there is. Attempts cannot wait in a circle because
keys are taken from the smaller to the larger (`LocksInOrder`): of all keys
that are held, the holder of the largest misses none that is taken. Failures
are counted because what a sign-in read of the account is still what is there
(`ReadIsCurrent`), by the lock of the account's row. A sign-out is final because
a row that is locked is not revoked, and it is looked at again after every wait
(`HeldIsLive`).

**Pacing, registry, outbox** (`ServiceProofs`): `HostIsPaced`,
`FetchIsBounded`, `ReleasesAreWhole`, `LastLeasePublishes`.
Who has waited for the host's lock has an instant that is not before the end of
the last interval (`Limiter`). What a fetch has sent is bounded by the calls
that are over and the attempts of the one it is at (`Within`). A transaction of
the registry has written the banks of its release up to where it is, no other
one has written them, and none of them is of a later release
(`WritesInOrder`); with the lemma that versions are totally ordered as text
(`VersionOrder`: "10" comes before "9", and that is an order too), a commit
puts a whole release there and never goes back. The token of a row's lease is
its number of attempts (`RowIsLeased`), so a publisher whose token still fits
is the last one that was given the event.

**Rankings and windows** (`DecisionsProofs`). These are functions, so the
theorems are about their arguments: any text with any dates in it
(`WindowsAreAlwaysOrdered`), any number of records with any lists of rates,
terms, fees and rewards (`RanksAreOnOneScale`, `PeersNeverReverse`). The three
about `Spec` (`WindowsStayInOrder`, `ScalesStayOne`, `OrderIsKept`) say that
what a run asks is among those (`Meant`, the invariant) and name the property of
the run. For the windows, a missing year that is found from the other date
leaves less than a year between the two (`YearsTurn`). For the scale, whoever
is ranked has exactly one value with the one signature all share
(`RatesRanked`, `FeesRanked`, `RewardsRanked`), and a signature fixes the unit
(`FeesHaveUnits`, `RewardsHaveUnits`). For the peers, ranks tell two records
apart exactly when their values do, whoever else is ranked
(`RanksFollowKeys`); so it is left to show that a record brings the same value
to both comparisons. For rates and rewards a signature that all share is one the
two share. For fees it need not be: a third record may make all agree on a
price that the two only waive. `SameFeeOrWaived` shows that then both of them
waive it in both comparisons, and rank alike. What is asked of a record
(`IsRecord`) is what the readers of pages make: amounts and percents are not
negative, terms have at most 1200 months (`domain/normalization.py:612`), and a
reward has points when it is of that kind and else money or a rate
(`extraction/rules.py:1010`, `extraction/model_merge.py:128`). The contract
alone (`contracts/models.py:236`) would let a reward have both, and its
signature would then name one unit while the other is ranked.

**Numbers** (also `DecisionsProofs`): `NumbersAlwaysReadBack`, and
`NumbersStayReadBack` for what the run asks. A number of any length is meant,
in groups of three digits with one kind of separator, with any decimals after a
comma (`IsNumberText`). Taking the spaces out makes one group of the groups
between them and leaves dots where they are, so it is a number with dots again
(`CompactWritesTheSame`); in such a number the only comma stands before the
decimals, and a single dot is never taken for a decimal one since three digits
follow it (`CommaIsTheDecimalSeparator`); and what the groups write is what is
added up (`WholeIsGlued`). Numbers in the code are Decimals of 28 digits, those
of the model have no end.

**robots.txt** (also `DecisionsProofs`): `LongestRuleAlwaysDecides`, and
`RobotsStayObeyed` for what the run asks. The property reads a file as RFC 9309
has it, whatever other lines stand in it: each rule stands under the agents of the lines right before its group,
the rules of all groups for the crawler count together, those for everybody
only if there are none, and the longest that matches decides. The parser
reaches that from line to line, for files in which no `Crawl-delay` stands
between two agent lines without a rule there as well (`DelaysKeepAside`): in
those it differs from the RFC (`robots_delay`). The proof is an invariant over the lines read
so far: the groups it has finished, with the one it is in, hold exactly the
rules of those lines, each with the agents it stands under. The file is of any
length, with any lines in any order; a line names one agent if it is a line of
that field, and none otherwise (`IsRobotsFile`), as splitting a line makes it.

**Registry files** (also `DecisionsProofs`): `PagesBelongToOneBank`, and
`PagesKeepTheirBank` for what the run asks. Any two files, with any number of
banks and sources, that their loaders accept give every page to one bank. A host
is permitted by one bank only (`OneBankOfAHost`), the bank of a source permits
the host of each of its pages (`PagesArePermitted`), and the bank that is looked
up by name or by host is one that fits (`FoundByName`, `FoundByHost`). That no
bank is left out is a matter of counting: the rows where a bank's sources begin
are as many as the banks, and the n-th of them is of the n-th bank, so that
every bank has such a row (`EveryGroupBegins`). No bound on the number of banks
is used, and neither is that their names differ.

Not proved, and why. Liveness (`EveryJobEnds`, `ModelIsServed`, the fair part
of `ImplementsFeedLog`) is out of the prover's reach. The runs that end in a
violation have nothing to prove. In `HostPacing` the instant a fetch wakes up
has no type in the invariant but where it matters: the back-off is a power of
two, and the type of `2 ^ n` is not among the facts the provers have. The
theorems about sequences of any length (robots.txt, numbers) are inductions all
the same: the least line, or group, at which the claim fails is one at which it
does not (`Least`), which needs no operator as a parameter. It needs recursive
functions, though, and pages, tables, candidates and answers are read by folds
over blocks and rows: `TablesAreReadBelow`, `CandidatesReplay`,
`ValidatedOnEvidence` and `AnswersKeepToTheQuestion` stay with TLC.

## Not modelled, and why

Regular expressions over Turkish text, HTML cleaning, prompts and cryptography
are data processing without state: the models begin with what they find, and
say nothing about what they miss. PostgreSQL's own guarantees (row and advisory
locks, atomic commit, unique indexes) are assumed. The syntax and address
checks of URLs only refuse a target. The model's answer cache returns what the
same question got before. The split of one bank's listing page into segments,
list filters, facets and keyset pages, the preview of a page, the web client
beyond its poll, the API's formatting, schema migrations, the batch commands
and the offline tools are left out. `PROJECT.json` lists every component with
its reason.

## What could follow

1. The readers of pages as recursive functions in place of folds, for proofs of
   what they bind (`CandidatesReplay`, `TablesAreReadBelow`) for pages of any
   length.
2. Which fields a validated record has (`ValidationPolicy`) and which records
   an answer keeps (`Answering`), which need no fold but records of many fields.
3. The liveness of the queue as part of what `DurableJobs` implements; the run
   `availability` checks it for one job.
