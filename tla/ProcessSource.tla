--------------------------- MODULE ProcessSource ---------------------------
(***************************************************************************)
(* One durable source job from claim to result: ProcessSourceUseCase        *)
(* (application/processing.py) over HttpIngestor with its process-local     *)
(* ResponseCache (ingestion/fetcher.py, ingestion/cache.py), run by         *)
(* WorkerRunner.run_once (runtime/worker.py).  The bank's server is         *)
(* external: it redirects one registered URL, changes its pages and answers *)
(* conditional requests.                                                    *)
(*                                                                         *)
(* The job queue is what DurableJobs shows of it: a claim hands out a new   *)
(* token, an expired claim may be taken over at any time, and only the      *)
(* newest token may finish the job.  The write transaction is what          *)
(* CampaignStore shows of it: one atomic step.                              *)
(***************************************************************************)
EXTENDS Integers, FiniteSets

CONSTANTS
    Processes,      \* worker processes, each with a response cache of its own
    Jobs,           \* one per scan run: a job and its observation coincide
    Urls,           \* where the registered URL may redirect to
    Contents,       \* page bodies
    Etag,           \* Etag[u, c]: the validator u sends with c, or NoEtag
    NoEtag,
    JobAttempts,
    Nothing         \* no run, no cache entry, no document

\* A strong validator tells the bodies of one URL apart.  Two URLs may well
\* use the same validator.
ASSUME ProcessAssumption ==
    /\ JobAttempts \in Nat \ {0}
    /\ DOMAIN Etag = Urls \X Contents
    /\ \A u \in Urls : \A c, d \in Contents :
          Etag[<<u, c>>] = Etag[<<u, d>>] => c = d \/ Etag[<<u, c>>] = NoEtag

VARIABLES
    page,           \* the body each URL serves now
    route,          \* the URL the registered one redirects to now
    job,            \* status and attempts (attempts is also the claim's token)
    cache,          \* InMemoryResponseCache, lost with its process
    run,            \* the execution a process is in
    outcomes        \* committed persistence bundles

vars == <<page, route, job, cache, run, outcomes>>

FetchStatuses == {"success", "not_modified", "blocked", "failed"}
Dispositions  == {"succeeded", "failed", "retry"}

\* No result of a fetch stands for none.
ASSUME NothingAssumption == Nothing \notin FetchStatuses

Entries == [final_url : Urls, etag : {Etag[x] : x \in Urls \X Contents},
            content : Contents]

Runs == [job : Jobs, token : 1..JobAttempts,
         phase : {"resolving", "requesting", "cleaning", "persisting", "finishing"},
         entry : Entries \cup {Nothing},        \* read once, before the request
         url : Urls \cup {Nothing},
         status : FetchStatuses \cup {Nothing},
         content : Contents \cup {Nothing},     \* raw_sha256 of the artifact
         document : BOOLEAN,                    \* the bundle has a clean document
         record : BOOLEAN,                      \* ... and a campaign record
         disposition : Dispositions]

Outcomes == [job : Jobs, status : FetchStatuses, content : Contents \cup {Nothing},
             document : BOOLEAN, record : BOOLEAN, disposition : Dispositions]

TypeOK ==
    /\ page \in [Urls -> Contents]
    /\ route \in Urls
    /\ job \in [Jobs -> [status : {"queued", "running", "succeeded", "dead"},
                         attempts : 0..JobAttempts]]
    /\ cache \in [Processes -> Entries \cup {Nothing}]
    /\ run \in [Processes -> Runs \cup {Nothing}]
    /\ outcomes \subseteq Outcomes

Init ==
    /\ page \in [Urls -> Contents]
    /\ route \in Urls
    /\ job = [j \in Jobs |-> [status |-> "queued", attempts |-> 0]]
    /\ cache = [p \in Processes |-> Nothing]
    /\ run = [p \in Processes |-> Nothing]
    /\ outcomes = {}

In(p, phase) == run[p] # Nothing /\ run[p].phase = phase

Keep == UNCHANGED <<page, route, job, cache, outcomes>>

-----------------------------------------------------------------------------
(* The queue and the server.                                                *)

\* A queued job, or one whose lease has expired.  HttpIngestor.fetch reads the
\* cache before it asks the network.
Claim(p, j) ==
    /\ run[p] = Nothing
    /\ job[j].status \in {"queued", "running"}
    /\ job[j].attempts < JobAttempts
    /\ job' = [job EXCEPT ![j] = [status |-> "running", attempts |-> @.attempts + 1]]
    /\ run' = [run EXCEPT ![p] =
          [job |-> j, token |-> job[j].attempts + 1, phase |-> "resolving",
           entry |-> cache[p], url |-> Nothing, status |-> Nothing,
           content |-> Nothing, document |-> FALSE, record |-> FALSE,
           disposition |-> "retry"]]
    /\ UNCHANGED <<page, route, cache, outcomes>>

\* A lease that expired on the last attempt.
Sweep(j) ==
    /\ job[j].status = "running" /\ job[j].attempts = JobAttempts
    /\ job' = [job EXCEPT ![j].status = "dead"]
    /\ UNCHANGED <<page, route, cache, run, outcomes>>

ChangePage(u, c) ==
    /\ c # page[u]
    /\ page' = [page EXCEPT ![u] = c]
    /\ UNCHANGED <<route, job, cache, run, outcomes>>

ChangeRoute(u) ==
    /\ u # route
    /\ route' = u
    /\ UNCHANGED <<page, job, cache, run, outcomes>>

-----------------------------------------------------------------------------
(* HttpIngestor.fetch.                                                      *)

\* The redirect chain is discovered again, unconditionally.
FollowRedirects(p) ==
    /\ In(p, "resolving")
    /\ run' = [run EXCEPT ![p].phase = "requesting", ![p].url = route]
    /\ Keep

\* _finish_fetch_state: nothing to clean, the state itself is persisted.
FetchEnds(p, status, content, disposition) ==
    /\ run' = [run EXCEPT ![p].phase = "persisting", ![p].status = status,
                          ![p].content = content, ![p].disposition = disposition]
    /\ Keep

\* robots.txt, 401/403 and the like, or an access challenge, on either hop.
Blocked(p) ==
    /\ In(p, "resolving") \/ In(p, "requesting")
    /\ FetchEnds(p, "blocked", Nothing, "succeeded")

\* Transport and HTTP errors; some error codes are retryable.
FetchFails(p) ==
    /\ In(p, "resolving") \/ In(p, "requesting")
    /\ \E d \in {"retry", "failed"} : FetchEnds(p, "failed", Nothing, d)

\* Fault: the entry's validator is sent to whatever URL the chain ends at.
Validator_AnyUrl(p) ==
    IF run[p].entry = Nothing THEN NoEtag ELSE run[p].entry.etag

\* If-None-Match, only for the URL the entry came from.
Validator(p) ==
    IF run[p].entry = Nothing THEN NoEtag
    ELSE IF run[p].entry.final_url = run[p].url THEN run[p].entry.etag ELSE NoEtag

\* 304: the artifact repeats the entry's digest.
NotModified(p) ==
    /\ In(p, "requesting")
    /\ Validator(p) # NoEtag
    /\ Validator(p) = Etag[<<run[p].url, page[run[p].url]>>]
    /\ FetchEnds(p, "not_modified", run[p].entry.content, "succeeded")

\* 200: the entry is stored before anything is cleaned, extracted or persisted.
Fetched(p) ==
    LET u == run[p].url IN
    /\ In(p, "requesting")
    /\ cache' = [cache EXCEPT ![p] =
          [final_url |-> u, etag |-> Etag[<<u, page[u]>>], content |-> page[u]]]
    /\ run' = [run EXCEPT ![p].phase = "cleaning", ![p].status = "success",
                          ![p].content = page[u]]
    /\ UNCHANGED <<page, route, job, outcomes>>

-----------------------------------------------------------------------------
(* ProcessSourceUseCase.execute after a 200.                                *)

CleanFails(p) ==
    /\ In(p, "cleaning")
    /\ run' = [run EXCEPT ![p].phase = "persisting", ![p].disposition = "failed"]
    /\ Keep

\* Cleaned; the extraction abstains or yields a candidate and a record.
Extracted(p) ==
    /\ In(p, "cleaning")
    /\ \E record \in BOOLEAN :
          run' = [run EXCEPT ![p].phase = "persisting", ![p].document = TRUE,
                             ![p].record = record, ![p].disposition = "succeeded"]
    /\ Keep

\* The observation is committed with other content: ObservationConflictError.
Conflicts(p) ==
    \E o \in outcomes : /\ o.job = run[p].job /\ o.record
                        /\ o.content # run[p].content

\* _persist_and_record
Persist(p) ==
    /\ In(p, "persisting")
    /\ ~(run[p].record /\ Conflicts(p))
    /\ outcomes' = outcomes \cup
          {[job |-> run[p].job, status |-> run[p].status, content |-> run[p].content,
            document |-> run[p].document, record |-> run[p].record,
            disposition |-> run[p].disposition]}
    /\ run' = [run EXCEPT ![p].phase = "finishing"]
    /\ UNCHANGED <<page, route, job, cache>>

\* Fault: an execution that raised is finished with what it had decided.
Raises_Completes(p) ==
    /\ run[p] # Nothing /\ run[p].phase # "finishing"
    /\ run' = [run EXCEPT ![p].phase = "finishing"]
    /\ Keep

\* Any exception before the result: a policy violation, a failed extraction, an
\* observation conflict, a lost database connection, a heartbeat that could not
\* be written.  run_once retries the job and the process lives on.
Raises(p) ==
    /\ run[p] # Nothing /\ run[p].phase # "finishing"
    /\ run' = [run EXCEPT ![p].phase = "finishing", ![p].disposition = "retry"]
    /\ Keep

-----------------------------------------------------------------------------
(* run_once: complete or retry, fenced by the claim's token.                *)

OwnsJob(p) ==
    /\ job[run[p].job].status = "running"
    /\ job[run[p].job].attempts = run[p].token

\* complete() for every disposition but "retry".
FinishedStatus(p) ==
    IF run[p].disposition # "retry" THEN "succeeded"
    ELSE IF run[p].token < JobAttempts THEN "queued" ELSE "dead"

Finish(p) ==
    /\ In(p, "finishing") /\ OwnsJob(p)
    /\ job' = [job EXCEPT ![run[p].job].status = FinishedStatus(p)]
    /\ run' = [run EXCEPT ![p] = Nothing]
    /\ UNCHANGED <<page, route, cache, outcomes>>

\* A shutdown cancels the execution, gives the job back and ends the process.
Shutdown(p) ==
    /\ run[p] # Nothing /\ run[p].phase # "finishing" /\ OwnsJob(p)
    /\ job' = [job EXCEPT ![run[p].job].status =
                  IF run[p].token < JobAttempts THEN "queued" ELSE "dead"]
    /\ run' = [run EXCEPT ![p] = Nothing]
    /\ cache' = [cache EXCEPT ![p] = Nothing]
    /\ UNCHANGED <<page, route, outcomes>>

\* A crash, or LeaseLostError, which ends the process too.
Crash(p) ==
    /\ run[p] # Nothing \/ cache[p] # Nothing
    /\ run' = [run EXCEPT ![p] = Nothing]
    /\ cache' = [cache EXCEPT ![p] = Nothing]
    /\ UNCHANGED <<page, route, job, outcomes>>

-----------------------------------------------------------------------------

Next ==
    \/ \E p \in Processes, j \in Jobs : Claim(p, j)
    \/ \E j \in Jobs : Sweep(j)
    \/ \E u \in Urls, c \in Contents : ChangePage(u, c)
    \/ \E u \in Urls : ChangeRoute(u)
    \/ \E p \in Processes :
          \/ FollowRedirects(p) \/ Blocked(p) \/ FetchFails(p) \/ NotModified(p) \/ Fetched(p)
          \/ CleanFails(p) \/ Extracted(p) \/ Persist(p) \/ Raises(p)
          \/ Finish(p) \/ Shutdown(p) \/ Crash(p)

Spec == Init /\ [][Next]_vars

-----------------------------------------------------------------------------
(* Properties.                                                              *)

\* A 304 never brings back the bytes of another resource: the digest the
\* artifact repeats is that of the page the server has at the URL it answered
\* for, although redirects move and two URLs may share a validator.
NotModifiedIsCurrent ==
    [][\A p \in Processes :
          In(p, "requesting") /\ run'[p] # Nothing
             => (run'[p].status = "not_modified" =>
                    run'[p].content = page[run[p].url])]_vars

\* A job is succeeded only once the outcome of one of its executions, and not
\* a retryable one, is committed: no result is lost between persist() and
\* complete(), whatever crashes, raises or is taken over in between.
SuccessWasPersisted ==
    \A j \in Jobs : job[j].status = "succeeded" =>
        \E o \in outcomes : o.job = j /\ o.disposition # "retry"

\* What cache.py says of an entry, and what fetcher.py needs of a 304: the
\* bytes have been consumed by the processing pipeline, so the content of a
\* "not modified" outcome was cleaned and persisted before.
NotModifiedWasConsumed ==
    \A o \in outcomes : o.status = "not_modified" =>
        \E e \in outcomes : /\ e.status = "success"
                            /\ e.content = o.content
=============================================================================
