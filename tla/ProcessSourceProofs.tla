------------------------ MODULE ProcessSourceProofs ------------------------
(***************************************************************************)
(* Proofs about ProcessSource, for any sets of processes, jobs, URLs and    *)
(* contents, any validators and any number of attempts.                     *)
(***************************************************************************)
EXTENDS ProcessSource, TLAPS

\* The validator of an entry is the one its URL sends with its content.
IsResponse(e) == e # Nothing => e.etag = Etag[<<e.final_url, e.content>>]

\* What an execution knows at each of its phases.
RunInv(r) ==
    /\ r \in Runs
    /\ IsResponse(r.entry)
    /\ r.phase = "requesting" => r.url \in Urls
    /\ r.phase \in {"resolving", "requesting"} => r.status = Nothing
    /\ r.phase \in {"cleaning", "persisting"} => r.status \in FetchStatuses

\* An execution that is to complete its job has persisted its outcome.
ResultInv(r) ==
    r.phase = "finishing" /\ r.disposition # "retry" =>
        \E o \in outcomes : o.job = r.job /\ o.disposition # "retry"

IInv ==
    /\ TypeOK
    /\ \A p \in Processes : IsResponse(cache[p])
    /\ \A p \in Processes : run[p] # Nothing => RunInv(run[p]) /\ ResultInv(run[p])
    /\ SuccessWasPersisted

\* Init establishes the invariant.
LEMMA InitIInv == Init => IInv
  <1> SUFFICES ASSUME Init PROVE IInv
    OBVIOUS
  <1>1. TypeOK
    BY ProcessAssumption DEF Init, TypeOK
  <1>2. \A p \in Processes : cache[p] = Nothing /\ run[p] = Nothing
    BY DEF Init
  <1>3. SuccessWasPersisted
    BY DEF Init, SuccessWasPersisted
  <1> QED BY <1>1, <1>2, <1>3 DEF IInv, IsResponse

\* A step of one execution that leaves the queue, the cache and the outcomes
\* as they are.
LEMMA RunStepIInv ==
    ASSUME IInv, Keep, NEW p \in Processes, NEW r,
           run' = [run EXCEPT ![p] = r],
           RunInv(r), ResultInv(r)
    PROVE  IInv'
  <1>0. /\ TypeOK /\ SuccessWasPersisted
        /\ UNCHANGED <<page, route, job, cache, outcomes>>
    BY DEF IInv, Keep
  <1>1. r \in Runs /\ run \in [Processes -> Runs \cup {Nothing}]
    BY <1>0 DEF RunInv, TypeOK
  <1>2. TypeOK'
    BY <1>0, <1>1 DEF TypeOK
  <1>3. \A q \in Processes : IsResponse(cache[q])'
    BY <1>0 DEF IInv, IsResponse
  <1>4. ASSUME NEW q \in Processes, run'[q] # Nothing
        PROVE  RunInv(run'[q])  /\ ResultInv(run[q])'
    <2>1. CASE q = p
      <3>1. run'[q] = r
        BY <1>1, <2>1
      <3> QED BY <1>0, <3>1 DEF ResultInv
    <2>2. CASE q # p
      <3>1. run'[q] = run[q]
        BY <1>1, <2>2
      <3> QED BY <1>0, <1>4, <3>1 DEF IInv, ResultInv
    <2> QED BY <2>1, <2>2
  <1>5. SuccessWasPersisted'
    BY <1>0 DEF SuccessWasPersisted
  <1> QED BY <1>2, <1>3, <1>4, <1>5 DEF IInv, RunInv, IsResponse

-----------------------------------------------------------------------------
(* The queue and the server.                                                *)

\* A claim starts an execution with what the cache holds.
LEMMA ClaimIInv ==
    ASSUME IInv, NEW p \in Processes, NEW j \in Jobs, Claim(p, j)
    PROVE  IInv'
  <1> DEFINE r == [job |-> j, token |-> job[j].attempts + 1, phase |-> "resolving",
                   entry |-> cache[p], url |-> Nothing, status |-> Nothing,
                   content |-> Nothing, document |-> FALSE, record |-> FALSE,
                   disposition |-> "retry"]
             jb == [status |-> "running", attempts |-> job[j].attempts + 1]
  <1>0. /\ TypeOK
        /\ job[j].status \in {"queued", "running"} /\ job[j].attempts < JobAttempts
        /\ job' = [job EXCEPT ![j] = jb]
        /\ run' = [run EXCEPT ![p] = r]
        /\ UNCHANGED <<page, route, cache, outcomes>>
    BY DEF IInv, Claim
  <1>1. /\ job[j] \in [status : {"queued", "running", "succeeded", "dead"},
                       attempts : 0..JobAttempts]
        /\ cache[p] \in Entries \cup {Nothing}
    BY <1>0 DEF TypeOK
  <1>2. job[j].attempts + 1 \in 1..JobAttempts
    BY <1>0, <1>1, ProcessAssumption
  <1>3. r \in Runs
    BY <1>1, <1>2 DEF Runs, Dispositions
  <1>4. RunInv(r) /\ ~(r.phase = "finishing")
    BY <1>3 DEF RunInv, IInv
  <1> HIDE DEF r
  <1>5. jb \in [status : {"queued", "running", "succeeded", "dead"}, attempts : 0..JobAttempts]
    BY <1>2, ProcessAssumption
  <1>6. jb.status = "running"
    OBVIOUS
  <1> HIDE DEF jb
  <1>7. TypeOK'
    BY <1>0, <1>3, <1>5 DEF TypeOK
  <1>8. \A q \in Processes : IsResponse(cache[q])'
    BY <1>0 DEF IInv, IsResponse
  <1>9. ASSUME NEW q \in Processes, run'[q] # Nothing
        PROVE  RunInv(run'[q]) /\ ResultInv(run[q])'
    <2>1. run'[q] = IF q = p THEN r ELSE run[q]
      BY <1>0 DEF TypeOK
    <2> QED BY <1>0, <1>4, <1>9, <2>1 DEF IInv, ResultInv
  <1>10. SuccessWasPersisted'
    <2> SUFFICES ASSUME NEW i \in Jobs, job'[i].status = "succeeded"
                 PROVE  \E o \in outcomes : o.job = i /\ o.disposition # "retry"
      BY <1>0 DEF SuccessWasPersisted
    <2>1. i # j /\ job'[i] = job[i]
      BY <1>0, <1>6 DEF TypeOK
    <2> QED BY <2>1 DEF IInv, SuccessWasPersisted
  <1> QED BY <1>7, <1>8, <1>9, <1>10 DEF IInv, RunInv, IsResponse

\* A step that changes the state of a job to one that is not "succeeded", and
\* perhaps ends the execution of a process, keeps the invariant.
LEMMA JobStepIInv ==
    ASSUME IInv, NEW j \in Jobs, NEW status \in {"queued", "running", "dead"},
           job' = [job EXCEPT ![j].status = status],
           UNCHANGED <<page, route, outcomes>>,
           \A p \in Processes : run'[p] = run[p] \/ run'[p] = Nothing,
           \A p \in Processes : cache'[p] = cache[p] \/ cache'[p] = Nothing,
           run' \in [Processes -> Runs \cup {Nothing}],
           cache' \in [Processes -> Entries \cup {Nothing}]
    PROVE  IInv'
  <1>0. TypeOK
    BY DEF IInv
  <1>1. job' \in [Jobs -> [status : {"queued", "running", "succeeded", "dead"},
                           attempts : 0..JobAttempts]]
    BY <1>0 DEF TypeOK
  <1>2. TypeOK'
    BY <1>0, <1>1 DEF TypeOK
  <1>3. \A q \in Processes : IsResponse(cache[q])'
    BY DEF IInv, IsResponse
  <1>4. ASSUME NEW q \in Processes, run'[q] # Nothing
        PROVE  RunInv(run'[q]) /\ ResultInv(run[q])'
    BY <1>4 DEF IInv, ResultInv
  <1>5. SuccessWasPersisted'
    <2> SUFFICES ASSUME NEW i \in Jobs, job'[i].status = "succeeded"
                 PROVE  \E o \in outcomes : o.job = i /\ o.disposition # "retry"
      BY DEF SuccessWasPersisted
    <2>1. i # j
      BY <1>0 DEF TypeOK
    <2>2. job'[i] = job[i]
      BY <1>0, <2>1 DEF TypeOK
    <2> QED BY <2>2 DEF IInv, SuccessWasPersisted
  <1> QED BY <1>2, <1>3, <1>4, <1>5 DEF IInv, RunInv, IsResponse

\* A job of which every attempt expired is dead.
LEMMA SweepIInv ==
    ASSUME IInv, NEW j \in Jobs, Sweep(j)
    PROVE  IInv'
  <1>1. run' \in [Processes -> Runs \cup {Nothing}] /\ cache' \in [Processes -> Entries \cup {Nothing}]
    BY DEF IInv, TypeOK, Sweep
  <1> QED BY <1>1, JobStepIInv DEF Sweep

\* The bank changes what it serves.
LEMMA ServerIInv ==
    ASSUME IInv, page' \in [Urls -> Contents], route' \in Urls,
           UNCHANGED <<job, cache, run, outcomes>>
    PROVE  IInv'
  <1>1. TypeOK'
    BY DEF IInv, TypeOK
  <1>2. \A q \in Processes : IsResponse(cache[q])'
    BY DEF IInv, IsResponse
  <1>3. \A q \in Processes : run'[q] # Nothing => RunInv(run'[q]) /\ ResultInv(run[q])'
    BY DEF IInv, ResultInv
  <1>4. SuccessWasPersisted'
    BY DEF IInv, SuccessWasPersisted
  <1> QED BY <1>1, <1>2, <1>3, <1>4 DEF IInv, RunInv, IsResponse

-----------------------------------------------------------------------------
(* HttpIngestor.fetch.                                                      *)

\* An execution in a phase has what a record of Runs has.
LEMMA RunOf ==
    ASSUME IInv, NEW p \in Processes, run[p] # Nothing
    PROVE  RunInv(run[p]) /\ ResultInv(run[p]) /\ run[p] \in Runs
  BY DEF IInv, RunInv

\* The redirect chain ends at a URL of the bank.
LEMMA ResolveIInv ==
    ASSUME IInv, NEW p \in Processes, FollowRedirects(p)
    PROVE  IInv'
  <1> DEFINE r == [run[p] EXCEPT !.phase = "requesting", !.url = route]
  <1>1. /\ run[p] # Nothing /\ run[p].phase = "resolving"
        /\ run' = [run EXCEPT ![p] = r] /\ Keep
    BY DEF FollowRedirects, In
  <1>2. /\ RunInv(run[p]) /\ run[p] \in Runs
    BY <1>1, RunOf
  <1>3. route \in Urls
    BY DEF IInv, TypeOK
  <1>4. r \in Runs
    BY <1>2, <1>3 DEF Runs
  <1>5. RunInv(r) /\ ResultInv(r)
    BY <1>1, <1>2, <1>3, <1>4 DEF RunInv, ResultInv, Runs
  <1> HIDE DEF r
  <1> QED BY <1>1, <1>5, RunStepIInv

\* The fetch ends with a status and the content that belongs to it.
LEMMA FetchEndsIInv ==
    ASSUME IInv, NEW p \in Processes, run[p] # Nothing,
           NEW status \in FetchStatuses, NEW content \in Contents \cup {Nothing},
           NEW disposition \in Dispositions,
           FetchEnds(p, status, content, disposition)
    PROVE  IInv'
  <1> DEFINE r == [run[p] EXCEPT !.phase = "persisting", !.status = status,
                                 !.content = content, !.disposition = disposition]
  <1>1. run' = [run EXCEPT ![p] = r] /\ Keep
    BY DEF FetchEnds
  <1>2. /\ RunInv(run[p]) /\ run[p] \in Runs
    BY RunOf
  <1>4. r \in Runs
    BY <1>2 DEF Runs
  <1>5. RunInv(r) /\ ResultInv(r)
    BY <1>2, <1>4 DEF RunInv, ResultInv, Runs
  <1> HIDE DEF r
  <1> QED BY <1>1, <1>5, RunStepIInv

\* A 304 is of an entry of the URL that was asked for, and of the page that
\* this URL has now.
LEMMA NotModifiedContent ==
    ASSUME IInv, NEW p \in Processes, NotModified(p)
    PROVE  /\ run[p] # Nothing /\ run[p].entry \in Entries
           /\ run[p].entry.content = page[run[p].url]
  <1>1. /\ run[p] # Nothing /\ run[p].phase = "requesting"
        /\ Validator(p) # NoEtag
        /\ Validator(p) = Etag[<<run[p].url, page[run[p].url]>>]
    BY DEF NotModified, In
  <1>2. /\ run[p].entry # Nothing /\ run[p].entry.final_url = run[p].url
        /\ Validator(p) = run[p].entry.etag
    BY <1>1 DEF Validator
  <1>3. /\ run[p] \in Runs /\ run[p].url \in Urls
        /\ run[p].entry.etag = Etag[<<run[p].entry.final_url, run[p].entry.content>>]
    BY <1>1, <1>2, RunOf DEF RunInv, IsResponse
  <1>4. run[p].entry \in Entries
    BY <1>2, <1>3 DEF Runs
  <1>5. run[p].entry.content \in Contents /\ page[run[p].url] \in Contents
    BY <1>3, <1>4 DEF Entries, IInv, TypeOK
  <1> QED BY <1>1, <1>2, <1>3, <1>4, <1>5, ProcessAssumption

\* A new entry is what its URL has answered with.
LEMMA FetchedIInv ==
    ASSUME IInv, NEW p \in Processes, Fetched(p)
    PROVE  IInv'
  <1> DEFINE u == run[p].url
             e == [final_url |-> u, etag |-> Etag[<<u, page[u]>>], content |-> page[u]]
             r == [run[p] EXCEPT !.phase = "cleaning", !.status = "success",
                                 !.content = page[u]]
  <1>0. /\ TypeOK /\ SuccessWasPersisted
        /\ run[p] # Nothing /\ run[p].phase = "requesting"
        /\ cache' = [cache EXCEPT ![p] = e]
        /\ run' = [run EXCEPT ![p] = r]
        /\ UNCHANGED <<page, route, job, outcomes>>
    BY DEF IInv, Fetched, In
  <1>1. /\ RunInv(run[p]) /\ run[p] \in Runs /\ u \in Urls
    BY <1>0, RunOf DEF RunInv
  <1>2. page[u] \in Contents
    BY <1>0, <1>1 DEF TypeOK
  <1>3. e \in Entries
    <2>1. <<u, page[u]>> \in Urls \X Contents
      BY <1>1, <1>2
    <2> QED BY <1>1, <1>2, <2>1 DEF Entries
  <1>4. IsResponse(e)
    BY DEF IsResponse
  <1>5. r \in Runs
    BY <1>1, <1>2 DEF Runs, FetchStatuses
  <1>6. RunInv(r) /\ r.phase # "finishing"
    BY <1>1, <1>5 DEF RunInv, Runs, FetchStatuses
  <1> HIDE DEF e, r
  <1>7. TypeOK'
    BY <1>0, <1>3, <1>5 DEF TypeOK
  <1>8. \A q \in Processes : IsResponse(cache'[q])
    <2> SUFFICES ASSUME NEW q \in Processes PROVE IsResponse(cache'[q])
      OBVIOUS
    <2>1. cache'[q] = IF q = p THEN e ELSE cache[q]
      BY <1>0 DEF TypeOK
    <2> QED BY <1>4, <2>1 DEF IInv
  <1>9. ASSUME NEW q \in Processes, run'[q] # Nothing
        PROVE  RunInv(run'[q]) /\ ResultInv(run[q])'
    <2>1. run'[q] = IF q = p THEN r ELSE run[q]
      BY <1>0 DEF TypeOK
    <2> QED BY <1>0, <1>6, <1>9, <2>1 DEF IInv, ResultInv
  <1>10. SuccessWasPersisted'
    BY <1>0 DEF SuccessWasPersisted
  <1> QED BY <1>7, <1>8, <1>9, <1>10 DEF IInv, RunInv, IsResponse

-----------------------------------------------------------------------------
(* ProcessSourceUseCase.execute after a 200.                                *)

\* What was fetched cannot be cleaned.
LEMMA CleanFailsIInv ==
    ASSUME IInv, NEW p \in Processes, CleanFails(p)
    PROVE  IInv'
  <1> DEFINE r == [run[p] EXCEPT !.phase = "persisting", !.disposition = "failed"]
  <1>1. /\ run[p] # Nothing /\ run[p].phase = "cleaning"
        /\ run' = [run EXCEPT ![p] = r] /\ Keep
    BY DEF CleanFails, In
  <1>2. /\ RunInv(run[p]) /\ run[p] \in Runs
    BY <1>1, RunOf
  <1>4. r \in Runs
    BY <1>2 DEF Runs, Dispositions
  <1>5. RunInv(r) /\ ResultInv(r)
    BY <1>1, <1>2, <1>4 DEF RunInv, ResultInv, Runs
  <1> HIDE DEF r
  <1> QED BY <1>1, <1>5, RunStepIInv

\* What was fetched is cleaned, and perhaps yields a record.
LEMMA ExtractedIInv ==
    ASSUME IInv, NEW p \in Processes, Extracted(p)
    PROVE  IInv'
  <1>0. PICK record \in BOOLEAN :
          run' = [run EXCEPT ![p].phase = "persisting", ![p].document = TRUE,
                             ![p].record = record, ![p].disposition = "succeeded"]
    BY DEF Extracted
  <1> DEFINE r == [run[p] EXCEPT !.phase = "persisting", !.document = TRUE,
                                 !.record = record, !.disposition = "succeeded"]
  <1>1. /\ run[p] # Nothing /\ run[p].phase = "cleaning"
        /\ run' = [run EXCEPT ![p] = r] /\ Keep
    BY <1>0 DEF Extracted, In
  <1>2. /\ RunInv(run[p]) /\ run[p] \in Runs
    BY <1>1, RunOf
  <1>4. r \in Runs
    BY <1>2 DEF Runs, Dispositions
  <1>5. RunInv(r) /\ ResultInv(r)
    BY <1>1, <1>2, <1>4 DEF RunInv, ResultInv, Runs
  <1> HIDE DEF r
  <1> QED BY <1>1, <1>5, RunStepIInv

\* The outcome of an execution is committed, and the execution may complete.
LEMMA PersistIInv ==
    ASSUME IInv, NEW p \in Processes, Persist(p)
    PROVE  IInv'
  <1> DEFINE o == [job |-> run[p].job, status |-> run[p].status, content |-> run[p].content,
                   document |-> run[p].document, record |-> run[p].record,
                   disposition |-> run[p].disposition]
             r == [run[p] EXCEPT !.phase = "finishing"]
  <1>0. /\ TypeOK /\ SuccessWasPersisted
        /\ run[p] # Nothing /\ run[p].phase = "persisting"
        /\ outcomes' = outcomes \cup {o}
        /\ run' = [run EXCEPT ![p] = r]
        /\ UNCHANGED <<page, route, job, cache>>
    BY DEF IInv, Persist, In
  <1>1. /\ RunInv(run[p]) /\ run[p] \in Runs /\ run[p].status \in FetchStatuses
    BY <1>0, RunOf DEF RunInv
  <1>2. o \in Outcomes
    BY <1>1 DEF Runs, Outcomes
  <1>3. r \in Runs
    BY <1>1 DEF Runs
  <1>4. /\ RunInv(r)
        /\ o.job = r.job /\ o.disposition = r.disposition
    BY <1>1, <1>3 DEF RunInv, Runs
  <1> HIDE DEF o, r
  <1>5. TypeOK'
    BY <1>0, <1>2, <1>3 DEF TypeOK
  <1>6. \A q \in Processes : IsResponse(cache'[q])
    BY <1>0 DEF IInv
  <1>7. ASSUME NEW q \in Processes, run'[q] # Nothing
        PROVE  RunInv(run'[q]) /\ ResultInv(run[q])'
    <2>1. run'[q] = IF q = p THEN r ELSE run[q]
      BY <1>0 DEF TypeOK
    <2> QED BY <1>0, <1>4, <1>7, <2>1 DEF IInv, ResultInv
  <1>8. SuccessWasPersisted'
    BY <1>0 DEF SuccessWasPersisted
  <1> QED BY <1>5, <1>6, <1>7, <1>8 DEF IInv, RunInv, IsResponse

\* An exception leaves the execution with a retry.
LEMMA RaisesIInv ==
    ASSUME IInv, NEW p \in Processes, Raises(p)
    PROVE  IInv'
  <1> DEFINE r == [run[p] EXCEPT !.phase = "finishing", !.disposition = "retry"]
  <1>1. run[p] # Nothing /\ run' = [run EXCEPT ![p] = r] /\ Keep
    BY DEF Raises
  <1>2. /\ RunInv(run[p]) /\ run[p] \in Runs
    BY <1>1, RunOf
  <1>4. r \in Runs
    BY <1>2 DEF Runs, Dispositions
  <1>5. RunInv(r) /\ ResultInv(r)
    BY <1>2, <1>4 DEF RunInv, ResultInv, Runs
  <1> HIDE DEF r
  <1> QED BY <1>1, <1>5, RunStepIInv

-----------------------------------------------------------------------------
(* run_once.                                                                *)

\* A job that is completed has its outcome.
LEMMA FinishIInv ==
    ASSUME IInv, NEW p \in Processes, Finish(p)
    PROVE  IInv'
  <1> DEFINE j == run[p].job
             status == FinishedStatus(p)
  <1>0. /\ TypeOK /\ SuccessWasPersisted
        /\ run[p] # Nothing /\ run[p].phase = "finishing"
        /\ job' = [job EXCEPT ![j].status = status]
        /\ run' = [run EXCEPT ![p] = Nothing]
        /\ UNCHANGED <<page, route, cache, outcomes>>
    BY DEF IInv, Finish, In
  <1>1. /\ run[p] \in Runs /\ ResultInv(run[p])
    BY <1>0, RunOf
  <1>2. j \in Jobs
    BY <1>1 DEF Runs
  <1>3. CASE run[p].disposition = "retry"
    <2>1. status \in {"queued", "running", "dead"}
      BY <1>3 DEF FinishedStatus
    <2>2. /\ \A q \in Processes : run'[q] = run[q] \/ run'[q] = Nothing
          /\ \A q \in Processes : cache'[q] = cache[q] \/ cache'[q] = Nothing
          /\ run' \in [Processes -> Runs \cup {Nothing}]
          /\ cache' \in [Processes -> Entries \cup {Nothing}]
      BY <1>0 DEF TypeOK
    <2> HIDE DEF j, status
    <2> QED BY <1>0, <1>2, <2>1, <2>2, JobStepIInv
  <1>4. CASE run[p].disposition # "retry"
    <2>1. status = "succeeded"
      BY <1>4 DEF FinishedStatus
    <2>2. \E o \in outcomes : o.job = j /\ o.disposition # "retry"
      BY <1>0, <1>1, <1>4 DEF ResultInv
    <2> HIDE DEF j, status
    <2>3. TypeOK'
      <3>1. job' \in [Jobs -> [status : {"queued", "running", "succeeded", "dead"},
                               attempts : 0..JobAttempts]]
        BY <1>0, <1>2, <2>1 DEF TypeOK
      <3> QED BY <1>0, <3>1 DEF TypeOK
    <2>4. \A q \in Processes : IsResponse(cache'[q])
      BY <1>0 DEF IInv
    <2>5. ASSUME NEW q \in Processes, run'[q] # Nothing
          PROVE  RunInv(run'[q]) /\ ResultInv(run[q])'
      <3>1. run'[q] = run[q]
        BY <1>0, <2>5 DEF TypeOK
      <3> QED BY <1>0, <2>5, <3>1 DEF IInv, ResultInv
    <2>6. SuccessWasPersisted'
      <3> SUFFICES ASSUME NEW i \in Jobs, job'[i].status = "succeeded"
                   PROVE  \E o \in outcomes : o.job = i /\ o.disposition # "retry"
        BY <1>0 DEF SuccessWasPersisted
      <3>1. CASE i = j
        BY <2>2, <3>1
      <3>2. CASE i # j
        <4>1. job'[i] = job[i]
          BY <1>0, <3>2 DEF TypeOK
        <4> QED BY <1>0, <4>1 DEF SuccessWasPersisted
      <3> QED BY <3>1, <3>2
    <2> QED BY <2>3, <2>4, <2>5, <2>6 DEF IInv, RunInv, IsResponse
  <1> QED BY <1>3, <1>4

\* A shutdown gives the job back.
LEMMA ShutdownIInv ==
    ASSUME IInv, NEW p \in Processes, Shutdown(p)
    PROVE  IInv'
  <1> DEFINE j == run[p].job
             status == IF run[p].token < JobAttempts THEN "queued" ELSE "dead"
  <1>0. /\ TypeOK
        /\ run[p] # Nothing
        /\ job' = [job EXCEPT ![j].status = status]
        /\ run' = [run EXCEPT ![p] = Nothing]
        /\ cache' = [cache EXCEPT ![p] = Nothing]
        /\ UNCHANGED <<page, route, outcomes>>
    BY DEF IInv, Shutdown
  <1>1. j \in Jobs
    BY <1>0, RunOf DEF Runs
  <1>2. status \in {"queued", "running", "dead"}
    OBVIOUS
  <1>3. /\ \A q \in Processes : run'[q] = run[q] \/ run'[q] = Nothing
        /\ \A q \in Processes : cache'[q] = cache[q] \/ cache'[q] = Nothing
        /\ run' \in [Processes -> Runs \cup {Nothing}]
        /\ cache' \in [Processes -> Entries \cup {Nothing}]
    BY <1>0 DEF TypeOK
  <1> HIDE DEF j, status
  <1> QED BY <1>0, <1>1, <1>2, <1>3, JobStepIInv

\* A crash loses the execution and the cache.
LEMMA CrashIInv ==
    ASSUME IInv, NEW p \in Processes, Crash(p)
    PROVE  IInv'
  <1>0. /\ TypeOK /\ SuccessWasPersisted
        /\ run' = [run EXCEPT ![p] = Nothing]
        /\ cache' = [cache EXCEPT ![p] = Nothing]
        /\ UNCHANGED <<page, route, job, outcomes>>
    BY DEF IInv, Crash
  <1>1. TypeOK'
    BY <1>0 DEF TypeOK
  <1>2. \A q \in Processes : IsResponse(cache[q])'
    BY <1>0 DEF IInv, IsResponse, TypeOK
  <1>3. ASSUME NEW q \in Processes, run'[q] # Nothing
        PROVE  RunInv(run'[q]) /\ ResultInv(run[q])'
    <2>1. run'[q] = run[q]
      BY <1>0, <1>3 DEF TypeOK
    <2> QED BY <1>0, <1>3, <2>1 DEF IInv, ResultInv
  <1>4. SuccessWasPersisted'
    BY <1>0 DEF SuccessWasPersisted
  <1> QED BY <1>1, <1>2, <1>3, <1>4 DEF IInv, RunInv, IsResponse

-----------------------------------------------------------------------------

\* Every step keeps the invariant.
LEMMA NextIInv == IInv /\ [Next]_vars => IInv'
  <1> SUFFICES ASSUME IInv, [Next]_vars PROVE IInv'
    OBVIOUS
  <1>1. ASSUME NEW p \in Processes, NEW j \in Jobs, Claim(p, j) PROVE IInv'
    BY <1>1, ClaimIInv
  <1>2. ASSUME NEW j \in Jobs, Sweep(j) PROVE IInv'
    BY <1>2, SweepIInv
  <1>3. ASSUME NEW u \in Urls, NEW c \in Contents, ChangePage(u, c) PROVE IInv'
    <2>1. page' \in [Urls -> Contents] /\ route' \in Urls
      BY <1>3 DEF ChangePage, IInv, TypeOK
    <2> QED BY <1>3, <2>1, ServerIInv DEF ChangePage
  <1>4. ASSUME NEW u \in Urls, ChangeRoute(u) PROVE IInv'
    <2>1. page' \in [Urls -> Contents] /\ route' \in Urls
      BY <1>4 DEF ChangeRoute, IInv, TypeOK
    <2> QED BY <1>4, <2>1, ServerIInv DEF ChangeRoute
  <1>5. ASSUME NEW p \in Processes, FollowRedirects(p) PROVE IInv'
    BY <1>5, ResolveIInv
  <1>6. ASSUME NEW p \in Processes, Blocked(p) PROVE IInv'
    <2>1. run[p] # Nothing /\ FetchEnds(p, "blocked", Nothing, "succeeded")
      BY <1>6 DEF Blocked, In
    <2> QED BY <2>1, FetchEndsIInv DEF FetchStatuses, Dispositions
  <1>7. ASSUME NEW p \in Processes, FetchFails(p) PROVE IInv'
    <2>1. PICK d \in {"retry", "failed"} : FetchEnds(p, "failed", Nothing, d)
      BY <1>7 DEF FetchFails
    <2>2. run[p] # Nothing
      BY <1>7 DEF FetchFails, In
    <2>3. "failed" \in FetchStatuses /\ d \in Dispositions
      BY DEF FetchStatuses, Dispositions
    <2> QED BY <2>1, <2>2, <2>3, FetchEndsIInv
  <1>8. ASSUME NEW p \in Processes, NotModified(p) PROVE IInv'
    <2>1. FetchEnds(p, "not_modified", run[p].entry.content, "succeeded")
      BY <1>8 DEF NotModified
    <2>2. run[p] # Nothing /\ run[p].entry.content \in Contents \cup {Nothing}
      BY <1>8, NotModifiedContent DEF Entries
    <2>3. "not_modified" \in FetchStatuses /\ "succeeded" \in Dispositions
      BY DEF FetchStatuses, Dispositions
    <2> QED BY <2>1, <2>2, <2>3, FetchEndsIInv
  <1>9. ASSUME NEW p \in Processes, Fetched(p) PROVE IInv'
    BY <1>9, FetchedIInv
  <1>10. ASSUME NEW p \in Processes, CleanFails(p) PROVE IInv'
    BY <1>10, CleanFailsIInv
  <1>11. ASSUME NEW p \in Processes, Extracted(p) PROVE IInv'
    BY <1>11, ExtractedIInv
  <1>12. ASSUME NEW p \in Processes, Persist(p) PROVE IInv'
    BY <1>12, PersistIInv
  <1>13. ASSUME NEW p \in Processes, Raises(p) PROVE IInv'
    BY <1>13, RaisesIInv
  <1>14. ASSUME NEW p \in Processes, Finish(p) PROVE IInv'
    BY <1>14, FinishIInv
  <1>15. ASSUME NEW p \in Processes, Shutdown(p) PROVE IInv'
    BY <1>15, ShutdownIInv
  <1>16. ASSUME NEW p \in Processes, Crash(p) PROVE IInv'
    BY <1>16, CrashIInv
  <1>17. CASE UNCHANGED vars
    <2>1. page' \in [Urls -> Contents] /\ route' \in Urls
      BY <1>17 DEF vars, IInv, TypeOK
    <2> QED BY <1>17, <2>1, ServerIInv DEF vars
  <1> QED BY <1>1, <1>2, <1>3, <1>4, <1>5, <1>6, <1>7, <1>8, <1>9, <1>10, <1>11, <1>12,
             <1>13, <1>14, <1>15, <1>16, <1>17 DEF Next

\* The invariant of the executions, the cache and the queue.
LEMMA Invariance == Spec => []IInv
  <1> QED BY InitIInv, NextIInv, PTL DEF Spec

\* The executions, the cache and the committed outcomes have their types
\* throughout (FetchResult, ProcessingOutcome and JobDisposition).
THEOREM ProcessTypeCorrect == Spec => []TypeOK
  <1>1. IInv => TypeOK
    BY DEF IInv
  <1> QED BY <1>1, Invariance, PTL

\* Between persist() and complete() no result is lost, for any number of
\* worker processes, jobs and attempts.
THEOREM SuccessIsPersisted == Spec => []SuccessWasPersisted
  <1>1. IInv => SuccessWasPersisted
    BY DEF IInv
  <1> QED BY <1>1, Invariance, PTL

\* A 304 repeats the digest of the page there is now, for any validators that
\* tell the bodies of one URL apart.
THEOREM NotModifiedCurrent == Spec => NotModifiedIsCurrent
  <1> DEFINE A == \A p \in Processes :
                In(p, "requesting") /\ run'[p] # Nothing
                   => (run'[p].status = "not_modified" =>
                          run'[p].content = page[run[p].url])
  <1>1. IInv /\ [Next]_vars => [A]_vars
    <2> SUFFICES ASSUME IInv, Next, NEW p \in Processes, In(p, "requesting"),
                        run'[p] # Nothing, run'[p].status = "not_modified"
                 PROVE  run'[p].content = page[run[p].url]
      OBVIOUS
    <2>0. /\ run[p] \in Runs /\ run[p].status = Nothing /\ run[p] # Nothing
          /\ run[p].phase = "requesting"
          /\ run \in [Processes -> Runs \cup {Nothing}]
          /\ Nothing # "not_modified"
      BY RunOf, NothingAssumption DEF In, RunInv, IInv, TypeOK, FetchStatuses
    <2>1. run'[p] # run[p]
      BY <2>0
    <2>3. CASE NotModified(p)
      <3>1. run'[p] = [run[p] EXCEPT !.phase = "persisting", !.status = "not_modified",
                          !.content = run[p].entry.content, !.disposition = "succeeded"]
        BY <2>0, <2>3 DEF NotModified, FetchEnds
      <3>2. run'[p].content = run[p].entry.content
        BY <2>0, <3>1 DEF Runs
      <3> QED BY <2>3, <3>2, NotModifiedContent
    <2>4. CASE Blocked(p)
      <3>1. run'[p].status = "blocked"
        BY <2>0, <2>4 DEF Blocked, FetchEnds, Runs
      <3> QED BY <3>1
    <2>5. CASE FetchFails(p)
      <3>1. run'[p].status = "failed"
        BY <2>0, <2>5 DEF FetchFails, FetchEnds, Runs
      <3> QED BY <3>1
    <2>6. CASE Fetched(p)
      <3>1. run'[p].status = "success"
        BY <2>0, <2>6 DEF Fetched, Runs
      <3> QED BY <3>1
    <2>7. CASE Raises(p)
      <3>1. run'[p].status = run[p].status
        BY <2>0, <2>7 DEF Raises, Runs
      <3> QED BY <2>0, <3>1
    <2>8. ASSUME NEW q \in Processes, q # p, FollowRedirects(q) \/ Blocked(q) \/ FetchFails(q)
                    \/ NotModified(q) \/ Fetched(q) \/ CleanFails(q) \/ Extracted(q)
                    \/ Persist(q) \/ Raises(q) \/ Finish(q) \/ Shutdown(q) \/ Crash(q)
          PROVE  FALSE
      <3>1. run'[p] = run[p]
        BY <2>0, <2>8 DEF FollowRedirects, Blocked, FetchFails, NotModified, FetchEnds, Fetched,
             CleanFails, Extracted, Persist, Raises, Finish, Shutdown, Crash
      <3> QED BY <2>1, <3>1
    <2>9. ASSUME Finish(p) \/ Shutdown(p) \/ Crash(p)
          PROVE  FALSE
      BY <2>0, <2>9 DEF Finish, Shutdown, Crash
    <2>10. ~(FollowRedirects(p) \/ CleanFails(p) \/ Extracted(p) \/ Persist(p))
      BY <2>0 DEF FollowRedirects, CleanFails, Extracted, Persist, In
    <2>11. ASSUME NEW q \in Processes, NEW j \in Jobs, Claim(q, j)
           PROVE  FALSE
      <3>1. q # p
        BY <2>0, <2>11 DEF Claim
      <3>2. run'[p] = run[p]
        BY <2>0, <2>11, <3>1 DEF Claim
      <3> QED BY <2>1, <3>2
    <2>12. ASSUME (\E j \in Jobs : Sweep(j)) \/ (\E u \in Urls, c \in Contents : ChangePage(u, c))
                     \/ (\E u \in Urls : ChangeRoute(u))
           PROVE  FALSE
      BY <2>1, <2>12 DEF Sweep, ChangePage, ChangeRoute
    <2> QED BY <2>3, <2>4, <2>5, <2>6, <2>7, <2>8, <2>9, <2>10, <2>11, <2>12 DEF Next
  <1>2. NotModifiedIsCurrent <=> [][A]_vars
    BY DEF NotModifiedIsCurrent
  <1> QED BY <1>1, <1>2, Invariance, PTL DEF Spec
=============================================================================
