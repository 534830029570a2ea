---------------------------- MODULE DurableJobs ----------------------------
(***************************************************************************)
(* The durable job table (JobRepository in storage/repositories.py) and    *)
(* the worker processes that lease jobs from it (runtime/worker.py).       *)
(*                                                                         *)
(* Every store call is one READ COMMITTED transaction in which PostgreSQL's *)
(* now() is the time the transaction STARTED, not the time it commits, so   *)
(* a call is a Begin step that freezes its clock and a later commit step.   *)
(* Instants are kept relative to the database clock: available_at and       *)
(* lease_expires_at hold (instant - now), a transaction holds its age, and  *)
(* "x <= now()" inside a transaction of age a reads x <= -a.  Instants      *)
(* older than any open transaction are all alike and saturate at            *)
(* -MaxTxnAge.                                                             *)
(***************************************************************************)
EXTENDS Integers

CONSTANTS
    Jobs,               \* (kind, dedupe_key) pairs; each names at most one row
    Workers,            \* worker processes (replicas)
    MaxAttempts,        \* max_attempts of every row: no caller passes another
    LeaseFor,           \* WorkerRunner lease_for, in ticks
    HeartbeatEvery,     \* WorkerRunner heartbeat_seconds, in ticks
    RetryAfter,         \* WorkerRunner retry_after, in ticks
    ShutdownRetryAfter, \* the 1 s delay of a job given back on shutdown
    MaxTxnAge,          \* bound: a store transaction commits within this
    NoLease             \* the worker holds no JobLease

ASSUME ConstantsAssumption ==
    /\ MaxAttempts \in Nat \ {0}
    /\ LeaseFor \in Nat
    /\ HeartbeatEvery \in Nat \ {0}
    /\ RetryAfter \in Nat \ {0}
    /\ ShutdownRetryAfter \in Nat \ {0}
    /\ MaxTxnAge \in Nat
    /\ NoLease \notin Jobs \cup [job : Jobs, token : 1..MaxAttempts]

\* WorkerRunner requires heartbeat < lease; keeping a lease alive also takes
\* room for the transactions themselves: the claim or renewal that set the
\* expiry, a renewal cancelled half way, and the final complete or fail.
ASSUME LeaseOutlivesHeartbeat ==
    HeartbeatEvery + 3 * MaxTxnAge < LeaseFor

VARIABLES
    job,        \* the durable_jobs table
    pc,         \* where each worker's run loop is
    lease,      \* the JobLease the worker holds in memory
    age,        \* age of the worker's claim, complete or fail transaction
    beat,       \* the heartbeat task: phase, and time spent in the phase
    verdict,    \* what the finished execution decided to do with the job
    stop,       \* the worker's stop event (SIGTERM)
    punctual    \* the worker's event loop has run on time since its claim

vars == <<job, pc, lease, age, beat, verdict, stop, punctual>>

Leases == [job : Jobs, token : 1..MaxAttempts]

Instants == (-MaxTxnAge)..(LeaseFor + RetryAfter + ShutdownRetryAfter)

\* A row.  leased_by is left out: it is written and cleared together with
\* lease_token and every replica runs as "worker-1", so it fences nothing.
\* lease_token is a fresh UUID per claim; the number of the claim stands for
\* it (0: null).  result is the number of the claim whose result was stored.
Row == [status           : {"absent", "queued", "running", "succeeded", "dead"},
        attempts         : 0..MaxAttempts,
        available_at     : Instants,
        lease_token      : 0..MaxAttempts,
        lease_expires_at : Instants,
        result           : 0..MaxAttempts]

TypeOK ==
    /\ job \in [Jobs -> Row]
    /\ pc \in [Workers -> {"down", "idle", "claiming", "claimed",
                           "executing", "finishing"}]
    /\ lease \in [Workers -> Leases \cup {NoLease}]
    /\ age \in [Workers -> 0..MaxTxnAge]
    /\ beat \in [Workers -> [phase : {"off", "sleeping", "renewing"},
                             age : Nat]]
    /\ verdict \in [Workers -> {"none", "complete", "retry", "shutdown"}]
    /\ stop \in [Workers -> BOOLEAN]
    /\ punctual \in [Workers -> BOOLEAN]

BeatOff == [phase |-> "off", age |-> 0]

Init ==
    /\ job = [j \in Jobs |-> [status |-> "absent", attempts |-> 0,
                              available_at |-> 0, lease_token |-> 0,
                              lease_expires_at |-> 0, result |-> 0]]
    /\ pc = [w \in Workers |-> "down"]
    /\ lease = [w \in Workers |-> NoLease]
    /\ age = [w \in Workers |-> 0]
    /\ beat = [w \in Workers |-> BeatOff]
    /\ verdict = [w \in Workers |-> "none"]
    /\ stop = [w \in Workers |-> FALSE]
    /\ punctual = [w \in Workers |-> TRUE]

-----------------------------------------------------------------------------
(* The queries of JobRepository, as seen by worker w's transaction.         *)

\* The instant t is not after the transaction's frozen now().
Due(t, w) == t <= -age[w]

\* claim_next, first statement: expired leases with no attempt left.
Exhausted(j, w) ==
    /\ job[j].status = "running"
    /\ Due(job[j].lease_expires_at, w)
    /\ job[j].attempts >= MaxAttempts

\* Fault: the SELECT does not look at the attempts that are left.
Claimable_NoBudget(j, w) ==
    /\ job[j].status \in {"queued", "running"}
    /\ Due(job[j].available_at, w)
    /\ job[j].status = "running" => Due(job[j].lease_expires_at, w)

\* Fault: a lease is taken over before it has expired.
Claimable_LeaseIgnored(j, w) ==
    /\ job[j].status \in {"queued", "running"}
    /\ Due(job[j].available_at, w)
    /\ job[j].attempts < MaxAttempts

\* claim_next, second statement: the WHERE clause of the SELECT.
Claimable(j, w) ==
    /\ job[j].status \in {"queued", "running"}
    /\ Due(job[j].available_at, w)
    /\ job[j].attempts < MaxAttempts
    /\ job[j].status = "running" => Due(job[j].lease_expires_at, w)

\* FOR UPDATE has locked the row in another worker's open claim.
LockedByClaim(j) ==
    \E v \in Workers : pc[v] = "claimed" /\ lease[v].job = j

\* The row may be locked by an open renew, complete or fail.
MayBeLocked(j, w) ==
    \E v \in Workers \ {w} :
        /\ \/ pc[v] = "finishing"
           \/ pc[v] = "executing" /\ beat[v].phase = "renewing"
        /\ lease[v].job = j

\* Fault: the token is not compared, only the row's state.
Owns_NoToken(w, a) ==
    LET row == job[lease[w].job] IN
    /\ row.status = "running"
    /\ row.lease_expires_at > -a

\* The guard shared by renew, complete and fail, evaluated in a transaction
\* of age a: the row still carries this lease and it has not expired.
Owns(w, a) ==
    LET row == job[lease[w].job] IN
    /\ row.status = "running"
    /\ row.lease_token = lease[w].token
    /\ row.lease_expires_at > -a

\* The values claim_next writes into the claimed row.
ClaimedRow(row, w) ==
    [row EXCEPT !.status = "running",
                !.attempts = @ + 1,
                !.lease_token = row.attempts + 1,
                !.lease_expires_at = LeaseFor - age[w]]

\* The values of the sweep, of complete and of fail; all clear the lease.
DeadRow(row) ==
    [row EXCEPT !.status = "dead", !.lease_token = 0, !.lease_expires_at = 0]

SucceededRow(row, token) ==
    [row EXCEPT !.status = "succeeded", !.result = token,
                !.lease_token = 0, !.lease_expires_at = 0]

\* Fault: the last attempt is given back to the queue as well.
FailedRow_OneTooMany(row, delay, w) ==
    [row EXCEPT !.status = IF row.attempts <= MaxAttempts THEN "queued" ELSE "dead",
                !.available_at = delay - age[w],
                !.lease_token = 0, !.lease_expires_at = 0]

FailedRow(row, delay, w) ==
    [row EXCEPT !.status = IF row.attempts < MaxAttempts THEN "queued" ELSE "dead",
                !.available_at = delay - age[w],
                !.lease_token = 0, !.lease_expires_at = 0]

-----------------------------------------------------------------------------
(* enqueue, called by the campaign scan and by the source CLI.              *)

\* Fault: a conflicting insert overwrites the row instead of doing nothing.
Enqueue_Upsert(j) ==
    /\ job' = [job EXCEPT ![j].status = "queued", ![j].available_at = 0,
                          ![j].attempts = 0]
    /\ UNCHANGED <<pc, lease, age, beat, verdict, stop, punctual>>

\* INSERT ... ON CONFLICT DO NOTHING on (kind, dedupe_key).
Enqueue(j) ==
    /\ job' = IF job[j].status = "absent"
              THEN [job EXCEPT ![j].status = "queued", ![j].available_at = 0]
              ELSE job
    /\ UNCHANGED <<pc, lease, age, beat, verdict, stop, punctual>>

-----------------------------------------------------------------------------
(* WorkerRunner.run and run_once.                                           *)

\* Process memory that survives neither a crash nor an exit of the run loop.
Exit(w) ==
    /\ pc' = [pc EXCEPT ![w] = "down"]
    /\ lease' = [lease EXCEPT ![w] = NoLease]
    /\ age' = [age EXCEPT ![w] = 0]
    /\ beat' = [beat EXCEPT ![w] = BeatOff]
    /\ verdict' = [verdict EXCEPT ![w] = "none"]
    /\ stop' = [stop EXCEPT ![w] = FALSE]
    /\ punctual' = [punctual EXCEPT ![w] = TRUE]

\* The orchestrator starts the process again; the registry sync and the
\* readiness checks of build_worker_runtime are behind this step.
Start(w) ==
    /\ pc[w] = "down"
    /\ pc' = [pc EXCEPT ![w] = "idle"]
    /\ UNCHANGED <<job, lease, age, beat, verdict, stop, punctual>>

\* The process dies, or an error escapes run(): open transactions roll back
\* and the row keeps the lease until it expires.
Crash(w) ==
    /\ pc[w] # "down"
    /\ Exit(w)
    /\ UNCHANGED job

\* SIGTERM sets the stop event.
Sigterm(w) ==
    /\ pc[w] # "down" /\ ~stop[w]
    /\ stop' = [stop EXCEPT ![w] = TRUE]
    /\ UNCHANGED <<job, pc, lease, age, beat, verdict, punctual>>

\* run() leaves its loop.
StopIdle(w) ==
    /\ pc[w] = "idle" /\ stop[w]
    /\ Exit(w)
    /\ UNCHANGED job

BeginClaim(w) ==
    /\ pc[w] = "idle" /\ ~stop[w]
    /\ pc' = [pc EXCEPT ![w] = "claiming"]
    /\ age' = [age EXCEPT ![w] = 0]
    /\ UNCHANGED <<job, lease, beat, verdict, stop, punctual>>

\* SELECT ... ORDER BY available_at LIMIT 1 FOR UPDATE SKIP LOCKED: the row
\* is locked for this transaction.  Rows with equal (saturated) instants are
\* ordered by created_at in the code; here either may come first.
ClaimSelect(w, j) ==
    /\ pc[w] = "claiming"
    /\ Claimable(j, w) /\ ~LockedByClaim(j)
    /\ \A k \in Jobs :
          Claimable(k, w) /\ job[k].available_at < job[j].available_at
             => LockedByClaim(k) \/ MayBeLocked(k, w)
    /\ pc' = [pc EXCEPT ![w] = "claimed"]
    /\ lease' = [lease EXCEPT ![w] = [job |-> j, token |-> job[j].attempts + 1]]
    /\ UNCHANGED <<job, age, beat, verdict, stop, punctual>>

\* Fault: expired leases with no attempt left stay "running".
Swept_Never(w) == job

\* The sweep that opens claim_next, applied when its transaction commits.
\* Its rows have no attempt left and a claimed row has one, so no claim can
\* select a row that another claim sweeps.
Swept(w) ==
    [j \in Jobs |-> IF Exhausted(j, w) THEN DeadRow(job[j]) ELSE job[j]]

\* Fault: an abandoned row is claimed again under its old token.
ClaimCommit_KeepsToken(w) ==
    /\ pc[w] = "claimed"
    /\ job' = [Swept(w) EXCEPT ![lease[w].job] =
                  [ClaimedRow(@, w) EXCEPT !.lease_token = 1]]
    /\ pc' = [pc EXCEPT ![w] = "executing"]
    /\ lease' = [lease EXCEPT ![w].token = 1]
    /\ age' = [age EXCEPT ![w] = 0]
    /\ beat' = [beat EXCEPT ![w] = [phase |-> "sleeping", age |-> 0]]
    /\ UNCHANGED <<verdict, stop, punctual>>

\* The claim commits; run_once starts the execution and the heartbeat.
ClaimCommit(w) ==
    /\ pc[w] = "claimed"
    /\ job' = [Swept(w) EXCEPT ![lease[w].job] = ClaimedRow(@, w)]
    /\ pc' = [pc EXCEPT ![w] = "executing"]
    /\ age' = [age EXCEPT ![w] = 0]
    /\ beat' = [beat EXCEPT ![w] = [phase |-> "sleeping", age |-> 0]]
    /\ UNCHANGED <<lease, verdict, stop, punctual>>

\* Nothing claimable, or every claimable row is locked: only the sweep
\* commits and run() waits poll_seconds.
ClaimNone(w) ==
    /\ pc[w] = "claiming"
    /\ \A j \in Jobs :
          Claimable(j, w) => LockedByClaim(j) \/ MayBeLocked(j, w)
    /\ job' = Swept(w)
    /\ pc' = [pc EXCEPT ![w] = "idle"]
    /\ age' = [age EXCEPT ![w] = 0]
    /\ UNCHANGED <<lease, beat, verdict, stop, punctual>>

-----------------------------------------------------------------------------
(* _heartbeat: sleep, renew, sleep, ...                                     *)

BeginRenew(w) ==
    /\ pc[w] = "executing"
    /\ beat[w].phase = "sleeping" /\ beat[w].age >= HeartbeatEvery
    /\ beat' = [beat EXCEPT ![w] = [phase |-> "renewing", age |-> 0]]
    /\ UNCHANGED <<job, pc, lease, age, verdict, stop, punctual>>

\* A renewal waits for a claim that has locked the row.
Renewing(w) ==
    /\ pc[w] = "executing" /\ beat[w].phase = "renewing"
    /\ ~LockedByClaim(lease[w].job)

\* Fault: the renewal does not move the expiry.
RenewCommit_NotExtended(w) ==
    /\ Renewing(w) /\ Owns(w, beat[w].age)
    /\ beat' = [beat EXCEPT ![w] = [phase |-> "sleeping", age |-> 0]]
    /\ UNCHANGED <<job, pc, lease, age, verdict, stop, punctual>>

RenewCommit(w) ==
    /\ Renewing(w) /\ Owns(w, beat[w].age)
    /\ job' = [job EXCEPT ![lease[w].job].lease_expires_at =
                             LeaseFor - beat[w].age]
    /\ beat' = [beat EXCEPT ![w] = [phase |-> "sleeping", age |-> 0]]
    /\ UNCHANGED <<pc, lease, age, verdict, stop, punctual>>

\* LeaseLostError cancels the execution and escapes run(): the process exits
\* without touching the row.
RenewLeaseLost(w) ==
    /\ Renewing(w) /\ ~Owns(w, beat[w].age)
    /\ Exit(w)
    /\ UNCHANGED job

-----------------------------------------------------------------------------
(* The end of an execution, and the transaction that records it.            *)

\* _execute_with_heartbeat returns or raises: its tasks are cancelled and
\* awaited, an open renewal rolls back, and complete or retry begins.
FinishWith(w, v) ==
    /\ pc[w] = "executing"
    /\ pc' = [pc EXCEPT ![w] = "finishing"]
    /\ verdict' = [verdict EXCEPT ![w] = v]
    /\ age' = [age EXCEPT ![w] = 0]
    /\ beat' = [beat EXCEPT ![w] = BeatOff]
    /\ UNCHANGED <<job, lease, stop, punctual>>

\* The execution returns a result, or raises (an invalid payload included).
ExecutionEnds(w) == FinishWith(w, "complete") \/ FinishWith(w, "retry")

\* The renewal fails for another reason than a lost lease, such as a broken
\* connection; the execution is cancelled and the job is retried.
HeartbeatFails(w) == beat[w].phase = "renewing" /\ FinishWith(w, "retry")

\* WorkerStopping.
ShutdownDuringExecution(w) == stop[w] /\ FinishWith(w, "shutdown")

Finishing(w) == pc[w] = "finishing" /\ ~LockedByClaim(lease[w].job)

\* run_once returns; run() looks at the stop event in its next iteration.
BackToLoop(w) ==
    /\ pc' = [pc EXCEPT ![w] = "idle"]
    /\ lease' = [lease EXCEPT ![w] = NoLease]
    /\ age' = [age EXCEPT ![w] = 0]
    /\ verdict' = [verdict EXCEPT ![w] = "none"]
    /\ punctual' = [punctual EXCEPT ![w] = TRUE]
    /\ UNCHANGED <<beat, stop>>

Complete(w) ==
    /\ Finishing(w) /\ verdict[w] = "complete" /\ Owns(w, age[w])
    /\ job' = [job EXCEPT ![lease[w].job] = SucceededRow(@, lease[w].token)]
    /\ BackToLoop(w)

Fail(w) ==
    /\ Finishing(w) /\ verdict[w] \in {"retry", "shutdown"} /\ Owns(w, age[w])
    /\ job' = [job EXCEPT ![lease[w].job] =
                 FailedRow(@, IF verdict[w] = "retry" THEN RetryAfter
                                                      ELSE ShutdownRetryAfter, w)]
    /\ BackToLoop(w)

\* complete or fail raises LeaseLostError, which escapes run().
FinishLeaseLost(w) ==
    /\ Finishing(w) /\ ~Owns(w, age[w])
    /\ Exit(w)
    /\ UNCHANGED job

-----------------------------------------------------------------------------
(* Time.                                                                    *)

\* The event loop falls behind (CPU-bound extraction, a paused process): from
\* now on the heartbeat may fire arbitrarily late.
Stall(w) ==
    /\ pc[w] = "executing" /\ punctual[w]
    /\ punctual' = [punctual EXCEPT ![w] = FALSE]
    /\ UNCHANGED <<job, pc, lease, age, beat, verdict, stop>>

Earlier(t) == IF t > -MaxTxnAge THEN t - 1 ELSE t

\* The heartbeat is due: a worker on time acts before the clock moves on.
HeartbeatDue(w) ==
    /\ beat[w].phase = "sleeping"
    /\ beat[w].age >= HeartbeatEvery

\* One tick.  No transaction outlives MaxTxnAge.
Tick ==
    /\ \A w \in Workers :
          /\ pc[w] \in {"claiming", "claimed", "finishing"} => age[w] < MaxTxnAge
          /\ beat[w].phase = "renewing" => beat[w].age < MaxTxnAge
          /\ punctual[w] => ~HeartbeatDue(w)
    /\ job' = [j \in Jobs |->
                 [job[j] EXCEPT
                    !.available_at = Earlier(@),
                    !.lease_expires_at =
                       IF job[j].status = "running" THEN Earlier(@) ELSE @]]
    /\ age' = [w \in Workers |->
                 IF pc[w] \in {"claiming", "claimed", "finishing"}
                 THEN age[w] + 1 ELSE age[w]]
    /\ beat' = [w \in Workers |->
                 IF beat[w].phase = "off" \/ HeartbeatDue(w)
                 THEN beat[w] ELSE [beat[w] EXCEPT !.age = @ + 1]]
    /\ UNCHANGED <<pc, lease, verdict, stop, punctual>>

WorkerStep(w) ==
    \/ Start(w) \/ StopIdle(w) \/ BeginClaim(w)
    \/ \E j \in Jobs : ClaimSelect(w, j)
    \/ ClaimCommit(w) \/ ClaimNone(w)
    \/ BeginRenew(w) \/ RenewCommit(w) \/ RenewLeaseLost(w)
    \/ ExecutionEnds(w) \/ ShutdownDuringExecution(w)
    \/ Complete(w) \/ Fail(w) \/ FinishLeaseLost(w)

Next ==
    \/ \E j \in Jobs : Enqueue(j)
    \/ \E w \in Workers :
          \/ WorkerStep(w) \/ HeartbeatFails(w)
          \/ Crash(w) \/ Sigterm(w) \/ Stall(w)
    \/ Tick

Spec == Init /\ [][Next]_vars

\* The clock runs, a running process takes its next step, an execution ends,
\* and a worker that is restarted again and again gets a claim through in the
\* end.  Nothing forces crashes, signals or stalls, and nothing forbids them.
Fairness ==
    /\ WF_vars(Tick)
    /\ \A w \in Workers :
          /\ WF_vars(WorkerStep(w))
          /\ WF_vars(ExecutionEnds(w))
          /\ SF_vars(BeginClaim(w))
          /\ SF_vars(ClaimNone(w) \/ \E j \in Jobs : ClaimSelect(w, j))
          /\ SF_vars(ClaimCommit(w))

-----------------------------------------------------------------------------
(* Properties.                                                              *)

\* A job that waits in the queue can still be claimed: fail and the claims
\* between them never leave a queued row whose attempts are used up, which no
\* statement of JobRepository would ever touch again.
QueuedIsClaimable ==
    \A j \in Jobs : job[j].status = "queued" => job[j].attempts < MaxAttempts

HoldsLease(w) == pc[w] \in {"executing", "finishing"}

\* Two workers may execute the same job at once (a lease expired under the
\* first), but never under the same token, so at most one of them can renew,
\* complete or fail it.
OneOwner ==
    \A v, w \in Workers :
        v # w /\ HoldsLease(v) /\ HoldsLease(w) /\ lease[v].job = lease[w].job
           => lease[v].token # lease[w].token

\* The result stored for a job is the one its latest claim produced: a worker
\* whose lease was taken over never reports for its successor.
ResultOfLatestClaim ==
    \A j \in Jobs : job[j].status = "succeeded" => job[j].result = job[j].attempts

\* A worker whose event loop runs on time keeps its lease until its outcome is
\* recorded: heartbeats every HeartbeatEvery ticks leave no instant at which
\* another worker's claim_next, however old its now(), may take the job.
PunctualKeepsLease ==
    \A w \in Workers :
        HoldsLease(w) /\ punctual[w]
           => /\ job[lease[w].job].status = "running"
              /\ job[lease[w].job].lease_token = lease[w].token
              /\ job[lease[w].job].lease_expires_at > 0

\* Succeeded and dead are final: neither a late worker nor a second enqueue of
\* the same dedupe key brings the job back.
TerminalIsFinal ==
    [][\A j \in Jobs :
          job[j].status \in {"succeeded", "dead"}
             => /\ job'[j].status = job[j].status
                /\ job'[j].result = job[j].result
                /\ job'[j].attempts = job[j].attempts]_vars

\* Every job is decided in the end, whatever crashes, restarts and stalls the
\* workers suffer.
EveryJobEnds ==
    \A j \in Jobs :
        job[j].status # "absent" ~> job[j].status \in {"succeeded", "dead"}

\* What callers are told of a job.
Stored ==
    [j \in Jobs |-> [status |-> job[j].status, attempts |-> job[j].attempts,
                     result |-> job[j].result]]

\* The job a worker can still report on: its lease is the row's latest claim.
InHand ==
    [w \in Workers |-> IF /\ HoldsLease(w)
                          /\ job[lease[w].job].status = "running"
                          /\ job[lease[w].job].lease_token = lease[w].token
                       THEN lease[w].job
                       ELSE NoLease]

OutOfTouch == {w \in Workers : InHand[w] # NoLease /\ ~punctual[w]}

\* The table and its workers as callers may think of them: a queue in which a
\* job is in the hands of one worker at a time, which keeps it as long as its
\* event loop runs on time, and which alone decides it.  Each transaction, with
\* the sweep that claim_next runs first, is one step of that queue or none.
Queue == INSTANCE JobQueue WITH
    NoJob <- NoLease, record <- Stored, has <- InHand, late <- OutOfTouch
ImplementsJobQueue == Queue!Spec
=============================================================================
