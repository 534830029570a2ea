------------------------------ MODULE JobQueue ------------------------------
(***************************************************************************)
(* What the durable job table promises: a job is in the hands of one worker *)
(* at a time, a worker that keeps up is never robbed of its job, only the   *)
(* worker that has the job decides it, and it is tried at most MaxAttempts  *)
(* times.  There is no time in it and there are no leases, tokens or        *)
(* transactions: those are how DurableJobs keeps the promise.               *)
(***************************************************************************)
EXTENDS Integers

CONSTANTS
    Jobs,
    Workers,
    MaxAttempts,
    NoJob       \* the worker has no job

VARIABLES
    record,     \* what is stored of each job: status, attempts and result
    has,        \* the job each worker has
    late        \* the workers with a job that may have lost touch with it

vars == <<record, has, late>>

Init ==
    /\ record = [j \in Jobs |-> [status |-> "absent", attempts |-> 0, result |-> 0]]
    /\ has = [w \in Workers |-> NoJob]
    /\ late = {}

\* Nobody has the job, or a worker that may have lost touch with it.
Abandoned(j) ==
    /\ record[j].status = "running"
    /\ \A w \in Workers : has[w] = j => w \in late

\* The jobs in S are taken from the workers that have them.
TakenFrom(S) == [w \in Workers |-> IF has[w] \in S THEN NoJob ELSE has[w]]

\* The workers that have one of the jobs in S.
Having(S) == {w \in Workers : has[w] \in S}

\* A job that was abandoned in its last attempt can be given up.
Hopeless(S) ==
    \A j \in S : Abandoned(j) /\ record[j].attempts = MaxAttempts

Buried(S) ==
    [j \in Jobs |-> IF j \in S THEN [record[j] EXCEPT !.status = "dead"]
                               ELSE record[j]]

Enqueue(j) ==
    /\ record[j].status = "absent"
    /\ record' = [record EXCEPT ![j].status = "queued"]
    /\ UNCHANGED <<has, late>>

Bury(S) ==
    /\ Hopeless(S)
    /\ record' = Buried(S)
    /\ has' = TakenFrom(S)
    /\ late' = late \ Having(S)

\* A worker takes a job that waits or that was abandoned, and gives up some
\* hopeless ones on the way.
Take(w, j, S) ==
    /\ has[w] = NoJob
    /\ record[j].status = "queued" \/ Abandoned(j)
    /\ record[j].attempts < MaxAttempts
    /\ Hopeless(S)
    /\ record' = [Buried(S) EXCEPT ![j].status = "running", ![j].attempts = @ + 1]
    /\ has' = [TakenFrom(S \cup {j}) EXCEPT ![w] = j]
    /\ late' = late \ Having(S \cup {j})

\* A worker lets its job go: by deciding it, or by forgetting that it has it.
LetGo(w) ==
    /\ has' = [has EXCEPT ![w] = NoJob]
    /\ late' = late \ {w}

Forget(w) ==
    /\ LetGo(w)
    /\ UNCHANGED record

Succeed(w) ==
    /\ has[w] \in Jobs
    /\ record' = [record EXCEPT ![has[w]].status = "succeeded",
                                ![has[w]].result = record[has[w]].attempts]
    /\ LetGo(w)

GiveBack(w) ==
    /\ has[w] \in Jobs
    /\ record' = [record EXCEPT ![has[w]].status =
                    IF record[has[w]].attempts < MaxAttempts THEN "queued" ELSE "dead"]
    /\ LetGo(w)

FallBehind(w) ==
    /\ has[w] \in Jobs
    /\ late' = late \cup {w}
    /\ UNCHANGED <<record, has>>

Next ==
    \/ \E j \in Jobs : Enqueue(j)
    \/ \E S \in SUBSET Jobs : Bury(S)
    \/ \E w \in Workers :
          \/ \E j \in Jobs, S \in SUBSET Jobs : Take(w, j, S)
          \/ Forget(w) \/ Succeed(w) \/ GiveBack(w) \/ FallBehind(w)

Spec == Init /\ [][Next]_vars
=============================================================================
