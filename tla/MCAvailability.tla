--------------------------- MODULE MCAvailability ---------------------------
(***************************************************************************)
(* The parts that owe somebody an answer: the workers of the job queue, the *)
(* circuit before the local model and the change feed.  They share no state *)
(* here: a run chooses one of them at the beginning and lets it, under its  *)
(* own fairness, take every step it can.                                    *)
(***************************************************************************)
EXTENDS ModelCircuit, CampaignStore

CONSTANTS Jobs, Workers, MaxAttempts, LeaseFor, HeartbeatEvery, RetryAfter,
          ShutdownRetryAfter, MaxTxnAge, NoLease

VARIABLES job, phase, lease, nowAge, beat, verdict, stop, punctual
VARIABLE active

queueVars == <<job, phase, lease, nowAge, beat, verdict, stop, punctual>>

Queue == INSTANCE DurableJobs WITH pc <- phase, age <- nowAge

MCPendingPage == {[clean |-> "a", record |-> "A", status |-> "needs_review"]}

AvailabilityInit ==
    /\ active \in {"queue", "model", "feed"}
    /\ Queue!Init /\ CircuitInit /\ Init

QueueStep ==
    active = "queue" /\ Queue!Next /\ UNCHANGED <<active, circuitVars, vars>>

ModelStep ==
    active = "model" /\ CircuitNext /\ UNCHANGED <<active, queueVars, vars>>

FeedStep ==
    active = "feed" /\ Next /\ UNCHANGED <<active, queueVars, circuitVars>>

AvailabilityNext == QueueStep \/ ModelStep \/ FeedStep

\* What DurableJobs and ModelCircuit each assume of their scheduling, asked of
\* the part that runs; a browser polls whether or not there is news.
AvailabilitySpec ==
    /\ AvailabilityInit
    /\ [][AvailabilityNext]_<<active, queueVars, circuitVars, vars>>
    /\ \/ active = "queue" /\ Queue!Fairness
       \/ active = "model" /\ CircuitFairness
       \/ active = "feed"
    /\ Fairness

-----------------------------------------------------------------------------
\* Every job is decided in the end, whatever crashes, restarts and stalls the
\* workers suffer (DurableJobs).
EveryJobEnds == Queue!EveryJobEnds

\* The model is never out of service for good: where it is asked, a document or
\* question is let through again and again, whatever fails (ModelCircuit).
ModelIsServed == active = "model" => ModelComesBack
=============================================================================
