---------------------------- MODULE ModelCircuit ----------------------------
(***************************************************************************)
(* The circuit breaker in front of the local model (llm/client.py) and the  *)
(* concurrent callers that share it: OllamaStructuredClient.extract with    *)
(* its semaphore, or, with as many slots as callers, the answer composer,   *)
(* which has none (llm/composer.py).  The model service is external: a call *)
(* is answered, rejected, refused or left hanging until its deadline.       *)
(*                                                                         *)
(* acquire, success and failure run without an await, so each is one step.  *)
(***************************************************************************)
EXTENDS Integers, FiniteSets

CONSTANTS
    Calls,              \* concurrent callers
    Slots,              \* model_concurrency
    FailureThreshold,   \* failure_threshold
    ContentThreshold,   \* content_failure_threshold
    Recovery,           \* recovery_seconds
    Timeout,            \* model_timeout_seconds
    Cancellable         \* phases in which a call may be cancelled

ASSUME CircuitAssumption ==
    /\ Slots \in Nat \ {0}
    /\ FailureThreshold \in Nat \ {0} /\ ContentThreshold \in Nat \ {0}
    /\ Recovery \in Nat \ {0} /\ Timeout \in Nat \ {0}
    /\ Cancellable \subseteq {"waiting", "running"}

VARIABLES
    state,              \* CircuitState
    failures,           \* counted up to its threshold: only >= is asked of it
    contentFailures,    \* the same
    cooled,             \* seconds since opened_at, counted up to Recovery
    probeInFlight,
    call,               \* where each caller is
    age,                \* seconds since its deadline was set
    probing             \* the callers admitted as the half-open probe

circuit     == <<state, failures, contentFailures, cooled, probeInFlight>>
circuitVars == <<circuit, call, age, probing>>

CircuitTypeOK ==
    /\ state \in {"closed", "open", "half_open"}
    /\ failures \in 0..FailureThreshold
    /\ contentFailures \in 0..ContentThreshold
    /\ cooled \in 0..Recovery
    /\ probeInFlight \in BOOLEAN
    /\ call \in [Calls -> {"idle", "waiting", "running"}]
    /\ age \in [Calls -> 0..Timeout]
    /\ probing \subseteq Calls

CircuitInit ==
    /\ state = "closed" /\ failures = 0 /\ contentFailures = 0
    /\ cooled = 0 /\ probeInFlight = FALSE
    /\ call = [c \in Calls |-> "idle"]
    /\ age = [c \in Calls |-> 0]
    /\ probing = {}

Running == {c \in Calls : call[c] = "running"}

UpTo(n, bound) == IF n < bound THEN n ELSE bound

-----------------------------------------------------------------------------
(* A caller: extract().                                                     *)

\* The one wall-clock budget starts before the semaphore.
Request(c) ==
    /\ call[c] = "idle"
    /\ call' = [call EXCEPT ![c] = "waiting"]
    /\ age' = [age EXCEPT ![c] = 0]
    /\ UNCHANGED <<circuit, probing>>

Turn(c) == call[c] = "waiting" /\ Cardinality(Running) < Slots

Leave(c) ==
    /\ call' = [call EXCEPT ![c] = "idle"]
    /\ age' = [age EXCEPT ![c] = 0]
    /\ probing' = probing \ {c}

Enter(c, asProbe) ==
    /\ call' = [call EXCEPT ![c] = "running"]
    /\ probing' = IF asProbe THEN probing \cup {c} ELSE probing
    /\ UNCHANGED age

\* acquire() in a closed circuit.
AdmitClosed(c) ==
    /\ Turn(c) /\ state = "closed"
    /\ Enter(c, FALSE)
    /\ UNCHANGED circuit

Cooling == state = "open" /\ cooled < Recovery

\* Fault: the flag is set but never looked at.
AdmitProbe_FlagIgnored(c) ==
    /\ Turn(c) /\ state # "closed" /\ ~Cooling
    /\ state' = "half_open" /\ probeInFlight' = TRUE
    /\ Enter(c, TRUE)
    /\ UNCHANGED <<failures, contentFailures, cooled>>

\* acquire() by the probe of a half-open circuit.  A circuit that has cooled
\* down becomes half open whether or not the flag then lets the caller in.
AdmitProbe(c) ==
    /\ Turn(c) /\ state # "closed" /\ ~Cooling
    /\ ~probeInFlight
    /\ state' = "half_open" /\ probeInFlight' = TRUE
    /\ Enter(c, TRUE)
    /\ UNCHANGED <<failures, contentFailures, cooled>>

\* acquire() raises CIRCUIT_OPEN; nothing was acquired, so nothing is counted.
RejectCooling(c) ==
    /\ Turn(c) /\ Cooling
    /\ Leave(c)
    /\ UNCHANGED circuit

RejectProbing(c) ==
    /\ Turn(c) /\ state # "closed" /\ ~Cooling
    /\ probeInFlight
    /\ state' = "half_open"
    /\ Leave(c)
    /\ UNCHANGED <<failures, contentFailures, cooled, probeInFlight>>

\* The deadline passes before the call gets a slot: the event loop gives a free
\* slot away at once, so none is free now.
TimeoutWaiting(c) ==
    /\ call[c] = "waiting" /\ age[c] = Timeout
    /\ Cardinality(Running) >= Slots
    /\ Leave(c)
    /\ UNCHANGED circuit

\* success()
Answered(c) ==
    /\ call[c] = "running"
    /\ state' = "closed" /\ failures' = 0 /\ contentFailures' = 0
    /\ cooled' = 0 /\ probeInFlight' = FALSE
    /\ Leave(c)

\* Fault: a failed probe leaves the circuit half open.
DependencyFails_StaysHalfOpen(c) ==
    LET n == UpTo(failures + 1, FailureThreshold)
        opens == state # "half_open" /\ n = FailureThreshold IN
    /\ call[c] = "running"
    /\ failures' = n
    /\ state' = IF opens THEN "open" ELSE state
    /\ cooled' = IF opens THEN 0 ELSE cooled
    /\ UNCHANGED <<contentFailures, probeInFlight>>
    /\ Leave(c)

\* failure(): the deadline, the transport, an HTTP status, a bad envelope.
DependencyFails(c) ==
    LET n == UpTo(failures + 1, FailureThreshold)
        opens == state = "half_open" \/ n = FailureThreshold IN
    /\ call[c] = "running"
    /\ failures' = n
    /\ probeInFlight' = FALSE
    /\ state' = IF opens THEN "open" ELSE state
    /\ cooled' = IF opens THEN 0 ELSE cooled
    /\ UNCHANGED contentFailures
    /\ Leave(c)

\* failure(dependency=False): the model answered, and the answer was rejected.
ContentRejected(c) ==
    LET n == UpTo(contentFailures + 1, ContentThreshold)
        opens == n = ContentThreshold
        recovers == ~opens /\ state = "half_open" IN
    /\ call[c] = "running"
    /\ contentFailures' = n
    /\ probeInFlight' = FALSE
    /\ state' = IF opens THEN "open" ELSE IF recovers THEN "closed" ELSE state
    /\ failures' = IF recovers THEN 0 ELSE failures
    /\ cooled' = IF opens \/ recovers THEN 0 ELSE cooled
    /\ Leave(c)

\* CancelledError passes both except clauses: the worker cancels an execution
\* whose heartbeat could not be written, and then goes on with the next job.
Cancelled(c) ==
    /\ call[c] \in Cancellable
    /\ Leave(c)
    /\ UNCHANGED circuit

\* A second; no call outlives its deadline.
CircuitTick ==
    /\ \A c \in Calls : call[c] # "idle" => age[c] < Timeout
    /\ age' = [c \in Calls |-> IF call[c] = "idle" THEN 0 ELSE age[c] + 1]
    /\ cooled' = IF state = "open" THEN UpTo(cooled + 1, Recovery) ELSE cooled
    /\ UNCHANGED <<state, failures, contentFailures, probeInFlight, call, probing>>

-----------------------------------------------------------------------------

Ends(c) == Answered(c) \/ DependencyFails(c) \/ ContentRejected(c)

Admitted(c) ==
    AdmitClosed(c) \/ AdmitProbe(c) \/ RejectCooling(c) \/ RejectProbing(c)

CircuitNext ==
    \/ \E c \in Calls : \/ Request(c) \/ Admitted(c) \/ TimeoutWaiting(c)
                        \/ Ends(c) \/ Cancelled(c)
    \/ CircuitTick

CircuitSpec == CircuitInit /\ [][CircuitNext]_circuitVars

\* Documents and questions keep coming, the deadline ends every call, the event
\* loop serves a caller whose turn it is (strongly fair: callers who give up
\* while they wait do not keep everyone out for ever), and time passes
\* (strongly fair: a call at its deadline holds the clock back until it ends).
CircuitFairness ==
    /\ SF_circuitVars(CircuitTick)
    /\ \A c \in Calls : /\ WF_circuitVars(Request(c))
                        /\ SF_circuitVars(Admitted(c) \/ TimeoutWaiting(c))
                        /\ WF_circuitVars(Ends(c))

-----------------------------------------------------------------------------
(* Properties.                                                              *)

\* "One half-open probe is permitted": while the circuit is half open at most
\* one of the calls in flight was let in to probe it, although calls admitted
\* before it opened may end, and move it, at any time.  It takes a Timeout
\* below Recovery.
OneProbe ==
    state = "half_open" => Cardinality(probing) <= 1

\* The model is never out of service for good: a document or question that
\* needs it is let through again and again, whatever fails.
ModelComesBack == []<>(Running # {})

\* What the rejection says: "local model recovery probe is already running".
ProbeIsRunning ==
    state = "half_open" /\ probeInFlight => probing # {}
=============================================================================
