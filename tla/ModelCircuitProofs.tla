------------------------- MODULE ModelCircuitProofs -------------------------
(***************************************************************************)
(* Proofs about ModelCircuit, for any callers, thresholds and times, and    *)
(* whichever phases a call may be cancelled in.                             *)
(***************************************************************************)
EXTENDS ModelCircuit, FiniteSetTheorems, TLAPS

\* The flag is set while the circuit is half open and at no other time.
FlagInv == probeInFlight <=> state = "half_open"

\* The calls in flight fill the slots at most.
SlotsInv == IsFiniteSet(Running) /\ Cardinality(Running) <= Slots

\* A probe is in flight, one at most while the circuit is half open.  When the
\* circuit is open it was admitted before the circuit opened, and its deadline
\* is counted from an earlier time.
ProbeInv ==
    /\ probing \subseteq Running
    /\ state = "half_open" => \E c \in Calls : probing \subseteq {c}
    /\ state = "open" => \A c \in probing : age[c] >= cooled

IInv == CircuitTypeOK /\ FlagInv /\ SlotsInv /\ ProbeInv

\* Two ways to leave no room for a second probe: calls come one at a time, as
\* the extraction client has them unless MODEL_CONCURRENCY says otherwise, or
\* every call ends before the circuit has cooled down.
Serial == Slots = 1
Prompt == Timeout < Recovery

-----------------------------------------------------------------------------
(* The slots.                                                               *)

\* A call that goes takes itself out of the calls in flight.
LEMMA LeaveSlots ==
    ASSUME CircuitTypeOK, SlotsInv, NEW c \in Calls, Leave(c)
    PROVE  /\ Running' = Running \ {c} /\ SlotsInv'
           /\ call' \in [Calls -> {"idle", "waiting", "running"}]
           /\ age' \in [Calls -> 0..Timeout]
           /\ probing' = probing \ {c}
           /\ \A d \in Calls \ {c} : age'[d] = age[d]
  <1>0. /\ call \in [Calls -> {"idle", "waiting", "running"}]
        /\ age \in [Calls -> 0..Timeout]
        /\ call' = [call EXCEPT ![c] = "idle"] /\ age' = [age EXCEPT ![c] = 0]
        /\ probing' = probing \ {c}
    BY DEF CircuitTypeOK, Leave
  <1>1. Running' = Running \ {c}
    BY <1>0 DEF Running
  <1>2. IsFiniteSet(Running) /\ Cardinality(Running) <= Slots
    BY DEF SlotsInv
  <1>3. IsFiniteSet(Running') /\ Cardinality(Running') <= Cardinality(Running)
    BY <1>1, <1>2, FS_Subset
  <1>4. Cardinality(Running') \in Nat /\ Cardinality(Running) \in Nat
    BY <1>2, <1>3, FS_CardinalityType
  <1>5. SlotsInv'
    BY <1>2, <1>3, <1>4, CircuitAssumption DEF SlotsInv
  <1>6. age' \in [Calls -> 0..Timeout]
    BY <1>0, CircuitAssumption
  <1> QED BY <1>0, <1>1, <1>5, <1>6

\* A call whose turn it is takes a slot that is free.
LEMMA EnterSlots ==
    ASSUME CircuitTypeOK, SlotsInv, NEW c \in Calls, Turn(c), NEW probe, Enter(c, probe)
    PROVE  /\ Running' = Running \cup {c} /\ SlotsInv'
           /\ call' \in [Calls -> {"idle", "waiting", "running"}]
           /\ age' = age
           /\ Slots = 1 => Running = {}
  <1>0. /\ call \in [Calls -> {"idle", "waiting", "running"}]
        /\ call[c] = "waiting" /\ Cardinality(Running) < Slots
        /\ call' = [call EXCEPT ![c] = "running"] /\ age' = age
        /\ IsFiniteSet(Running)
    BY DEF CircuitTypeOK, Turn, Enter, SlotsInv
  <1>1. Running' = Running \cup {c} /\ c \notin Running
    BY <1>0 DEF Running
  <1>2. Cardinality(Running) \in Nat
    BY <1>0, FS_CardinalityType
  <1>3. IsFiniteSet(Running') /\ Cardinality(Running') = Cardinality(Running) + 1
    BY <1>0, <1>1, FS_AddElement
  <1>4. SlotsInv'
    BY <1>0, <1>2, <1>3, CircuitAssumption DEF SlotsInv
  <1>5. Slots = 1 => Running = {}
    BY <1>0, <1>2, FS_EmptySet
  <1> QED BY <1>0, <1>1, <1>4, <1>5

-----------------------------------------------------------------------------
(* The steps.                                                               *)

\* CircuitInit establishes the invariant.
LEMMA InitIInv == CircuitInit => IInv
  <1> SUFFICES ASSUME CircuitInit PROVE IInv
    OBVIOUS
  <1>1. CircuitTypeOK
    <2>1. 0 \in 0..FailureThreshold /\ 0 \in 0..ContentThreshold /\ 0 \in 0..Recovery
          /\ 0 \in 0..Timeout
      BY CircuitAssumption
    <2> QED BY <2>1 DEF CircuitInit, CircuitTypeOK
  <1>2. Running = {}
    BY DEF CircuitInit, Running
  <1>3. SlotsInv
    BY <1>2, FS_EmptySet, CircuitAssumption DEF SlotsInv
  <1>4. FlagInv /\ ProbeInv
    BY <1>2 DEF CircuitInit, FlagInv, ProbeInv
  <1> QED BY <1>1, <1>3, <1>4 DEF IInv

\* A call that ends, or is turned away, leaves one probe at most, whatever it
\* makes of the circuit: a circuit that it opens starts to cool.
LEMMA LeaveIInv ==
    ASSUME IInv, NEW c \in Calls, Leave(c),
           state' \in {"closed", "open", "half_open"},
           failures' \in 0..FailureThreshold, contentFailures' \in 0..ContentThreshold,
           cooled' \in 0..Recovery, probeInFlight' \in BOOLEAN,
           FlagInv',
           state' = "half_open" => state = "half_open",
           state' = "open" => cooled' = 0 \/ (state = "open" /\ cooled' = cooled)
    PROVE  IInv'
  <1>0. CircuitTypeOK /\ SlotsInv /\ ProbeInv
    BY DEF IInv
  <1>1. /\ Running' = Running \ {c} /\ SlotsInv'
        /\ call' \in [Calls -> {"idle", "waiting", "running"}]
        /\ age' \in [Calls -> 0..Timeout]
        /\ probing' = probing \ {c}
        /\ \A d \in Calls \ {c} : age'[d] = age[d]
    BY <1>0, LeaveSlots
  <1>2. probing \subseteq Calls /\ probing \subseteq Running
    BY <1>0 DEF CircuitTypeOK, ProbeInv
  <1>3. CircuitTypeOK'
    BY <1>1, <1>2 DEF CircuitTypeOK
  <1>4. state' = "half_open" => \E d \in Calls : probing' \subseteq {d}
    BY <1>0, <1>1 DEF ProbeInv
  <1>5. state' = "open" => \A d \in probing' : age'[d] >= cooled'
    BY <1>0, <1>1, <1>2, CircuitAssumption DEF ProbeInv, CircuitTypeOK
  <1>6. ProbeInv'
    BY <1>1, <1>2, <1>4, <1>5 DEF ProbeInv
  <1> QED BY <1>1, <1>3, <1>6 DEF IInv

\* A call that is admitted by a closed circuit is no probe.
LEMMA AdmitClosedIInv ==
    ASSUME IInv, NEW c \in Calls, AdmitClosed(c)
    PROVE  IInv'
  <1>0. /\ CircuitTypeOK /\ SlotsInv /\ ProbeInv /\ FlagInv
        /\ Turn(c) /\ Enter(c, FALSE) /\ state = "closed"
        /\ UNCHANGED <<state, failures, contentFailures, cooled, probeInFlight>>
        /\ probing' = probing
    BY DEF IInv, AdmitClosed, circuit, Enter
  <1>1. /\ Running' = Running \cup {c} /\ SlotsInv' /\ age' = age
        /\ call' \in [Calls -> {"idle", "waiting", "running"}]
    BY <1>0, EnterSlots
  <1>2. CircuitTypeOK'
    BY <1>0, <1>1 DEF CircuitTypeOK
  <1>3. FlagInv' /\ ProbeInv'
    BY <1>0, <1>1 DEF FlagInv, ProbeInv
  <1> QED BY <1>1, <1>2, <1>3 DEF IInv

\* The probe is alone: calls come one at a time, or the probe before it has
\* come to its deadline while the circuit cooled down.
LEMMA AdmitProbeIInv ==
    ASSUME IInv, Serial \/ Prompt, NEW c \in Calls, AdmitProbe(c)
    PROVE  IInv'
  <1>0. /\ CircuitTypeOK /\ SlotsInv /\ ProbeInv /\ FlagInv
        /\ Turn(c) /\ Enter(c, TRUE) /\ state # "closed" /\ ~Cooling /\ ~probeInFlight
        /\ state' = "half_open" /\ probeInFlight' = TRUE
        /\ UNCHANGED <<failures, contentFailures, cooled>>
        /\ probing' = probing \cup {c}
    BY DEF IInv, AdmitProbe, Enter
  <1>1. /\ Running' = Running \cup {c} /\ SlotsInv' /\ age' = age
        /\ call' \in [Calls -> {"idle", "waiting", "running"}]
        /\ Slots = 1 => Running = {}
    BY <1>0, EnterSlots
  <1>2. state = "open" /\ cooled = Recovery
    BY <1>0, CircuitAssumption DEF FlagInv, CircuitTypeOK, Cooling
  <1>3. probing = {}
    <2>1. CASE Serial
      BY <1>0, <1>1, <2>1 DEF Serial, ProbeInv
    <2>2. ASSUME Prompt, NEW d \in probing
          PROVE  FALSE
      <3>1. age[d] >= Recovery
        BY <1>0, <1>2, <2>2 DEF ProbeInv
      <3>2. age[d] \in 0..Timeout
        BY <1>0, <2>2 DEF CircuitTypeOK
      <3> QED BY <2>2, <3>1, <3>2, CircuitAssumption DEF Prompt
    <2> QED BY <2>1, <2>2
  <1>4. CircuitTypeOK'
    BY <1>0, <1>1 DEF CircuitTypeOK
  <1>5. FlagInv' /\ ProbeInv'
    BY <1>0, <1>1, <1>3 DEF FlagInv, ProbeInv
  <1> QED BY <1>1, <1>4, <1>5 DEF IInv

\* The rejection of a call that finds the probe, which is in flight only while
\* the circuit is half open.
LEMMA RejectIInv ==
    ASSUME IInv, NEW c \in Calls, RejectCooling(c) \/ RejectProbing(c)
    PROVE  IInv'
  <1>0. CircuitTypeOK /\ FlagInv
    BY DEF IInv
  <1>1. /\ Leave(c)
        /\ UNCHANGED <<failures, contentFailures, cooled, probeInFlight>>
        /\ state' = state
    BY <1>0 DEF FlagInv, RejectCooling, RejectProbing, circuit
  <1>2. FlagInv'
    BY <1>0, <1>1 DEF FlagInv
  <1> QED BY <1>0, <1>1, <1>2, LeaveIInv DEF CircuitTypeOK

\* A call that ends closes the circuit, opens it, or leaves an open or closed
\* one as it is.
LEMMA EndsIInv ==
    ASSUME IInv, NEW c \in Calls, Ends(c)
    PROVE  IInv'
  <1>0. CircuitTypeOK /\ FlagInv
    BY DEF IInv
  <1>1. CASE Answered(c)
    <2>1. /\ Leave(c)
          /\ state' = "closed" /\ failures' = 0 /\ contentFailures' = 0
          /\ cooled' = 0 /\ probeInFlight' = FALSE
      BY <1>1 DEF Answered
    <2>2. FlagInv'
      BY <2>1 DEF FlagInv
    <2>3. /\ 0 \in 0..FailureThreshold /\ 0 \in 0..ContentThreshold /\ 0 \in 0..Recovery
          /\ "closed" \in {"closed", "open", "half_open"} /\ FALSE \in BOOLEAN
      BY CircuitAssumption
    <2>4. /\ state' = "half_open" => state = "half_open"
          /\ state' = "open" => cooled' = 0 \/ (state = "open" /\ cooled' = cooled)
      BY <2>1
    <2>5. /\ state' \in {"closed", "open", "half_open"}
          /\ failures' \in 0..FailureThreshold /\ contentFailures' \in 0..ContentThreshold
          /\ cooled' \in 0..Recovery /\ probeInFlight' \in BOOLEAN
      BY <2>1, <2>3
    <2> QED BY <2>1, <2>2, <2>4, <2>5, LeaveIInv
  <1>2. CASE DependencyFails(c)
    <2> DEFINE n == UpTo(failures + 1, FailureThreshold)
               opens == state = "half_open" \/ n = FailureThreshold
    <2>1. /\ Leave(c) /\ failures' = n /\ contentFailures' = contentFailures
          /\ probeInFlight' = FALSE
          /\ state' = IF opens THEN "open" ELSE state
          /\ cooled' = IF opens THEN 0 ELSE cooled
      BY <1>2 DEF DependencyFails
    <2>2. n \in 0..FailureThreshold
      BY <1>0, CircuitAssumption DEF CircuitTypeOK, UpTo
    <2> HIDE DEF n
    <2>3. FlagInv'
      BY <1>0, <2>1 DEF FlagInv
    <2>4. state' \in {"closed", "open", "half_open"} /\ cooled' \in 0..Recovery
      BY <1>0, <2>1, CircuitAssumption DEF CircuitTypeOK
    <2>5. /\ state' = "half_open" => state = "half_open"
          /\ state' = "open" => cooled' = 0 \/ (state = "open" /\ cooled' = cooled)
      BY <2>1
    <2> HIDE DEF opens
    <2> QED BY <1>0, <2>1, <2>2, <2>3, <2>4, <2>5, LeaveIInv DEF CircuitTypeOK
  <1>3. CASE ContentRejected(c)
    <2> DEFINE n == UpTo(contentFailures + 1, ContentThreshold)
               opens == n = ContentThreshold
               recovers == ~opens /\ state = "half_open"
    <2>1. /\ Leave(c) /\ contentFailures' = n
          /\ probeInFlight' = FALSE
          /\ state' = IF opens THEN "open" ELSE IF recovers THEN "closed" ELSE state
          /\ failures' = IF recovers THEN 0 ELSE failures
          /\ cooled' = IF opens \/ recovers THEN 0 ELSE cooled
      BY <1>3 DEF ContentRejected
    <2>2. n \in 0..ContentThreshold
      BY <1>0, CircuitAssumption DEF CircuitTypeOK, UpTo
    <2> HIDE DEF n
    <2>3. FlagInv'
      BY <1>0, <2>1 DEF FlagInv
    <2>4. /\ state' \in {"closed", "open", "half_open"} /\ cooled' \in 0..Recovery
          /\ failures' \in 0..FailureThreshold
      BY <1>0, <2>1, CircuitAssumption DEF CircuitTypeOK
    <2>5. /\ state' = "half_open" => state = "half_open"
          /\ state' = "open" => cooled' = 0 \/ (state = "open" /\ cooled' = cooled)
      BY <2>1
    <2> HIDE DEF opens, recovers
    <2> QED BY <2>1, <2>2, <2>3, <2>4, <2>5, LeaveIInv
  <1> QED BY <1>1, <1>2, <1>3 DEF Ends

\* A call that gives up while it waits or runs leaves the circuit as it is.
LEMMA GiveUpIInv ==
    ASSUME IInv, NEW c \in Calls, TimeoutWaiting(c) \/ Cancelled(c)
    PROVE  IInv'
  <1>0. CircuitTypeOK /\ FlagInv
    BY DEF IInv
  <1>1. /\ Leave(c)
        /\ UNCHANGED <<state, failures, contentFailures, cooled, probeInFlight>>
    BY DEF TimeoutWaiting, Cancelled, circuit
  <1>2. FlagInv'
    BY <1>0, <1>1 DEF FlagInv
  <1> QED BY <1>0, <1>1, <1>2, LeaveIInv DEF CircuitTypeOK

\* A call begins to wait.
LEMMA RequestIInv ==
    ASSUME IInv, NEW c \in Calls, Request(c)
    PROVE  IInv'
  <1>0. /\ CircuitTypeOK /\ SlotsInv /\ ProbeInv /\ FlagInv
        /\ call[c] = "idle"
        /\ call' = [call EXCEPT ![c] = "waiting"] /\ age' = [age EXCEPT ![c] = 0]
        /\ UNCHANGED <<state, failures, contentFailures, cooled, probeInFlight, probing>>
    BY DEF IInv, Request, circuit
  <1>1. Running' = Running
    BY <1>0 DEF Running, CircuitTypeOK
  <1>2. c \notin probing
    BY <1>0 DEF ProbeInv, Running
  <1>3. CircuitTypeOK'
    <2>1. age' \in [Calls -> 0..Timeout]
      BY <1>0, CircuitAssumption DEF CircuitTypeOK
    <2> QED BY <1>0, <2>1 DEF CircuitTypeOK
  <1>4. SlotsInv' /\ FlagInv'
    BY <1>0, <1>1 DEF SlotsInv, FlagInv
  <1>5. \A d \in probing : age'[d] = age[d]
    BY <1>0, <1>2 DEF CircuitTypeOK
  <1>6. ProbeInv'
    BY <1>0, <1>1, <1>5 DEF ProbeInv
  <1> QED BY <1>3, <1>4, <1>6 DEF IInv

\* A second passes for the calls and for the circuit alike.
LEMMA TickIInv ==
    ASSUME IInv, CircuitTick
    PROVE  IInv'
  <1>0. /\ CircuitTypeOK /\ SlotsInv /\ ProbeInv /\ FlagInv
        /\ \A c \in Calls : call[c] # "idle" => age[c] < Timeout
        /\ age' = [c \in Calls |-> IF call[c] = "idle" THEN 0 ELSE age[c] + 1]
        /\ cooled' = IF state = "open" THEN UpTo(cooled + 1, Recovery) ELSE cooled
        /\ UNCHANGED <<state, failures, contentFailures, probeInFlight, call, probing>>
    BY DEF IInv, CircuitTick
  <1>1. Running' = Running
    BY <1>0 DEF Running
  <1>2. age' \in [Calls -> 0..Timeout]
    BY <1>0, CircuitAssumption DEF CircuitTypeOK
  <1>3. cooled' \in 0..Recovery
    BY <1>0, CircuitAssumption DEF CircuitTypeOK, UpTo
  <1>4. CircuitTypeOK'
    BY <1>0, <1>2, <1>3 DEF CircuitTypeOK
  <1>5. SlotsInv' /\ FlagInv'
    BY <1>0, <1>1 DEF SlotsInv, FlagInv
  <1>6. ASSUME state = "open", NEW c \in probing
        PROVE  age'[c] >= cooled'
    <2>1. c \in Calls /\ call[c] = "running"
      BY <1>0, <1>6 DEF ProbeInv, Running
    <2>2. age'[c] = age[c] + 1 /\ age[c] \in 0..Timeout
      BY <1>0, <2>1 DEF CircuitTypeOK
    <2>3. age[c] >= cooled /\ cooled \in 0..Recovery
      BY <1>0, <1>6 DEF ProbeInv, CircuitTypeOK
    <2>4. cooled' <= cooled + 1
      BY <1>0, <1>6, <2>3, CircuitAssumption DEF UpTo
    <2> QED BY <1>3, <2>2, <2>3, <2>4, CircuitAssumption
  <1>7. ProbeInv'
    BY <1>0, <1>1, <1>6 DEF ProbeInv
  <1> QED BY <1>4, <1>5, <1>7 DEF IInv

-----------------------------------------------------------------------------

\* Every step keeps the invariant.
LEMMA NextIInv == ASSUME Serial \/ Prompt PROVE IInv /\ [CircuitNext]_circuitVars => IInv'
  <1> SUFFICES ASSUME IInv, [CircuitNext]_circuitVars PROVE IInv'
    OBVIOUS
  <1>1. ASSUME NEW c \in Calls, Request(c) PROVE IInv'
    BY <1>1, RequestIInv
  <1>2. ASSUME NEW c \in Calls, Admitted(c) PROVE IInv'
    BY <1>2, AdmitClosedIInv, AdmitProbeIInv, RejectIInv DEF Admitted
  <1>3. ASSUME NEW c \in Calls, TimeoutWaiting(c) \/ Cancelled(c) PROVE IInv'
    BY <1>3, GiveUpIInv
  <1>4. ASSUME NEW c \in Calls, Ends(c) PROVE IInv'
    BY <1>4, EndsIInv
  <1>5. ASSUME CircuitTick PROVE IInv'
    BY <1>5, TickIInv
  <1>6. CASE UNCHANGED circuitVars
    BY <1>6 DEF circuitVars, circuit, IInv, CircuitTypeOK, FlagInv, SlotsInv, ProbeInv, Running
  <1> QED BY <1>1, <1>2, <1>3, <1>4, <1>5, <1>6 DEF CircuitNext

\* The invariant of the circuit and of the calls that share it.
LEMMA Invariance == ASSUME Serial \/ Prompt PROVE CircuitSpec => []IInv
  <1> QED BY InitIInv, NextIInv, PTL DEF CircuitSpec

\* While the circuit is half open one call at most probes it: for any number
\* of callers that take turns (MODEL_CONCURRENCY=1, the default), and for
\* callers at once whose deadline is before the end of the recovery.
THEOREM OneProbeAtATime == ASSUME Serial \/ Prompt PROVE CircuitSpec => []OneProbe
  <1>1. IInv => OneProbe
    <2> SUFFICES ASSUME IInv, state = "half_open" PROVE Cardinality(probing) <= 1
      BY DEF OneProbe
    <2>1. PICK c \in Calls : probing \subseteq {c}
      BY DEF IInv, ProbeInv
    <2>2. IsFiniteSet({c}) /\ Cardinality({c}) = 1
      BY FS_Singleton, Zenon
    <2>3. Cardinality(probing) <= Cardinality({c})
      BY <2>1, <2>2, FS_Subset
    <2> QED BY <2>2, <2>3
  <1> QED BY <1>1, Invariance, PTL
=============================================================================
