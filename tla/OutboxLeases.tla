------------------------------ MODULE OutboxLeases ------------------------------
(***************************************************************************)
(* Publishing the outbox (OutboxRepository.claim_next, mark_published and   *)
(* release, storage/repositories.py).  A publisher holds a lease of one     *)
(* event at a time, hands the event on, and says so in a transaction of its *)
(* own; it may die or stall anywhere.  The statements of a claim see one    *)
(* instant, and their row locks make a claim one step here.                 *)
(***************************************************************************)
EXTENDS Integers, Sequences, FiniteSets

CONSTANTS
    Publishers,
    LeaseFor, RetryAfter, MaxPublishAttempts,
    OutboxSize, MaxOutboxClock     \* bounds of the instance

ASSUME OutboxAssumption == {LeaseFor, RetryAfter, MaxPublishAttempts} \subseteq Nat \ {0}

Nobody == "nobody"
NoLease == [attempt |-> 0]

VARIABLES
    outboxClock,
    events,        \* the rows of outbox_events, by their feed sequence
    publisher,     \* the lease each publisher believes to hold
    handedOn       \* how often each event was handed on, and under which attempt

outboxVars == <<outboxClock, events, publisher, handedOn>>

Unleased == [by |-> Nobody, token |-> 0, expires |-> 0]

OutboxInit ==
    /\ outboxClock = 0
    /\ events = <<>>
    /\ publisher = [p \in Publishers |-> NoLease]
    /\ handedOn = <<>>

OutboxTick ==
    /\ outboxClock < MaxOutboxClock
    /\ outboxClock' = outboxClock + 1
    /\ UNCHANGED <<events, publisher, handedOn>>

AddOutboxEvent ==
    /\ Len(events) < OutboxSize
    /\ events' = Append(events, [published |-> FALSE, available |-> outboxClock, attempts |-> 0,
                                 lease |-> Unleased])
    /\ handedOn' = Append(handedOn, {})
    /\ UNCHANGED <<outboxClock, publisher>>

\* The attempts that are used up only lose their lease: there is no dead
\* state, and nothing claims the event again.
ClearUsedUp(e) ==
    IF /\ ~e.published /\ e.lease # Unleased /\ e.lease.expires <= outboxClock
       /\ e.attempts >= MaxPublishAttempts
    THEN [e EXCEPT !.lease = Unleased] ELSE e

ClaimableEvents ==
    {i \in DOMAIN events :
        /\ ~events[i].published /\ events[i].available <= outboxClock
        /\ events[i].attempts < MaxPublishAttempts
        /\ events[i].lease = Unleased \/ events[i].lease.expires <= outboxClock}

FirstClaimable ==
    {i \in ClaimableEvents : \A j \in ClaimableEvents :
        \/ events[i].available < events[j].available
        \/ events[i].available = events[j].available /\ i <= j}

\* A new token for every attempt.
ClaimEvent(p) ==
    /\ publisher[p] = NoLease
    /\ FirstClaimable # {}
    /\ LET i == CHOOSE i \in FirstClaimable : TRUE
           attempt == events[i].attempts + 1
       IN /\ events' = [j \in DOMAIN events |->
                 IF j = i THEN [events[i] EXCEPT !.attempts = attempt,
                                  !.lease = [by |-> p, token |-> attempt,
                                             expires |-> outboxClock + LeaseFor]]
                 ELSE ClearUsedUp(events[j])]
          /\ publisher' = [publisher EXCEPT ![p] =
                 [attempt |-> attempt, event |-> i, done |-> FALSE]]
    /\ UNCHANGED <<outboxClock, handedOn>>

ClaimNothing(p) ==
    /\ publisher[p] = NoLease
    /\ FirstClaimable = {}
    /\ events' = [j \in DOMAIN events |-> ClearUsedUp(events[j])]
    /\ UNCHANGED <<outboxClock, publisher, handedOn>>

\* The caller's own work, outside any transaction.
HandOn(p) ==
    /\ publisher[p] # NoLease /\ ~publisher[p].done
    /\ publisher' = [publisher EXCEPT ![p].done = TRUE]
    /\ handedOn' = [handedOn EXCEPT ![publisher[p].event] = @ \cup {publisher[p].attempt}]
    /\ UNCHANGED <<outboxClock, events>>

\* Fault: whoever had a lease once may say that the event is published.
OwnsEvent_Once(p) == ~events[publisher[p].event].published

OwnsEvent(p) ==
    LET e == events[publisher[p].event]
    IN /\ ~e.published
       /\ e.lease.by = p /\ e.lease.token = publisher[p].attempt
       /\ e.lease.expires > outboxClock

MarkPublished(p) ==
    /\ publisher[p] # NoLease /\ publisher[p].done
    /\ OwnsEvent(p)
    /\ events' = [events EXCEPT ![publisher[p].event] =
                    [@ EXCEPT !.published = TRUE, !.lease = Unleased]]
    /\ publisher' = [publisher EXCEPT ![p] = NoLease]
    /\ UNCHANGED <<outboxClock, handedOn>>

ReleaseEvent(p) ==
    /\ publisher[p] # NoLease /\ ~publisher[p].done
    /\ OwnsEvent(p)
    /\ events' = [events EXCEPT ![publisher[p].event] =
                    [@ EXCEPT !.available = outboxClock + RetryAfter, !.lease = Unleased]]
    /\ publisher' = [publisher EXCEPT ![p] = NoLease]
    /\ UNCHANGED <<outboxClock, handedOn>>

\* LeaseLostError, or the end of the process.
PublisherStops(p) ==
    /\ publisher[p] # NoLease
    /\ publisher' = [publisher EXCEPT ![p] = NoLease]
    /\ UNCHANGED <<outboxClock, events, handedOn>>

OutboxNext ==
    \/ OutboxTick \/ AddOutboxEvent
    \/ \E p \in Publishers :
          \/ ClaimEvent(p) \/ ClaimNothing(p) \/ HandOn(p)
          \/ MarkPublished(p) \/ ReleaseEvent(p) \/ PublisherStops(p)

OutboxSpec == OutboxInit /\ [][OutboxNext]_outboxVars

-----------------------------------------------------------------------------

\* An event that is marked published was handed on under the last lease there
\* was of it, and is never leased again: a publisher that stalled beyond its
\* lease changes nothing of what its successor did.
PublishedByLastLease ==
    \A i \in DOMAIN events :
        events[i].published =>
            events[i].lease = Unleased /\ events[i].attempts \in handedOn[i]
=============================================================================
