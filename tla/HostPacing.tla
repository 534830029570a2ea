------------------------------ MODULE HostPacing ------------------------------
(***************************************************************************)
(* How a fetch talks to one host (ingestion/policy.py, and in               *)
(* ingestion/fetcher.py _robots_decision, _fetch_robots_snapshot and        *)
(* _send_with_retries): robots.txt first, every request paced by the lock   *)
(* of the host, and failures retried.  The fetches are tasks of one event   *)
(* loop; a task may be cancelled wherever it waits, and wakes up late.      *)
(***************************************************************************)
EXTENDS Integers, FiniteSets, FiniteSetsExt

CONSTANTS
    Fetches,            \* tasks that may fetch at once
    MinInterval, MaxAttempts, MaxRedirects, RobotsTtl,
    BackoffBase, BackoffCap, MaxRetryAfter,     \* the HostPolicy of the host
    CrawlDelays, RetryAfters,                   \* what the host may ask for
    MaxPaceClock                                \* bound of the instance

NoFetch == "nobody"

ASSUME HostPolicyAssumption ==
    /\ {MaxAttempts, RobotsTtl, BackoffBase, BackoffCap} \subseteq Nat \ {0}
    /\ {MinInterval, MaxRedirects, MaxRetryAfter} \cup CrawlDelays \cup RetryAfters \subseteq Nat
    /\ NoFetch \notin Fetches

VARIABLES
    paceClock,
    hostLock,       \* the fetch that holds the lock of the host
    nextAllowed,    \* the reservation of the rate limiter
    robotsSnapshot, \* the set that holds the cached robots.txt, if there is one
    fetching,       \* what each task is doing
    lastStart       \* when the last request started, and the interval it reserved

paceVars == <<paceClock, hostLock, nextAllowed, robotsSnapshot, fetching, lastStart>>

Finished == [pc |-> "rest"]

PaceInit ==
    /\ paceClock = 0
    /\ hostLock = NoFetch
    /\ nextAllowed = 0
    /\ robotsSnapshot = {}
    /\ fetching = [f \in Fetches |-> Finished]
    /\ lastStart = [at |-> 0, interval |-> 0]

PaceTick ==
    /\ paceClock < MaxPaceClock
    /\ paceClock' = paceClock + 1
    /\ UNCHANGED <<hostLock, nextAllowed, robotsSnapshot, fetching, lastStart>>

-----------------------------------------------------------------------------
(* What a fetch does next.                                                  *)

\* A call of _send_with_retries.  redirects counts those of the page; each
\* call for robots.txt counts its own.
Sending(phase, interval, redirects, hops, sent) ==
    [pc |-> "resolve", phase |-> phase, interval |-> interval, attempt |-> 0,
     redirects |-> redirects, hops |-> hops, wake |-> 0, sent |-> sent]

LiveSnapshots == {s \in robotsSnapshot : s.expires > paceClock}

\* With a snapshot the page is requested, or the fetch is blocked.
AfterRobots(s, redirects, sent) ==
    IF s.allowed THEN Sending("page", Max({MinInterval, s.delay}), redirects, 0, sent)
                 ELSE Finished

\* _robots_decision: an expired snapshot is deleted by the look at it.
LookUpRobots(f, redirects, sent) ==
    /\ robotsSnapshot' = LiveSnapshots
    /\ fetching' = [fetching EXCEPT ![f] =
          IF LiveSnapshots = {} THEN Sending("robots", MinInterval, redirects, 0, sent)
          ELSE AfterRobots(CHOOSE s \in LiveSnapshots : TRUE, redirects, sent)]

BeginFetch(f) ==
    /\ fetching[f] = Finished
    /\ LookUpRobots(f, 0, 0)
    /\ UNCHANGED <<paceClock, hostLock, nextAllowed, lastStart>>

At(f, pc) == fetching[f] # Finished /\ fetching[f].pc = pc

Continue(f, next) ==
    /\ fetching' = [fetching EXCEPT ![f] = next]
    /\ UNCHANGED robotsSnapshot

\* validate_target before every attempt; a violation ends the fetch.
Resolve(f) ==
    /\ At(f, "resolve")
    /\ Continue(f, [fetching[f] EXCEPT !.pc = "queue"]) \/ Continue(f, Finished)
    /\ UNCHANGED <<paceClock, hostLock, nextAllowed, lastStart>>

-----------------------------------------------------------------------------
(* InMemoryHostRateLimiter.acquire.                                         *)

EnterLock(f) ==
    /\ At(f, "queue") /\ hostLock = NoFetch
    /\ hostLock' = f
    /\ Continue(f, [fetching[f] EXCEPT !.pc = "paced", !.wake = Max({paceClock, nextAllowed})])
    /\ UNCHANGED <<paceClock, nextAllowed, lastStart>>

\* Fault: the next start is counted from the time the wait began.
Reservation_FromWait(f) == nextAllowed + fetching[f].interval

\* The clock is read again after the sleep.
Reservation(f) == paceClock + fetching[f].interval

StartRequest(f) ==
    /\ At(f, "paced") /\ paceClock >= fetching[f].wake
    /\ nextAllowed' = Reservation(f)
    /\ hostLock' = NoFetch
    /\ lastStart' = [at |-> paceClock, interval |-> fetching[f].interval]
    /\ Continue(f, [fetching[f] EXCEPT !.pc = "sent", !.sent = @ + 1])
    /\ UNCHANGED paceClock

-----------------------------------------------------------------------------
(* Answers.                                                                 *)

Backoff(attempt) == Min({BackoffCap, BackoffBase * 2 ^ attempt})

\* Fault: the last attempt sleeps and tries again like the others.
LastAttempt_OneTooFar(f) == fetching[f].attempt >= MaxAttempts

LastAttempt(f) == fetching[f].attempt + 1 >= MaxAttempts

Sleep(f, duration) ==
    Continue(f, [fetching[f] EXCEPT !.pc = "backoff", !.wake = paceClock + duration])

\* A retryable status waits as long as the host asks, within bounds.
RetryStatus(f) ==
    /\ At(f, "sent") /\ ~LastAttempt(f)
    /\ \/ \E asked \in RetryAfters : Sleep(f, Min({asked, MaxRetryAfter}))
       \/ Sleep(f, Backoff(fetching[f].attempt))
    /\ UNCHANGED <<paceClock, hostLock, nextAllowed, lastStart>>

\* No response: of robots.txt it means that the page is blocked, and nothing
\* is remembered; of the page that the fetch failed.
TransportError(f) ==
    /\ At(f, "sent")
    /\ IF LastAttempt(f) THEN Continue(f, Finished)
                         ELSE Sleep(f, Backoff(fetching[f].attempt))
    /\ UNCHANGED <<paceClock, hostLock, nextAllowed, lastStart>>

WakeUp(f) ==
    /\ At(f, "backoff") /\ paceClock >= fetching[f].wake
    /\ Continue(f, [fetching[f] EXCEPT !.pc = "resolve", !.attempt = @ + 1])
    /\ UNCHANGED <<paceClock, hostLock, nextAllowed, lastStart>>

\* Every response that is returned is kept for the whole time to live, that
\* of a host that was unreachable on the last attempt too.
RobotsAnswer(f) ==
    /\ At(f, "sent") /\ fetching[f].phase = "robots"
    /\ \E allowed \in BOOLEAN, delay \in CrawlDelays :
          LET s == [allowed |-> allowed, delay |-> delay, expires |-> paceClock + RobotsTtl]
          IN /\ robotsSnapshot' = {s}
             /\ fetching' = [fetching EXCEPT ![f] =
                   AfterRobots(s, fetching[f].redirects, fetching[f].sent)]
    /\ UNCHANGED <<paceClock, hostLock, nextAllowed, lastStart>>

RobotsRedirect(f) ==
    /\ At(f, "sent") /\ fetching[f].phase = "robots"
    /\ LET x == fetching[f]
       IN Continue(f, IF x.hops >= MaxRedirects THEN Finished
                      ELSE Sending("robots", MinInterval, x.redirects, x.hops + 1, x.sent))
    /\ UNCHANGED <<paceClock, hostLock, nextAllowed, lastStart>>

\* What the page answers ends the fetch, but for a redirect: its target is
\* asked for under robots.txt again.
PageAnswer(f) ==
    /\ At(f, "sent") /\ fetching[f].phase = "page"
    /\ Continue(f, Finished)
    /\ UNCHANGED <<paceClock, hostLock, nextAllowed, lastStart>>

PageRedirect(f) ==
    /\ At(f, "sent") /\ fetching[f].phase = "page"
    /\ fetching[f].redirects < MaxRedirects
    /\ LookUpRobots(f, fetching[f].redirects + 1, fetching[f].sent)
    /\ UNCHANGED <<paceClock, hostLock, nextAllowed, lastStart>>

\* The lock is left by `async with`, the reservation is not made.
CancelFetch(f) ==
    /\ fetching[f] # Finished
    /\ hostLock' = IF hostLock = f THEN NoFetch ELSE hostLock
    /\ Continue(f, Finished)
    /\ UNCHANGED <<paceClock, nextAllowed, lastStart>>

PaceNext ==
    \/ PaceTick
    \/ \E f \in Fetches :
          \/ BeginFetch(f) \/ Resolve(f) \/ EnterLock(f) \/ StartRequest(f)
          \/ RetryStatus(f) \/ TransportError(f) \/ WakeUp(f)
          \/ RobotsAnswer(f) \/ RobotsRedirect(f) \/ PageAnswer(f) \/ PageRedirect(f)
          \/ CancelFetch(f)

PaceSpec == PaceInit /\ [][PaceNext]_paceVars

-----------------------------------------------------------------------------

\* No request to a host starts before the interval of the one before it is
\* over, whichever tasks wait, are cancelled or wake up late.
StartsAreSpaced ==
    [][lastStart' # lastStart => paceClock >= lastStart.at + lastStart.interval]_paceVars

\* Retries, redirects and robots.txt together have an end: a fetch sends at
\* most MaxAttempts requests for each of the pages of its chain and for each
\* of the hops to the robots.txt of such a page.
RequestsAreBounded ==
    \A f \in Fetches : fetching[f] # Finished =>
        fetching[f].sent <=
            MaxAttempts * (fetching[f].redirects + 1) * (MaxRedirects + 2)
=============================================================================
