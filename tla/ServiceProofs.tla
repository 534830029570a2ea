---------------------------- MODULE ServiceProofs ----------------------------
(***************************************************************************)
(* Proofs about HostPacing, SourceRegistry and OutboxLeases, each a part of *)
(* the system that several processes or fetches share: for any number of    *)
(* them, any releases, any times and any bounds of the instance.            *)
(***************************************************************************)
EXTENDS HostPacing, SourceRegistry, OutboxLeases, SequenceTheorems, TLAPS

-----------------------------------------------------------------------------
(* A host.                                                                  *)

Snapshot == [allowed : BOOLEAN, delay : Nat, expires : Int]

\* A fetch, whenever it wakes up.
IsFetch(x) ==
    x \in [pc : {"resolve", "queue", "paced", "sent", "backoff"}, phase : {"robots", "page"},
           interval : Int, attempt : Nat, redirects : 0..MaxRedirects, hops : 0..MaxRedirects,
           wake : {x.wake}, sent : Nat]

PaceTypeOK ==
    /\ paceClock \in Nat
    /\ nextAllowed \in Int
    /\ lastStart \in [at : Int, interval : Int]
    /\ robotsSnapshot \subseteq Snapshot
    /\ fetching = [f \in Fetches |-> fetching[f]]
    /\ \A f \in Fetches : fetching[f] = Finished \/ IsFetch(fetching[f])

\* The limiter: what it allows next is the end of the last interval, and who
\* has waited for it holds the lock of the host.
Limiter ==
    /\ nextAllowed = lastStart.at + lastStart.interval
    /\ \A f \in Fetches : At(f, "paced") =>
          hostLock = f /\ fetching[f].wake \in Int /\ fetching[f].wake >= nextAllowed

\* The calls of _send_with_retries that are over: every page of the chain takes
\* one, and one for each hop to its robots.txt.
CallsBefore(x) ==
    x.redirects * (MaxRedirects + 2) + (IF x.phase = "robots" THEN x.hops ELSE MaxRedirects + 1)

\* The attempts of the call it is at that have sent a request.
Tried(x) == x.attempt + (IF x.pc \in {"sent", "backoff"} THEN 1 ELSE 0)

\* What a fetch has sent: MaxAttempts in each call before, and one in each
\* attempt of this one.
Within(x) ==
    /\ x.attempt < MaxAttempts
    /\ x.pc = "backoff" => Tried(x) < MaxAttempts
    /\ x.sent <= MaxAttempts * CallsBefore(x) + Tried(x)

PaceInv ==
    /\ PaceTypeOK
    /\ Limiter
    /\ \A f \in Fetches : fetching[f] # Finished => Within(fetching[f])

\* The larger of two numbers is one of them.
LEMMA MaxOfTwo ==
    ASSUME NEW i \in Int, NEW j \in Int
    PROVE  Max({i, j}) \in Int /\ Max({i, j}) >= i /\ Max({i, j}) >= j
  <1>1. \E x \in {i, j} : \A y \in {i, j} : x >= y
    OBVIOUS
  <1>2. Max({i, j}) \in {i, j} /\ \A y \in {i, j} : Max({i, j}) >= y
    BY <1>1 DEF Max
  <1> QED BY <1>2

\* One call more makes room for MaxAttempts more requests.
LEMMA OneCallMore ==
    ASSUME NEW m \in Nat, NEW i \in Nat, NEW j \in Nat, i < j
    PROVE  m * i \in Nat /\ m * j \in Nat /\ m * i + m <= m * j
  <1>1. PICK k \in Nat : j = i + 1 + k
    <2>1. j - i - 1 \in Nat /\ j = i + 1 + (j - i - 1)
      OBVIOUS
    <2> QED BY <2>1
  <1>2. m * j = m * i + m + m * k
    BY <1>1
  <1>3. m * k \in Nat /\ m * i \in Nat /\ m * j \in Nat
    OBVIOUS
  <1> QED BY <1>2, <1>3

\* What the policy is.
LEMMA Policy ==
    /\ MaxAttempts \in Nat /\ 1 <= MaxAttempts /\ MaxRedirects \in Nat
    /\ MinInterval \in Nat /\ RobotsTtl \in Nat /\ CrawlDelays \subseteq Nat
    /\ NoFetch \notin Fetches
  BY HostPolicyAssumption

\* The calls there were are a number, and one page has MaxRedirects + 2.
LEMMA Calls ==
    ASSUME NEW x, IsFetch(x)
    PROVE  /\ CallsBefore(x) \in Nat
           /\ x.redirects * (MaxRedirects + 2) <= CallsBefore(x)
           /\ CallsBefore(x) < (x.redirects + 1) * (MaxRedirects + 2)
           /\ (x.redirects + 1) * (MaxRedirects + 2) \in Nat
           /\ (x.redirects + 1) * (MaxRedirects + 2)
                 = x.redirects * (MaxRedirects + 2) + (MaxRedirects + 2)
  <1>1. /\ x.redirects \in Nat /\ x.hops \in Nat /\ x.hops <= MaxRedirects /\ MaxRedirects \in Nat
        /\ x.phase \in {"robots", "page"}
    BY Policy DEF IsFetch
  <1> DEFINE k == MaxRedirects + 2
             r == x.redirects
  <1>2. r * k \in Nat /\ (r + 1) * k = r * k + k /\ k \in Nat
    BY <1>1
  <1> HIDE DEF r
  <1>3. CallsBefore(x) = r * k + (IF x.phase = "robots" THEN x.hops ELSE MaxRedirects + 1)
    BY DEF CallsBefore, r
  <1>4. CallsBefore(x) \in Nat /\ r * k <= CallsBefore(x) /\ CallsBefore(x) < r * k + k
    BY <1>1, <1>2, <1>3
  <1>5. (r + 1) * k \in Nat
    BY <1>2
  <1> QED BY <1>2, <1>4, <1>5 DEF r

\* What a fetch has sent when it is at an answer is within the calls that are
\* over and the one it is at.
LEMMA SentSoFar ==
    ASSUME PaceInv, NEW f \in Fetches, At(f, "sent")
    PROVE  /\ IsFetch(fetching[f]) /\ fetching[f].sent \in Nat
           /\ fetching[f].attempt \in Nat /\ fetching[f].attempt < MaxAttempts
           /\ fetching[f].sent <= MaxAttempts * CallsBefore(fetching[f]) + MaxAttempts
           /\ fetching[f].sent <= MaxAttempts * CallsBefore(fetching[f])
                                    + fetching[f].attempt + 1
  <1>1. fetching[f] # Finished /\ fetching[f].pc = "sent"
    BY DEF At
  <1>2. IsFetch(fetching[f]) /\ Within(fetching[f])
    BY <1>1 DEF PaceInv, PaceTypeOK
  <1>3. fetching[f].sent \in Nat /\ fetching[f].attempt \in Nat
    BY <1>2 DEF IsFetch
  <1>4. MaxAttempts * CallsBefore(fetching[f]) \in Nat
    BY <1>2, Calls, Policy
  <1>5. /\ fetching[f].attempt < MaxAttempts
        /\ fetching[f].sent <= MaxAttempts * CallsBefore(fetching[f]) + fetching[f].attempt + 1
    BY <1>1, <1>2, <1>3, <1>4, Policy DEF Within, Tried
  <1> QED BY <1>2, <1>3, <1>4, <1>5, Policy

\* A call that begins after all that was sent.
LEMMA CallBegins ==
    ASSUME NEW phase \in {"robots", "page"}, NEW interval \in Int,
           NEW redirects \in 0..MaxRedirects, NEW hops \in 0..MaxRedirects, NEW sent \in Nat,
           sent <= MaxAttempts * CallsBefore(Sending(phase, interval, redirects, hops, sent))
    PROVE  /\ IsFetch(Sending(phase, interval, redirects, hops, sent))
           /\ Within(Sending(phase, interval, redirects, hops, sent))
           /\ Sending(phase, interval, redirects, hops, sent).pc = "resolve"
  <1> DEFINE x == Sending(phase, interval, redirects, hops, sent)
  <1>1. /\ x.pc = "resolve" /\ x.phase = phase /\ x.interval = interval /\ x.attempt = 0
        /\ x.redirects = redirects /\ x.hops = hops /\ x.sent = sent
    BY DEF Sending
  <1>2. IsFetch(x)
    BY DEF Sending, IsFetch
  <1> HIDE DEF x
  <1>3. MaxAttempts * CallsBefore(x) \in Nat
    BY <1>2, Calls, Policy
  <1>4. Within(x)
    BY <1>1, <1>3, Policy DEF Within, Tried, x
  <1> QED BY <1>1, <1>2, <1>4 DEF x

\* With a snapshot the page is requested, within what the chain allows, or the
\* fetch is over.
LEMMA PageBegins ==
    ASSUME NEW s \in Snapshot, NEW redirects \in 0..MaxRedirects, NEW sent \in Nat,
           sent <= MaxAttempts * (redirects * (MaxRedirects + 2) + (MaxRedirects + 1))
    PROVE  \/ AfterRobots(s, redirects, sent) = Finished
           \/ /\ IsFetch(AfterRobots(s, redirects, sent))
              /\ Within(AfterRobots(s, redirects, sent))
              /\ AfterRobots(s, redirects, sent).pc = "resolve"
  <1> DEFINE interval == Max({MinInterval, s.delay})
  <1>1. interval \in Int /\ 0 \in 0..MaxRedirects
    <2>1. MinInterval \in Int /\ s.delay \in Int
      BY Policy DEF Snapshot
    <2>2. interval \in Int
      BY <2>1, MaxOfTwo
    <2>3. 0 \in 0..MaxRedirects
      BY Policy
    <2> QED BY <2>2, <2>3
  <1> HIDE DEF interval
  <1>2. CallsBefore(Sending("page", interval, redirects, 0, sent))
           = redirects * (MaxRedirects + 2) + (MaxRedirects + 1)
    <2>1. /\ Sending("page", interval, redirects, 0, sent).phase = "page"
          /\ Sending("page", interval, redirects, 0, sent).redirects = redirects
      BY DEF Sending
    <2> QED BY <2>1 DEF CallsBefore
  <1>3. CASE s.allowed
    <2>1. AfterRobots(s, redirects, sent) = Sending("page", interval, redirects, 0, sent)
      BY <1>3 DEF AfterRobots, interval
    <2> QED BY <1>1, <1>2, <2>1, CallBegins
  <1>4. CASE ~s.allowed
    BY <1>4 DEF AfterRobots
  <1> QED BY <1>3, <1>4

\* A fetch that moves on, and does not start a request.
LEMMA FetchMoves ==
    ASSUME PaceInv, NEW f \in Fetches, NEW next,
           next = Finished \/ (IsFetch(next) /\ Within(next) /\ next.pc # "paced"),
           fetching' = [fetching EXCEPT ![f] = next],
           robotsSnapshot' \subseteq Snapshot,
           UNCHANGED <<paceClock, nextAllowed, lastStart>>,
           hostLock' = hostLock \/ hostLock = f
    PROVE  PaceInv'
  <1>1. fetching'[f] = next /\ \A g \in Fetches \ {f} : fetching'[g] = fetching[g]
    BY DEF PaceInv, PaceTypeOK
  <1>2. PaceTypeOK'
    <2>1. fetching' = [g \in Fetches |-> fetching'[g]]
      BY DEF PaceInv, PaceTypeOK
    <2>2. \A g \in Fetches : fetching'[g] = Finished \/ IsFetch(fetching'[g])
      BY <1>1 DEF PaceInv, PaceTypeOK
    <2> QED BY <2>1, <2>2 DEF PaceInv, PaceTypeOK, IsFetch
  <1>3. Limiter'
    <2>1. ~At(f, "paced")'
      BY <1>1 DEF At, Finished
    <2>2. \A g \in Fetches \ {f} : At(g, "paced")' =>
             hostLock = g /\ fetching[g].wake \in Int /\ fetching[g].wake >= nextAllowed
      BY <1>1 DEF PaceInv, Limiter, At
    <2> QED BY <1>1, <2>1, <2>2 DEF PaceInv, Limiter
  <1>4. \A g \in Fetches : fetching'[g] # Finished => Within(fetching'[g])
    BY <1>1 DEF PaceInv
  <1> QED BY <1>2, <1>3, <1>4 DEF PaceInv, Within, Tried, CallsBefore

\* A look at the cached robots.txt, for a page that may be requested.
LEMMA PageLookedUp ==
    ASSUME PaceInv, NEW f \in Fetches, NEW redirects \in 0..MaxRedirects, NEW sent \in Nat,
           sent <= MaxAttempts * (redirects * (MaxRedirects + 2)),
           LookUpRobots(f, redirects, sent),
           UNCHANGED <<paceClock, hostLock, nextAllowed, lastStart>>
    PROVE  PaceInv'
  <1>1. robotsSnapshot' = LiveSnapshots /\ LiveSnapshots \subseteq Snapshot
    BY DEF LookUpRobots, LiveSnapshots, PaceInv, PaceTypeOK
  <1>2. /\ MaxAttempts \in Nat /\ MaxRedirects \in Nat /\ MinInterval \in Int
        /\ 0 \in 0..MaxRedirects
    BY Policy
  <1>3. CASE LiveSnapshots = {}
    <2> DEFINE next == Sending("robots", MinInterval, redirects, 0, sent)
    <2>1. fetching' = [fetching EXCEPT ![f] = next]
      BY <1>3 DEF LookUpRobots
    <2>2. CallsBefore(next) = redirects * (MaxRedirects + 2)
      <3>1. CallsBefore(next) = redirects * (MaxRedirects + 2) + 0
        BY DEF CallsBefore, Sending
      <3>2. redirects * (MaxRedirects + 2) \in Int
        BY <1>2
      <3> QED BY <3>1, <3>2
    <2>3. IsFetch(next) /\ Within(next) /\ next.pc = "resolve"
      BY <1>2, <2>2, CallBegins
    <2> HIDE DEF next
    <2> QED BY <1>1, <2>1, <2>3, FetchMoves
  <1>4. CASE LiveSnapshots # {}
    <2> DEFINE s == CHOOSE s \in LiveSnapshots : TRUE
               next == AfterRobots(s, redirects, sent)
    <2>1. fetching' = [fetching EXCEPT ![f] = next]
      BY <1>4 DEF LookUpRobots
    <2>2. s \in Snapshot
      BY <1>1, <1>4
    <2>3. sent <= MaxAttempts * (redirects * (MaxRedirects + 2) + (MaxRedirects + 1))
      <3>1. redirects * (MaxRedirects + 2) \in Nat
        BY <1>2
      <3>2. /\ redirects * (MaxRedirects + 2) + (MaxRedirects + 1) \in Nat
            /\ redirects * (MaxRedirects + 2) < redirects * (MaxRedirects + 2) + (MaxRedirects + 1)
        BY <1>2, <3>1
      <3> QED BY <1>2, <3>1, <3>2, OneCallMore
    <2> HIDE DEF s
    <2>4. next = Finished \/ (IsFetch(next) /\ Within(next) /\ next.pc = "resolve")
      BY <2>2, <2>3, PageBegins
    <2> HIDE DEF next
    <2> QED BY <1>1, <2>1, <2>4, FetchMoves
  <1> QED BY <1>3, <1>4

\* One fetch at a time passes the limiter.
LEMMA RequestStarts ==
    ASSUME PaceInv, NEW f \in Fetches, EnterLock(f) \/ StartRequest(f)
    PROVE  PaceInv' /\ (lastStart' # lastStart => paceClock >= lastStart.at + lastStart.interval)
  <1>0. /\ PaceTypeOK /\ Limiter /\ paceClock \in Int /\ nextAllowed \in Int
        /\ fetching[f] # Finished /\ IsFetch(fetching[f]) /\ Within(fetching[f])
        /\ fetching[f].interval \in Int /\ fetching[f].attempt \in Nat /\ fetching[f].sent \in Nat
        /\ MaxAttempts * CallsBefore(fetching[f]) \in Nat
    <2>1. fetching[f] # Finished
      BY DEF EnterLock, StartRequest, At
    <2>2. PaceTypeOK /\ Limiter /\ IsFetch(fetching[f]) /\ Within(fetching[f])
      BY <2>1 DEF PaceInv, PaceTypeOK
    <2>3. MaxAttempts * CallsBefore(fetching[f]) \in Nat
      BY <2>2, Calls, Policy
    <2> QED BY <2>1, <2>2, <2>3 DEF PaceTypeOK, IsFetch
  <1>1. CASE EnterLock(f)
    <2> DEFINE wake == Max({paceClock, nextAllowed})
               next == [fetching[f] EXCEPT !.pc = "paced", !.wake = wake]
    <2>1. wake \in Int /\ wake >= nextAllowed
      BY <1>0, MaxOfTwo
    <2> HIDE DEF wake
    <2>2. /\ hostLock = NoFetch /\ hostLock' = f /\ fetching' = [fetching EXCEPT ![f] = next]
          /\ UNCHANGED <<robotsSnapshot, paceClock, nextAllowed, lastStart>>
          /\ fetching[f].pc = "queue"
      BY <1>1 DEF EnterLock, Continue, At, wake
    <2>3. /\ IsFetch(next) /\ next.pc = "paced" /\ next.wake = wake
          /\ next.sent = fetching[f].sent /\ next.attempt = fetching[f].attempt
          /\ next.phase = fetching[f].phase /\ next.hops = fetching[f].hops
          /\ next.redirects = fetching[f].redirects
      BY <1>0 DEF IsFetch
    <2> HIDE DEF next
    <2>4. CallsBefore(next) = CallsBefore(fetching[f])
      BY <2>3 DEF CallsBefore
    <2>5. Within(next)
      BY <1>0, <2>2, <2>3, <2>4 DEF Within, Tried
    <2>6. fetching'[f] = next /\ \A g \in Fetches \ {f} : fetching'[g] = fetching[g]
      BY <1>0, <2>2 DEF PaceTypeOK
    <2>7. PaceTypeOK'
      <3>1. fetching' = [g \in Fetches |-> fetching'[g]]
        BY <1>0, <2>2 DEF PaceTypeOK
      <3>2. \A g \in Fetches : fetching'[g] = Finished \/ IsFetch(fetching'[g])
        BY <1>0, <2>3, <2>6 DEF PaceTypeOK
      <3> QED BY <1>0, <2>2, <3>1, <3>2 DEF PaceTypeOK, IsFetch
    <2>8. Limiter'
      <3>1. \A g \in Fetches \ {f} : ~At(g, "paced")'
        BY <1>0, <2>2, <2>6, Policy DEF Limiter, At
      <3> QED BY <1>0, <2>1, <2>2, <2>3, <2>6, <3>1 DEF Limiter
    <2>9. \A g \in Fetches : fetching'[g] # Finished => Within(fetching'[g])
      BY <2>5, <2>6 DEF PaceInv
    <2> QED BY <2>2, <2>7, <2>8, <2>9 DEF PaceInv, Within, Tried, CallsBefore
  <1>2. CASE StartRequest(f)
    <2> DEFINE next == [fetching[f] EXCEPT !.pc = "sent", !.sent = @ + 1]
               start == [at |-> paceClock, interval |-> fetching[f].interval]
    <2>1. /\ paceClock >= fetching[f].wake /\ nextAllowed' = paceClock + fetching[f].interval
          /\ hostLock' = NoFetch /\ lastStart' = start
          /\ fetching' = [fetching EXCEPT ![f] = next]
          /\ UNCHANGED <<robotsSnapshot, paceClock>>
          /\ fetching[f].pc = "paced"
      BY <1>2 DEF StartRequest, Continue, At, Reservation
    <2>2. /\ IsFetch(next) /\ next.pc = "sent"
          /\ next.sent = fetching[f].sent + 1 /\ next.attempt = fetching[f].attempt
          /\ next.phase = fetching[f].phase /\ next.hops = fetching[f].hops
          /\ next.redirects = fetching[f].redirects
      <3>1. fetching[f].sent + 1 \in Nat
        BY <1>0
      <3> QED BY <1>0, <3>1 DEF IsFetch
    <2>3. /\ start \in [at : Int, interval : Int]
          /\ start.at = paceClock /\ start.interval = fetching[f].interval
      BY <1>0
    <2> HIDE DEF next, start
    <2>4. CallsBefore(next) = CallsBefore(fetching[f])
      BY <2>2 DEF CallsBefore
    <2>5. Within(next)
      BY <1>0, <2>1, <2>2, <2>4 DEF Within, Tried
    <2>6. fetching'[f] = next /\ \A g \in Fetches \ {f} : fetching'[g] = fetching[g]
      BY <1>0, <2>1 DEF PaceTypeOK
    <2>7. hostLock = f /\ fetching[f].wake \in Int /\ fetching[f].wake >= nextAllowed
      BY <1>0, <2>1 DEF Limiter, At
    <2>8. PaceTypeOK'
      <3>1. fetching' = [g \in Fetches |-> fetching'[g]]
        BY <1>0, <2>1 DEF PaceTypeOK
      <3>2. \A g \in Fetches : fetching'[g] = Finished \/ IsFetch(fetching'[g])
        BY <1>0, <2>2, <2>6 DEF PaceTypeOK
      <3>3. nextAllowed' \in Int
        BY <1>0, <2>1
      <3> QED BY <1>0, <2>1, <2>3, <3>1, <3>2, <3>3 DEF PaceTypeOK, IsFetch
    <2>9. Limiter'
      <3>1. \A g \in Fetches : ~At(g, "paced")'
        BY <1>0, <2>2, <2>6, <2>7 DEF Limiter, At
      <3> QED BY <2>1, <2>3, <3>1 DEF Limiter
    <2>10. \A g \in Fetches : fetching'[g] # Finished => Within(fetching'[g])
      BY <2>5, <2>6 DEF PaceInv
    <2>11. paceClock >= lastStart.at + lastStart.interval
      BY <1>0, <2>1, <2>7 DEF Limiter
    <2> QED BY <2>8, <2>9, <2>10, <2>11 DEF PaceInv, Within, Tried, CallsBefore
  <1> QED BY <1>1, <1>2

\* A fetch that goes on with the same call, in its next attempt after a sleep.
LEMMA SameCall ==
    ASSUME PaceInv, NEW f \in Fetches, fetching[f] # Finished, NEW next, IsFetch(next),
           next.pc \in {"resolve", "queue", "backoff"},
           next.phase = fetching[f].phase, next.redirects = fetching[f].redirects,
           next.hops = fetching[f].hops, next.sent = fetching[f].sent,
           Tried(next) < MaxAttempts, Tried(next) = Tried(fetching[f]),
           fetching' = [fetching EXCEPT ![f] = next],
           UNCHANGED <<paceClock, nextAllowed, lastStart, hostLock, robotsSnapshot>>
    PROVE  PaceInv'
  <1>1. IsFetch(fetching[f]) /\ Within(fetching[f]) /\ robotsSnapshot \subseteq Snapshot
    BY DEF PaceInv, PaceTypeOK
  <1>2. /\ fetching[f].attempt \in Nat /\ fetching[f].sent \in Nat /\ next.attempt \in Nat
        /\ MaxAttempts * CallsBefore(fetching[f]) \in Nat
    BY <1>1, Calls, Policy DEF IsFetch
  <1>3. CallsBefore(next) = CallsBefore(fetching[f])
    BY DEF CallsBefore
  <1>4. Within(next)
    <2>1. Tried(next) \in Nat /\ Tried(fetching[f]) \in Nat /\ next.attempt <= Tried(next)
      BY <1>2 DEF Tried
    <2>2. fetching[f].sent <= MaxAttempts * CallsBefore(fetching[f]) + Tried(fetching[f])
      BY <1>1 DEF Within
    <2>3. next.attempt < MaxAttempts /\ next.sent <= MaxAttempts * CallsBefore(next) + Tried(next)
      BY <1>2, <1>3, <2>1, <2>2, Policy
    <2> QED BY <2>3 DEF Within
  <1> QED BY <1>1, <1>4, FetchMoves

\* A sleep before the next attempt.
LEMMA SleepMoves ==
    ASSUME PaceInv, NEW f \in Fetches, At(f, "sent"), ~LastAttempt(f), NEW duration,
           Sleep(f, duration), UNCHANGED <<paceClock, hostLock, nextAllowed, lastStart>>
    PROVE  PaceInv'
  <1> DEFINE next == [fetching[f] EXCEPT !.pc = "backoff", !.wake = paceClock + duration]
  <1>1. /\ IsFetch(fetching[f]) /\ fetching[f].attempt \in Nat /\ fetching[f].pc = "sent"
        /\ fetching[f] # Finished
    BY SentSoFar DEF At
  <1>2. fetching[f].attempt + 1 < MaxAttempts
    BY <1>1, Policy DEF LastAttempt
  <1>3. fetching' = [fetching EXCEPT ![f] = next] /\ UNCHANGED robotsSnapshot
    BY DEF Sleep, Continue
  <1>4. /\ IsFetch(next) /\ next.pc = "backoff" /\ next.attempt = fetching[f].attempt
        /\ next.phase = fetching[f].phase /\ next.redirects = fetching[f].redirects
        /\ next.hops = fetching[f].hops /\ next.sent = fetching[f].sent
    BY <1>1 DEF IsFetch
  <1> HIDE DEF next
  <1>5. Tried(next) = Tried(fetching[f]) /\ Tried(next) < MaxAttempts
    BY <1>1, <1>2, <1>4 DEF Tried
  <1> QED BY <1>1, <1>3, <1>4, <1>5, SameCall

\* Every step keeps the invariant, and no request starts too early.
LEMMA PaceStep ==
    ASSUME PaceInv, PaceNext
    PROVE  PaceInv' /\ (lastStart' # lastStart => paceClock >= lastStart.at + lastStart.interval)
  <1>0. /\ PaceTypeOK /\ paceClock \in Nat /\ MaxAttempts \in Nat /\ MaxRedirects \in Nat
        /\ MinInterval \in Int /\ robotsSnapshot \subseteq Snapshot
    BY Policy DEF PaceInv, PaceTypeOK
  <1>1. CASE PaceTick
    <2>1. PaceTypeOK'
      BY <1>0, <1>1 DEF PaceTick, PaceTypeOK
    <2> QED BY <1>1, <2>1 DEF PaceTick, PaceInv, Limiter, At
  <1>2. ASSUME NEW f \in Fetches, BeginFetch(f)
        PROVE  PaceInv'
    <2>1. 0 <= MaxAttempts * (0 * (MaxRedirects + 2)) /\ 0 \in 0..MaxRedirects /\ 0 \in Nat
      BY <1>0
    <2> QED BY <1>2, <2>1, PageLookedUp DEF BeginFetch
  <1>3. ASSUME NEW f \in Fetches, Resolve(f)
        PROVE  PaceInv'
    <2>1. /\ fetching[f] # Finished /\ fetching[f].pc = "resolve"
          /\ UNCHANGED <<paceClock, hostLock, nextAllowed, lastStart, robotsSnapshot>>
      BY <1>3 DEF Resolve, At, Continue
    <2>2. CASE fetching' = [fetching EXCEPT ![f] = [fetching[f] EXCEPT !.pc = "queue"]]
      <3>1. IsFetch(fetching[f]) /\ Within(fetching[f])
        BY <2>1 DEF PaceInv, PaceTypeOK
      <3>2. fetching[f].attempt \in Nat /\ fetching[f].attempt < MaxAttempts
        BY <2>1, <3>1, Policy DEF IsFetch, Within
      <3> DEFINE next == [fetching[f] EXCEPT !.pc = "queue"]
      <3>3. /\ IsFetch(next) /\ next.pc = "queue" /\ next.attempt = fetching[f].attempt
            /\ next.phase = fetching[f].phase /\ next.redirects = fetching[f].redirects
            /\ next.hops = fetching[f].hops /\ next.sent = fetching[f].sent
        BY <3>1 DEF IsFetch
      <3>4. fetching' = [fetching EXCEPT ![f] = next]
        BY <2>2
      <3> HIDE DEF next
      <3>5. Tried(next) = Tried(fetching[f]) /\ Tried(next) < MaxAttempts
        BY <2>1, <3>2, <3>3 DEF Tried
      <3> QED BY <2>1, <3>3, <3>4, <3>5, SameCall
    <2>3. CASE fetching' = [fetching EXCEPT ![f] = Finished]
      BY <1>0, <2>1, <2>3, FetchMoves
    <2> QED BY <1>3, <2>2, <2>3 DEF Resolve, Continue
  <1>4. ASSUME NEW f \in Fetches, RetryStatus(f)
        PROVE  PaceInv'
    <2>1. /\ At(f, "sent") /\ ~LastAttempt(f)
          /\ UNCHANGED <<paceClock, hostLock, nextAllowed, lastStart>>
          /\ \E duration : Sleep(f, duration)
      BY <1>4 DEF RetryStatus
    <2> QED BY <2>1, SleepMoves
  <1>5. ASSUME NEW f \in Fetches, TransportError(f)
        PROVE  PaceInv'
    <2>1. CASE LastAttempt(f)
      BY <1>0, <1>5, <2>1, FetchMoves DEF TransportError, Continue
    <2>2. CASE ~LastAttempt(f)
      BY <1>5, <2>2, SleepMoves DEF TransportError
    <2> QED BY <2>1, <2>2
  <1>6. ASSUME NEW f \in Fetches, WakeUp(f)
        PROVE  PaceInv'
    <2>1. /\ fetching[f] # Finished /\ fetching[f].pc = "backoff"
          /\ UNCHANGED <<paceClock, hostLock, nextAllowed, lastStart, robotsSnapshot>>
          /\ fetching' = [fetching EXCEPT ![f] = [fetching[f] EXCEPT !.pc = "resolve",
                                                                     !.attempt = @ + 1]]
      BY <1>6 DEF WakeUp, At, Continue
    <2>2. IsFetch(fetching[f]) /\ Within(fetching[f])
      BY <2>1 DEF PaceInv, PaceTypeOK
    <2>3. /\ fetching[f].attempt \in Nat /\ fetching[f].attempt + 1 < MaxAttempts
          /\ fetching[f].attempt + 1 \in Nat
      <3>1. fetching[f].attempt \in Nat
        BY <2>2 DEF IsFetch
      <3>2. Tried(fetching[f]) = fetching[f].attempt + 1 /\ Tried(fetching[f]) < MaxAttempts
        BY <2>1, <2>2 DEF Within, Tried
      <3> QED BY <3>1, <3>2
    <2> DEFINE next == [fetching[f] EXCEPT !.pc = "resolve", !.attempt = @ + 1]
    <2>4. /\ IsFetch(next) /\ next.pc = "resolve" /\ next.attempt = fetching[f].attempt + 1
          /\ next.phase = fetching[f].phase /\ next.redirects = fetching[f].redirects
          /\ next.hops = fetching[f].hops /\ next.sent = fetching[f].sent
      BY <2>2, <2>3 DEF IsFetch
    <2>5. fetching' = [fetching EXCEPT ![f] = next]
      BY <2>1
    <2> HIDE DEF next
    <2>6. Tried(next) = Tried(fetching[f]) /\ Tried(next) < MaxAttempts
      BY <2>1, <2>3, <2>4 DEF Tried
    <2> QED BY <2>1, <2>4, <2>5, <2>6, SameCall
  <1>7. ASSUME NEW f \in Fetches, RobotsAnswer(f)
        PROVE  PaceInv'
    <2>1. PICK allowed \in BOOLEAN, delay \in CrawlDelays :
             LET s == [allowed |-> allowed, delay |-> delay, expires |-> paceClock + RobotsTtl]
             IN /\ robotsSnapshot' = {s}
                /\ fetching' = [fetching EXCEPT ![f] =
                      AfterRobots(s, fetching[f].redirects, fetching[f].sent)]
      BY <1>7 DEF RobotsAnswer
    <2> DEFINE s == [allowed |-> allowed, delay |-> delay, expires |-> paceClock + RobotsTtl]
               next == AfterRobots(s, fetching[f].redirects, fetching[f].sent)
               r == fetching[f].redirects
    <2>2. /\ At(f, "sent") /\ fetching[f].phase = "robots"
          /\ UNCHANGED <<paceClock, hostLock, nextAllowed, lastStart>>
      BY <1>7 DEF RobotsAnswer
    <2>3. s \in Snapshot
      BY <1>0, Policy DEF Snapshot
    <2>4. robotsSnapshot' = {s} /\ fetching' = [fetching EXCEPT ![f] = next]
      BY <2>1
    <2>5. /\ r \in 0..MaxRedirects /\ fetching[f].hops \in 0..MaxRedirects
          /\ fetching[f].sent \in Nat /\ IsFetch(fetching[f])
          /\ fetching[f].sent <= MaxAttempts * CallsBefore(fetching[f]) + MaxAttempts
      BY <2>2, SentSoFar DEF IsFetch
    <2>6. CallsBefore(fetching[f]) = r * (MaxRedirects + 2) + fetching[f].hops
      BY <2>2 DEF CallsBefore
    <2>7. r * (MaxRedirects + 2) \in Nat
      BY <1>0, <2>5
    <2> HIDE DEF s, r
    <2>8. fetching[f].sent <= MaxAttempts * (r * (MaxRedirects + 2) + (MaxRedirects + 1))
      <3> DEFINE i == CallsBefore(fetching[f])
                 j == r * (MaxRedirects + 2) + (MaxRedirects + 1)
      <3>1. i \in Nat /\ j \in Nat /\ i < j
        BY <1>0, <2>5, <2>6, <2>7
      <3> HIDE DEF i, j
      <3>2. MaxAttempts * i \in Nat /\ MaxAttempts * j \in Nat
            /\ MaxAttempts * i + MaxAttempts <= MaxAttempts * j
        BY <1>0, <3>1, OneCallMore
      <3>3. fetching[f].sent <= MaxAttempts * i + MaxAttempts
        BY <2>5 DEF i
      <3>4. fetching[f].sent <= MaxAttempts * j
        BY <1>0, <2>5, <3>2, <3>3
      <3> QED BY <3>4 DEF j
    <2>9. next = Finished \/ (IsFetch(next) /\ Within(next) /\ next.pc = "resolve")
      BY <2>3, <2>5, <2>8, PageBegins DEF r
    <2> HIDE DEF next
    <2> QED BY <2>2, <2>3, <2>4, <2>9, FetchMoves
  <1>8. ASSUME NEW f \in Fetches, RobotsRedirect(f)
        PROVE  PaceInv'
    <2> DEFINE x == fetching[f]
    <2>1. /\ At(f, "sent") /\ x.phase = "robots"
          /\ UNCHANGED <<robotsSnapshot, paceClock, hostLock, nextAllowed, lastStart>>
          /\ fetching' = [fetching EXCEPT ![f] =
                IF x.hops >= MaxRedirects THEN Finished
                ELSE Sending("robots", MinInterval, x.redirects, x.hops + 1, x.sent)]
      BY <1>8 DEF RobotsRedirect, Continue
    <2>2. /\ x.redirects \in 0..MaxRedirects /\ x.hops \in 0..MaxRedirects /\ x.sent \in Nat
          /\ IsFetch(x) /\ x.sent <= MaxAttempts * CallsBefore(x) + MaxAttempts
      BY <2>1, SentSoFar DEF IsFetch
    <2>3. CASE x.hops >= MaxRedirects
      BY <1>0, <2>1, <2>3, FetchMoves
    <2>4. CASE ~(x.hops >= MaxRedirects)
      <3> DEFINE next == Sending("robots", MinInterval, x.redirects, x.hops + 1, x.sent)
      <3>1. x.hops + 1 \in 0..MaxRedirects
        BY <1>0, <2>2, <2>4
      <3>2. CallsBefore(next) = CallsBefore(x) + 1 /\ CallsBefore(x) \in Nat
        <4>1. x.redirects * (MaxRedirects + 2) \in Nat
          BY <1>0, <2>2
        <4>2. CallsBefore(x) = x.redirects * (MaxRedirects + 2) + x.hops
          BY <2>1 DEF CallsBefore
        <4>3. next.phase = "robots" /\ next.redirects = x.redirects /\ next.hops = x.hops + 1
          BY DEF Sending
        <4>4. CallsBefore(next) = x.redirects * (MaxRedirects + 2) + (x.hops + 1)
          BY <4>3 DEF CallsBefore
        <4> QED BY <2>2, <4>1, <4>2, <4>4
      <3>3. x.sent <= MaxAttempts * CallsBefore(next)
        <4> DEFINE i == CallsBefore(x)
                   j == CallsBefore(next)
        <4>1. i \in Nat /\ j \in Nat /\ i < j
          BY <3>2
        <4> HIDE DEF i, j
        <4>2. MaxAttempts * i \in Nat /\ MaxAttempts * j \in Nat
              /\ MaxAttempts * i + MaxAttempts <= MaxAttempts * j
          BY <1>0, <4>1, OneCallMore
        <4>3. x.sent <= MaxAttempts * i + MaxAttempts
          BY <2>2 DEF i
        <4>4. x.sent <= MaxAttempts * j
          BY <1>0, <2>2, <4>2, <4>3
        <4> QED BY <4>4 DEF j
      <3>4. IsFetch(next) /\ Within(next) /\ next.pc = "resolve"
        BY <1>0, <2>2, <3>1, <3>3, CallBegins
      <3>5. fetching' = [fetching EXCEPT ![f] = next]
        BY <2>1, <2>4
      <3> HIDE DEF next
      <3> QED BY <1>0, <2>1, <3>4, <3>5, FetchMoves
    <2> QED BY <2>3, <2>4
  <1>9. ASSUME NEW f \in Fetches, PageAnswer(f)
        PROVE  PaceInv'
    BY <1>0, <1>9, FetchMoves DEF PageAnswer, Continue
  <1>10. ASSUME NEW f \in Fetches, PageRedirect(f)
         PROVE  PaceInv'
    <2> DEFINE x == fetching[f]
    <2>1. /\ At(f, "sent") /\ x.phase = "page" /\ x.redirects < MaxRedirects
          /\ UNCHANGED <<paceClock, hostLock, nextAllowed, lastStart>>
          /\ LookUpRobots(f, x.redirects + 1, x.sent)
      BY <1>10 DEF PageRedirect
    <2>2. /\ x.redirects \in 0..MaxRedirects /\ x.sent \in Nat
          /\ IsFetch(x) /\ x.sent <= MaxAttempts * CallsBefore(x) + MaxAttempts
      BY <2>1, SentSoFar DEF IsFetch
    <2>3. x.redirects + 1 \in 0..MaxRedirects
      BY <1>0, <2>1, <2>2
    <2>4. x.sent <= MaxAttempts * ((x.redirects + 1) * (MaxRedirects + 2))
      <3> DEFINE i == CallsBefore(x)
                 j == (x.redirects + 1) * (MaxRedirects + 2)
      <3>1. i \in Nat /\ j \in Nat /\ i < j
        BY <2>2, Calls
      <3> HIDE DEF i, j
      <3>2. MaxAttempts * i \in Nat /\ MaxAttempts * j \in Nat
            /\ MaxAttempts * i + MaxAttempts <= MaxAttempts * j
        BY <1>0, <3>1, OneCallMore
      <3>3. x.sent <= MaxAttempts * i + MaxAttempts
        BY <2>2 DEF i
      <3>4. x.sent <= MaxAttempts * j
        BY <1>0, <2>2, <3>2, <3>3
      <3> QED BY <3>4 DEF j
    <2> QED BY <2>1, <2>2, <2>3, <2>4, PageLookedUp
  <1>11. ASSUME NEW f \in Fetches, CancelFetch(f)
         PROVE  PaceInv'
    BY <1>0, <1>11, FetchMoves DEF CancelFetch, Continue
  <1>12. ASSUME NEW f \in Fetches, EnterLock(f) \/ StartRequest(f)
         PROVE  PaceInv' /\ (lastStart' # lastStart =>
                                paceClock >= lastStart.at + lastStart.interval)
    BY <1>12, RequestStarts
  <1>13. (\A f \in Fetches : ~StartRequest(f)) => lastStart' = lastStart
    BY DEF PaceNext, PaceTick, BeginFetch, Resolve, EnterLock, RetryStatus, TransportError,
       WakeUp, RobotsAnswer, RobotsRedirect, PageAnswer, PageRedirect, CancelFetch
  <1> QED BY <1>1, <1>2, <1>3, <1>4, <1>5, <1>6, <1>7, <1>8, <1>9, <1>10, <1>11, <1>12, <1>13
      DEF PaceNext

\* The invariant of a host and its fetches.
LEMMA PaceInvariant ==
    /\ PaceInit => PaceInv
    /\ PaceInv /\ [PaceNext]_paceVars => PaceInv'
  <1>1. PaceInit => PaceInv
    <2> SUFFICES ASSUME PaceInit PROVE PaceInv
      OBVIOUS
    <2>1. \A f \in Fetches : fetching[f] = Finished
      BY DEF PaceInit
    <2>2. PaceTypeOK
      BY <2>1 DEF PaceInit, PaceTypeOK
    <2>3. Limiter
      BY <2>1 DEF PaceInit, Limiter, At
    <2> QED BY <2>1, <2>2, <2>3 DEF PaceInv
  <1>2. PaceInv /\ UNCHANGED paceVars => PaceInv'
    BY DEF paceVars, PaceInv, PaceTypeOK, Limiter, At, IsFetch, Within, Tried, CallsBefore
  <1> QED BY <1>1, <1>2, PaceStep

\* Requests to a host are spaced, whichever fetches wait for it, are cancelled,
\* or wake up late.
THEOREM HostIsPaced == PaceSpec => StartsAreSpaced
  <1>1. PaceInv /\ [PaceNext]_paceVars =>
           [lastStart' # lastStart => paceClock >= lastStart.at + lastStart.interval]_paceVars
    BY PaceStep
  <1> QED BY <1>1, PaceInvariant, PTL DEF PaceSpec, StartsAreSpaced

\* A fetch ends: its retries, redirects and looks at robots.txt have a bound
\* that the policy of the host gives.
THEOREM FetchIsBounded == PaceSpec => []RequestsAreBounded
  <1>1. PaceInv => RequestsAreBounded
    <2> SUFFICES ASSUME PaceInv, NEW f \in Fetches, fetching[f] # Finished
                 PROVE  fetching[f].sent <=
                           MaxAttempts * (fetching[f].redirects + 1) * (MaxRedirects + 2)
      BY DEF RequestsAreBounded
    <2> DEFINE x == fetching[f]
    <2>1. IsFetch(x) /\ Within(x)
      BY DEF PaceInv, PaceTypeOK
    <2>2. x.sent \in Nat /\ x.attempt \in Nat /\ x.redirects \in Nat
          /\ MaxAttempts \in Nat /\ MaxRedirects \in Nat
      BY <2>1, Policy DEF IsFetch
    <2> DEFINE i == CallsBefore(x)
               j == (x.redirects + 1) * (MaxRedirects + 2)
    <2>3. i \in Nat /\ j \in Nat /\ i < j
      BY <2>1, Calls
    <2>4. MaxAttempts * i \in Nat /\ MaxAttempts * j \in Nat
          /\ MaxAttempts * i + MaxAttempts <= MaxAttempts * j
      <3> HIDE DEF i, j
      <3> QED BY <2>2, <2>3, OneCallMore
    <2>5. x.sent <= MaxAttempts * i + MaxAttempts
      <3>1. x.attempt < MaxAttempts /\ x.sent <= MaxAttempts * i + Tried(x)
        BY <2>1 DEF Within
      <3>2. Tried(x) \in {x.attempt, x.attempt + 1}
        BY <2>2 DEF Tried
      <3> HIDE DEF i, x
      <3> QED BY <2>2, <2>4, <3>1, <3>2
    <2>6. x.sent <= MaxAttempts * j
      <3> HIDE DEF i, j, x
      <3> QED BY <2>2, <2>4, <2>5
    <2>7. MaxAttempts * (x.redirects + 1) * (MaxRedirects + 2) = MaxAttempts * j
      BY <2>2
    <2> QED BY <2>6, <2>7
  <1> QED BY <1>1, PaceInvariant, PTL DEF PaceSpec

-----------------------------------------------------------------------------
(* The bank registry.                                                       *)

RegistryTypeOK ==
    /\ source = [b \in BankIds |-> source[b]]
    /\ sync \in [Syncs -> {NotSyncing} \cup
          [pc : {"syncing"}, release : Releases, next : Nat \ {0}, written : SUBSET BankIds]]

\* A release that shows in a row is there as a whole, or has been followed.
Whole(r) ==
    \A i \in DOMAIN r.banks :
        /\ source[r.banks[i].id] # NoSource
        /\ ~VersionBefore(source[r.banks[i].id].version, r.version)

RowsAreOfReleases ==
    \A b \in BankIds : source[b] # NoSource =>
        \E r \in Releases :
            /\ r.version = source[b].version
            /\ \E i \in DOMAIN r.banks :
                  r.banks[i].id = b /\ source[b].content = r.banks[i].content /\ source[b].order = i
            /\ Whole(r)

\* A transaction has written the banks up to where it is, no other one writes
\* them, and none of them is of a later release.
WritesInOrder ==
    /\ \A s \in Syncs : Syncing(s) =>
          /\ sync[s].written = {sync[s].release.banks[i].id :
                                   i \in {j \in DOMAIN sync[s].release.banks : j < sync[s].next}}
          /\ \A b \in sync[s].written : source[b] # NoSource =>
                ~VersionBefore(sync[s].release.version, source[b].version)
    /\ \A s, t \in Syncs : s # t /\ Syncing(s) /\ Syncing(t) =>
          sync[s].written \cap sync[t].written = {}

RegistryInv == RegistryTypeOK /\ RowsAreOfReleases /\ WritesInOrder

\* What a release is.
LEMMA Release ==
    ASSUME NEW r \in Releases
    PROVE  /\ r.version \in Int \X Int /\ r.version[2] >= 1 /\ r.version # <<0, 0>>
           /\ Len(r.banks) \in Nat /\ DOMAIN r.banks = 1..Len(r.banks)
           /\ \A i \in DOMAIN r.banks : r.banks[i].id \in BankIds
           /\ \A i, j \in DOMAIN r.banks : r.banks[i].id = r.banks[j].id => i = j
  <1>1. r.version \in Int \X (1..MaxNumber)
    BY ReleasesAssumption
  <1>2. r.version \in Int \X Int /\ r.version[2] >= 1
    BY <1>1
  <1>3. r.version # <<0, 0>>
    BY <1>2
  <1>4. Len(r.banks) \in Nat /\ DOMAIN r.banks = 1..Len(r.banks)
    <2>1. r.banks \in Seq({r.banks[i] : i \in DOMAIN r.banks})
      BY ReleasesAssumption
    <2> QED BY <2>1, LenProperties
  <1>5. \A i \in DOMAIN r.banks : r.banks[i].id \in BankIds
    BY DEF BankIds
  <1>6. \A i, j \in DOMAIN r.banks : r.banks[i].id = r.banks[j].id => i = j
    BY ReleasesAssumption
  <1> QED BY <1>2, <1>3, <1>4, <1>5, <1>6

\* The order of the texts of two numbers: by the first digit, and with the same
\* one the shorter comes first, or the one with the smaller second digit.
LEMMA TextOrder ==
    ASSUME NEW m \in Int, NEW n \in Int
    PROVE  TextBefore(DigitsOf(m), DigitsOf(n)) <=>
              LET first(k) == IF k < 10 THEN k ELSE k \div 10
              IN \/ first(m) < first(n)
                 \/ first(m) = first(n) /\ n >= 10 /\ (m < 10 \/ m % 10 < n % 10)
  <1> DEFINE first(k) == IF k < 10 THEN k ELSE k \div 10
             a == DigitsOf(m)
             b == DigitsOf(n)
  <1>1. /\ Len(a) = (IF m < 10 THEN 1 ELSE 2) /\ a[1] = first(m) /\ (m >= 10 => a[2] = m % 10)
        /\ Len(b) = (IF n < 10 THEN 1 ELSE 2) /\ b[1] = first(n) /\ (n >= 10 => b[2] = n % 10)
    BY DEF DigitsOf
  <1>2. first(m) \in Int /\ first(n) \in Int /\ m % 10 \in Int /\ n % 10 \in Int
    OBVIOUS
  <1> HIDE DEF a, b, first
  <1>3. TextBefore(a, b) <=>
           \/ a[1] < b[1]
           \/ n >= 10 /\ a[1] = b[1] /\ (m < 10 \/ a[2] < b[2])
    <2>1. CASE n < 10
      <3>1. Len(b) = 1 /\ 1..Len(b) = {1} /\ 1..(1 - 1) = {}
        BY <1>1, <2>1
      <3>2. TextBefore(a, b) <=> (1 > Len(a) \/ a[1] < b[1])
        BY <3>1 DEF TextBefore
      <3> QED BY <1>1, <2>1, <3>2
    <2>2. CASE n >= 10
      <3>1. Len(b) = 2 /\ 1..Len(b) = {1, 2} /\ 1..(1 - 1) = {} /\ 1..(2 - 1) = {1}
        BY <1>1, <2>2
      <3>2. TextBefore(a, b) <=>
               \/ 1 > Len(a) \/ a[1] < b[1]
               \/ 1 <= Len(a) /\ a[1] = b[1] /\ (2 > Len(a) \/ a[2] < b[2])
        BY <3>1 DEF TextBefore
      <3> QED BY <1>1, <2>2, <3>2
    <2> QED BY <2>1, <2>2
  <1>4. TextBefore(a, b) <=>
           \/ first(m) < first(n)
           \/ first(m) = first(n) /\ n >= 10 /\ (m < 10 \/ m % 10 < n % 10)
    BY <1>1, <1>3
  <1> QED BY <1>4 DEF a, b, first

\* Versions are in a total order, in which neither of two versions that are
\* written alike comes first.
LEMMA VersionOrder ==
    ASSUME NEW u \in Int \X Int, NEW v \in Int \X Int, NEW w \in Int \X Int
    PROVE  /\ ~VersionBefore(v, v)
           /\ VersionBefore(u, v) => ~VersionBefore(v, u)
           /\ VersionBefore(u, w) => VersionBefore(u, v) \/ VersionBefore(v, w)
  <1> DEFINE Text(x, y) == TextBefore(DigitsOf(x[2]), DigitsOf(y[2]))
  <1>1. \A x, y \in Int \X Int : VersionBefore(x, y) <=> x[1] < y[1] \/ (x[1] = y[1] /\ Text(x, y))
    BY DEF VersionBefore
  <1>2. /\ ~Text(v, v) /\ (Text(u, v) => ~Text(v, u))
        /\ Text(u, w) => Text(u, v) \/ Text(v, w)
    <2> DEFINE first(k) == IF k < 10 THEN k ELSE k \div 10
               i == u[2]
               j == v[2]
               k == w[2]
    <2>1. i \in Int /\ j \in Int /\ k \in Int
      OBVIOUS
    <2> HIDE DEF i, j, k
    <2>2. /\ first(i) \in Int /\ first(j) \in Int /\ first(k) \in Int
          /\ i % 10 \in Int /\ j % 10 \in Int /\ k % 10 \in Int
      BY <2>1
    <2>3. \A m, n \in {i, j, k} : TextBefore(DigitsOf(m), DigitsOf(n)) <=>
             \/ first(m) < first(n)
             \/ first(m) = first(n) /\ n >= 10 /\ (m < 10 \/ m % 10 < n % 10)
      BY <2>1, TextOrder
    <2> HIDE DEF first
    <2>4. /\ ~TextBefore(DigitsOf(j), DigitsOf(j))
          /\ TextBefore(DigitsOf(i), DigitsOf(j)) => ~TextBefore(DigitsOf(j), DigitsOf(i))
          /\ TextBefore(DigitsOf(i), DigitsOf(k)) =>
                TextBefore(DigitsOf(i), DigitsOf(j)) \/ TextBefore(DigitsOf(j), DigitsOf(k))
      BY <2>1, <2>2, <2>3
    <2> QED BY <2>4 DEF i, j, k
  <1>3. u[1] \in Int /\ v[1] \in Int /\ w[1] \in Int
    OBVIOUS
  <1> HIDE DEF Text
  <1> QED BY <1>1, <1>2, <1>3

\* The version of a row that is there is that of a release.
LEMMA RowVersion ==
    ASSUME RowsAreOfReleases, NEW b \in BankIds, source[b] # NoSource
    PROVE  source[b].version \in Int \X Int
  BY Release DEF RowsAreOfReleases

\* What a transaction is.
LEMMA InSync ==
    ASSUME RegistryTypeOK, NEW s \in Syncs, Syncing(s)
    PROVE  sync[s] \in [pc : {"syncing"}, release : Releases, next : Nat \ {0},
                        written : SUBSET BankIds]
  BY DEF RegistryTypeOK, Syncing

\* The rows stay what they are.
LEMMA SameRows ==
    ASSUME RowsAreOfReleases, source' = source
    PROVE  RowsAreOfReleases'
  <1>1. ASSUME NEW r \in Releases, Whole(r)
        PROVE  Whole(r)'
    BY <1>1 DEF Whole
  <1>2. ASSUME NEW b \in BankIds, source'[b] # NoSource
        PROVE  \E r \in Releases :
                  /\ r.version = source'[b].version
                  /\ \E i \in DOMAIN r.banks :
                        /\ r.banks[i].id = b
                        /\ source'[b].content = r.banks[i].content /\ source'[b].order = i
                  /\ Whole(r)'
    <2>1. source[b] # NoSource
      BY <1>2
    <2>2. PICK r \in Releases :
             /\ r.version = source[b].version
             /\ \E i \in DOMAIN r.banks :
                   /\ r.banks[i].id = b
                   /\ source[b].content = r.banks[i].content /\ source[b].order = i
             /\ Whole(r)
      BY <2>1 DEF RowsAreOfReleases
    <2>3. Whole(r)'
      BY <1>1, <2>2
    <2> QED BY <2>2, <2>3
  <1> QED BY <1>2 DEF RowsAreOfReleases

\* A transaction that begins or ends, and writes nothing.
LEMMA SyncEnds ==
    ASSUME RegistryInv, NEW s \in Syncs, source' = source, NEW x,
           x = NotSyncing \/
              \E r \in Releases : x = [pc |-> "syncing", release |-> r, next |-> 1, written |-> {}],
           sync' = [sync EXCEPT ![s] = x]
    PROVE  RegistryInv'
  <1>1. /\ RegistryTypeOK /\ sync'[s] = x
        /\ \A t \in Syncs \ {s} : sync'[t] = sync[t]
    BY DEF RegistryInv, RegistryTypeOK
  <1>2. RegistryTypeOK'
    <2>1. \A r \in Releases : [pc |-> "syncing", release |-> r, next |-> 1, written |-> {}]
             \in [pc : {"syncing"}, release : Releases, next : Nat \ {0}, written : SUBSET BankIds]
      OBVIOUS
    <2> QED BY <1>1, <2>1 DEF RegistryTypeOK
  <1>3. RowsAreOfReleases'
    BY SameRows DEF RegistryInv
  <1>4. Syncing(s)' => /\ sync'[s].written = {} /\ sync'[s].next = 1
                       /\ sync'[s].release \in Releases
    <2>1. CASE x = NotSyncing
      BY <1>1, <2>1 DEF Syncing
    <2>2. CASE \E r \in Releases : x = [pc |-> "syncing", release |-> r, next |-> 1, written |-> {}]
      <3>1. PICK r \in Releases : x = [pc |-> "syncing", release |-> r, next |-> 1, written |-> {}]
        BY <2>2
      <3>2. x.release = r /\ x.next = 1 /\ x.written = {}
        BY <3>1
      <3> QED BY <1>1, <3>2
    <2> QED BY <2>1, <2>2
  <1>5. Syncing(s)' =>
           {j \in DOMAIN sync'[s].release.banks : j < sync'[s].next} = {}
    BY <1>4, Release
  <1>6. WritesInOrder'
    BY <1>1, <1>4, <1>5 DEF RegistryInv, WritesInOrder, Syncing
  <1> QED BY <1>2, <1>3, <1>6 DEF RegistryInv

\* The next bank is written, over a row that is not of a later release.
LEMMA BankIsWritten ==
    ASSUME RegistryInv, NEW s \in Syncs, MoreBanks(s), ~LockedByOther(s, BankAt(s).id),
           source[BankAt(s).id] # NoSource =>
              ~VersionBefore(sync[s].release.version, source[BankAt(s).id].version),
           Upserted(s)
    PROVE  RegistryInv'
  <1> DEFINE r == sync[s].release
             i == sync[s].next
             b == BankAt(s).id
             x == [sync[s] EXCEPT !.next = i + 1, !.written = @ \cup {b}]
  <1>1. /\ RegistryTypeOK /\ Syncing(s) /\ r \in Releases /\ i \in Nat \ {0} /\ i <= Len(r.banks)
        /\ sync[s] \in [pc : {"syncing"}, release : Releases, next : Nat \ {0},
                        written : SUBSET BankIds]
    BY InSync DEF RegistryInv, MoreBanks
  <1>2. i \in DOMAIN r.banks /\ b = r.banks[i].id /\ b \in BankIds
    BY <1>1, Release DEF BankAt
  <1>3. sync' = [sync EXCEPT ![s] = x] /\ source' = source
    BY DEF Upserted
  <1>4. /\ x \in [pc : {"syncing"}, release : Releases, next : Nat \ {0}, written : SUBSET BankIds]
        /\ x.release = r /\ x.next = i + 1 /\ x.written = sync[s].written \cup {b}
    <2>1. i + 1 \in Nat \ {0} /\ sync[s].written \cup {b} \in SUBSET BankIds
      BY <1>1, <1>2
    <2> HIDE DEF b, i
    <2> QED BY <1>1, <2>1
  <1> HIDE DEF x
  <1>5. sync'[s] = x /\ \A t \in Syncs \ {s} : sync'[t] = sync[t]
    BY <1>1, <1>3 DEF RegistryTypeOK
  <1>6. RegistryTypeOK'
    BY <1>1, <1>3, <1>4 DEF RegistryTypeOK
  <1>7. RowsAreOfReleases'
    BY <1>3, SameRows DEF RegistryInv
  <1>8. ASSUME NEW t \in Syncs, Syncing(t)'
        PROVE  /\ sync'[t].written = {sync'[t].release.banks[k].id :
                     k \in {j \in DOMAIN sync'[t].release.banks : j < sync'[t].next}}
               /\ \A a \in sync'[t].written : source[a] # NoSource =>
                     ~VersionBefore(sync'[t].release.version, source[a].version)
    <2>1. CASE t = s
      <3>1. sync[s].written = {r.banks[k].id : k \in {j \in DOMAIN r.banks : j < i}}
        BY <1>1 DEF RegistryInv, WritesInOrder
      <3>2. {j \in DOMAIN r.banks : j < i + 1} = {j \in DOMAIN r.banks : j < i} \cup {i}
        BY <1>1, <1>2, Release
      <3>3. x.written = {r.banks[k].id : k \in {j \in DOMAIN r.banks : j < i + 1}}
        BY <1>2, <1>4, <3>1, <3>2
      <3>4. \A a \in x.written : source[a] # NoSource => ~VersionBefore(r.version, source[a].version)
        BY <1>1, <1>4 DEF RegistryInv, WritesInOrder
      <3> QED BY <1>4, <1>5, <2>1, <3>3, <3>4
    <2>2. CASE t # s
      <3>1. sync'[t] = sync[t] /\ Syncing(t)
        BY <1>5, <1>8, <2>2 DEF Syncing
      <3> QED BY <3>1 DEF RegistryInv, WritesInOrder
    <2> QED BY <2>1, <2>2
  <1>9. \A t \in Syncs \ {s} : Syncing(t)' => x.written \cap sync'[t].written = {}
    BY <1>1, <1>4, <1>5 DEF RegistryInv, WritesInOrder, Syncing, LockedByOther
  <1>10. \A t, u \in Syncs : t # u /\ Syncing(t)' /\ Syncing(u)' =>
            sync'[t].written \cap sync'[u].written = {}
    BY <1>5, <1>9 DEF RegistryInv, WritesInOrder, Syncing
  <1> QED BY <1>3, <1>6, <1>7, <1>8, <1>10 DEF RegistryInv, WritesInOrder

\* All of a release appears at once; of what was there before nothing comes
\* back, and nothing goes behind.
LEMMA ReleaseIsCommitted ==
    ASSUME RegistryInv, NEW s \in Syncs, CommitSync(s)
    PROVE  RegistryInv'
  <1> DEFINE r == sync[s].release
             Banks == {r.banks[i].id : i \in DOMAIN r.banks}
  <1>1. /\ RegistryTypeOK /\ RowsAreOfReleases /\ Syncing(s) /\ r \in Releases
        /\ sync[s].next \in Nat
        /\ Banks \subseteq BankIds
    BY InSync, Release DEF RegistryInv, CommitSync
  <1>2. sync[s].written = Banks
    <2>1. sync[s].next > Len(r.banks)
      BY <1>1, Release DEF CommitSync, MoreBanks
    <2>2. {j \in DOMAIN r.banks : j < sync[s].next} = DOMAIN r.banks
      BY <1>1, <2>1, Release
    <2> QED BY <1>1, <2>2 DEF RegistryInv, WritesInOrder
  <1>3. /\ sync' = [sync EXCEPT ![s] = NotSyncing]
        /\ source' = [b \in BankIds |-> IF b \in Banks THEN RowsOfRelease(s)[b] ELSE source[b]]
    BY <1>2 DEF CommitSync
  <1>4. sync'[s] = NotSyncing /\ \A t \in Syncs \ {s} : sync'[t] = sync[t]
    BY <1>1, <1>3 DEF RegistryTypeOK
  <1>5. \A b \in BankIds \ Banks : source'[b] = source[b]
    BY <1>3
  <1>6. ASSUME NEW b \in Banks
        PROVE  /\ source'[b] # NoSource /\ source'[b].version = r.version
               /\ \E i \in DOMAIN r.banks :
                     /\ r.banks[i].id = b
                     /\ source'[b].content = r.banks[i].content /\ source'[b].order = i
    <2>1. \E i \in DOMAIN r.banks : r.banks[i].id = b
      OBVIOUS
    <2> DEFINE i == CHOOSE i \in DOMAIN r.banks : r.banks[i].id = b
    <2>2. i \in DOMAIN r.banks /\ r.banks[i].id = b
      BY <2>1
    <2>3. source'[b] = [version |-> r.version, content |-> r.banks[i].content, order |-> i]
      BY <1>1, <1>3, <2>1 DEF RowsOfRelease
    <2> HIDE DEF i
    <2>4. /\ source'[b].version = r.version /\ source'[b].content = r.banks[i].content
          /\ source'[b].order = i
      BY <2>3
    <2>5. source'[b] # NoSource
      BY <1>1, <2>4, Release DEF NoSource
    <2> QED BY <2>2, <2>4, <2>5
  <1>7. RegistryTypeOK'
    <2>1. source' = [b \in BankIds |-> source'[b]]
      BY <1>3
    <2> QED BY <1>1, <1>3, <2>1 DEF RegistryTypeOK
  <1>8. RowsAreOfReleases'
    <2>1. ASSUME NEW q \in Releases, q = r
          PROVE  Whole(q)'
      <3>1. r.version \in Int \X Int
        BY <1>1, Release
      <3>2. ~VersionBefore(r.version, r.version)
        BY <3>1, VersionOrder
      <3> HIDE DEF r
      <3>3. \A i \in DOMAIN r.banks : r.banks[i].id \in Banks
        OBVIOUS
      <3> HIDE DEF Banks
      <3>4. \A i \in DOMAIN r.banks :
               /\ source'[r.banks[i].id] # NoSource
               /\ ~VersionBefore(source'[r.banks[i].id].version, r.version)
        BY <1>6, <3>2, <3>3
      <3> QED BY <2>1, <3>4 DEF Whole
    <2>2. ASSUME NEW q \in Releases, Whole(q)
          PROVE  Whole(q)'
      <3> SUFFICES ASSUME NEW i \in DOMAIN q.banks
                   PROVE  /\ source'[q.banks[i].id] # NoSource
                          /\ ~VersionBefore(source'[q.banks[i].id].version, q.version)
        BY DEF Whole
      <3> DEFINE b == q.banks[i].id
      <3>1. b \in BankIds /\ source[b] # NoSource /\ ~VersionBefore(source[b].version, q.version)
        BY <2>2, Release DEF Whole
      <3>2. CASE b \notin Banks
        BY <1>5, <3>1, <3>2
      <3>3. CASE b \in Banks
        <4>1. source'[b] # NoSource /\ source'[b].version = r.version
          BY <1>6, <3>3
        <4>2. ~VersionBefore(r.version, source[b].version)
          BY <1>1, <1>2, <3>1, <3>3 DEF RegistryInv, WritesInOrder
        <4>3. /\ r.version \in Int \X Int /\ q.version \in Int \X Int
              /\ source[b].version \in Int \X Int
          BY <1>1, <3>1, Release, RowVersion
        <4>4. ~VersionBefore(r.version, q.version)
          BY <3>1, <4>2, <4>3, VersionOrder
        <4> QED BY <4>1, <4>4
      <3> QED BY <3>2, <3>3
    <2>3. ASSUME NEW b \in BankIds, source'[b] # NoSource
          PROVE  \E q \in Releases :
                    /\ q.version = source'[b].version
                    /\ \E i \in DOMAIN q.banks :
                          /\ q.banks[i].id = b
                          /\ source'[b].content = q.banks[i].content /\ source'[b].order = i
                    /\ Whole(q)'
      <3>1. CASE b \in Banks
        <4>1. PICK q \in Releases : q = r
          BY <1>1
        <4>2. Whole(q)'
          BY <2>1, <4>1
        <4>3. /\ source'[b].version = q.version
              /\ \E i \in DOMAIN q.banks :
                    /\ q.banks[i].id = b
                    /\ source'[b].content = q.banks[i].content /\ source'[b].order = i
          BY <1>6, <3>1, <4>1
        <4> QED BY <4>2, <4>3
      <3>2. CASE b \notin Banks
        <4>1. source'[b] = source[b] /\ source[b] # NoSource
          BY <1>5, <2>3, <3>2
        <4> QED BY <1>1, <2>2, <4>1 DEF RowsAreOfReleases
      <3> QED BY <3>1, <3>2
    <2> QED BY <2>3 DEF RowsAreOfReleases
  <1>9. WritesInOrder'
    <2>1. ASSUME NEW t \in Syncs, Syncing(t)'
          PROVE  /\ t # s /\ Syncing(t) /\ sync'[t] = sync[t]
                 /\ \A b \in sync[t].written : source'[b] = source[b]
      <3>1. t # s /\ Syncing(t) /\ sync'[t] = sync[t]
        BY <1>4, <2>1 DEF Syncing
      <3>2. sync[t].written \cap Banks = {} /\ sync[t].written \subseteq BankIds
        BY <1>1, <1>2, <3>1, InSync DEF RegistryInv, WritesInOrder
      <3> QED BY <1>5, <3>1, <3>2
    <2> QED BY <2>1 DEF RegistryInv, WritesInOrder
  <1> QED BY <1>7, <1>8, <1>9 DEF RegistryInv

\* The allowlist of the database is never a release that was written in part,
\* whichever images start and stop at once.
THEOREM ReleasesAreWhole == RegistrySpec => []OneReleaseAtATime
  <1>1. RegistryInit => RegistryInv
    BY DEF RegistryInit, RegistryInv, RegistryTypeOK, RowsAreOfReleases, WritesInOrder, Syncing
  <1>2. RegistryInv /\ [RegistryNext]_registryVars => RegistryInv'
    <2> SUFFICES ASSUME RegistryInv, [RegistryNext]_registryVars PROVE RegistryInv'
      OBVIOUS
    <2>1. CASE UNCHANGED registryVars
      <3>1. source' = source /\ sync' = sync
        BY <2>1 DEF registryVars
      <3>2. RegistryTypeOK' /\ WritesInOrder'
        BY <3>1 DEF RegistryInv, RegistryTypeOK, WritesInOrder, Syncing
      <3> QED BY <3>1, <3>2, SameRows DEF RegistryInv
    <2>2. ASSUME NEW s \in Syncs, NEW release \in Releases, BeginSync(s, release)
          PROVE  RegistryInv'
      BY <2>2, SyncEnds DEF BeginSync
    <2>3. ASSUME NEW s \in Syncs, StaleSource(s) \/ AbortSync(s)
          PROVE  RegistryInv'
      BY <2>3, SyncEnds DEF StaleSource, AbortSync
    <2>4. ASSUME NEW s \in Syncs, UpsertBank(s) \/ SameRelease(s)
          PROVE  RegistryInv'
      <3> DEFINE r == sync[s].release
                 row == source[BankAt(s).id]
      <3>1. /\ MoreBanks(s) /\ ~LockedByOther(s, BankAt(s).id) /\ Upserted(s)
            /\ row = NoSource \/ VersionBefore(row.version, r.version) \/ row.version = r.version
        BY <2>4 DEF UpsertBank, SameRelease
      <3>2. /\ r \in Releases /\ BankAt(s).id \in BankIds
        <4>1. /\ Syncing(s) /\ sync[s].next <= Len(r.banks)
          BY <3>1 DEF MoreBanks
        <4>2. r \in Releases /\ sync[s].next \in Nat \ {0}
          BY <4>1, InSync DEF RegistryInv
        <4> QED BY <4>1, <4>2, Release DEF BankAt
      <3>3. row # NoSource => ~VersionBefore(r.version, row.version)
        <4>1. r.version \in Int \X Int /\ (row # NoSource => row.version \in Int \X Int)
          BY <3>2, Release, RowVersion DEF RegistryInv
        <4> QED BY <3>1, <4>1, VersionOrder
      <3> QED BY <3>1, <3>3, BankIsWritten
    <2>5. ASSUME NEW s \in Syncs, CommitSync(s)
          PROVE  RegistryInv'
      BY <2>5, ReleaseIsCommitted
    <2> QED BY <2>1, <2>2, <2>3, <2>4, <2>5 DEF RegistryNext
  <1>3. RegistryInv => OneReleaseAtATime
    BY DEF RegistryInv, RowsAreOfReleases, Whole, OneReleaseAtATime
  <1> QED BY <1>1, <1>2, <1>3, PTL DEF RegistrySpec

-----------------------------------------------------------------------------
(* The outbox.                                                              *)

OutboxLease == [by : Publishers \cup {Nobody}, token : Nat, expires : Int]

OutboxRow == [published : BOOLEAN, available : Int, attempts : Nat, lease : OutboxLease]

OutboxTypeOK ==
    /\ outboxClock \in Nat
    /\ events \in Seq(OutboxRow)
    /\ publisher \in [Publishers -> {NoLease} \cup
          [attempt : Nat \ {0}, event : Nat, done : BOOLEAN]]
    /\ handedOn \in Seq(SUBSET Nat) /\ Len(handedOn) = Len(events)

\* The token of a lease is the number of the last attempt; a lease that was
\* lost belongs to an attempt before.
RowIsLeased(row) == row.lease # Unleased => row.lease.token = row.attempts

AttemptsInOrder ==
    \A p \in Publishers : publisher[p] # NoLease =>
        /\ publisher[p].event \in DOMAIN events
        /\ publisher[p].attempt <= events[publisher[p].event].attempts
        /\ publisher[p].done => publisher[p].attempt \in handedOn[publisher[p].event]

OutboxInv ==
    /\ OutboxTypeOK
    /\ \A i \in DOMAIN events : RowIsLeased(events[i])
    /\ AttemptsInOrder
    /\ PublishedByLastLease

\* What the rows are.
LEMMA OutboxRows ==
    ASSUME OutboxTypeOK
    PROVE  /\ Len(events) \in Nat /\ DOMAIN events = 1..Len(events)
           /\ DOMAIN handedOn = DOMAIN events
           /\ \A i \in DOMAIN events :
                 /\ events[i] \in OutboxRow /\ events[i].attempts \in Nat
                 /\ handedOn[i] \in SUBSET Nat
  <1>1. /\ events \in Seq(OutboxRow) /\ handedOn \in Seq(SUBSET Nat)
        /\ Len(handedOn) = Len(events)
    BY DEF OutboxTypeOK
  <1>2. /\ Len(events) \in Nat /\ DOMAIN events = 1..Len(events)
        /\ DOMAIN handedOn = DOMAIN events
    BY <1>1, LenProperties
  <1>3. \A i \in DOMAIN events : events[i] \in OutboxRow
    BY <1>1
  <1>4. \A i \in DOMAIN events : handedOn[i] \in SUBSET Nat
    BY <1>1, <1>2, ElementOfSeq
  <1> QED BY <1>2, <1>3, <1>4 DEF OutboxRow

\* A row for a row.
LEMMA EventsRewritten ==
    ASSUME OutboxTypeOK, NEW rows, DOMAIN rows = DOMAIN events,
           rows = [i \in DOMAIN events |-> rows[i]],
           \A i \in DOMAIN events : rows[i] \in OutboxRow
    PROVE  rows \in Seq(OutboxRow) /\ Len(rows) = Len(events)
  <1>1. rows \in Seq(OutboxRow)
    BY OutboxRows, IsASeq
  <1> QED BY <1>1, OutboxRows, LenProperties

\* A row that loses its lease, is published, or waits.
LEMMA RowReleased ==
    ASSUME NEW e \in OutboxRow
    PROVE  /\ LET row == [e EXCEPT !.published = TRUE, !.lease = Unleased]
              IN row \in OutboxRow /\ row.attempts = e.attempts /\ row.lease = Unleased
           /\ \A at \in Int :
                 LET row == [e EXCEPT !.available = at, !.lease = Unleased]
                 IN row \in OutboxRow /\ row.attempts = e.attempts /\ row.lease = Unleased
                    /\ row.published = e.published
  <1>1. Unleased \in OutboxLease
    BY DEF Unleased, OutboxLease
  <1> QED BY <1>1 DEF OutboxRow

\* The leases that a claim takes from attempts that are used up.
LEMMA Cleared ==
    ASSUME NEW e \in OutboxRow, RowIsLeased(e)
    PROVE  /\ ClearUsedUp(e) \in OutboxRow /\ RowIsLeased(ClearUsedUp(e))
           /\ ClearUsedUp(e).attempts = e.attempts
           /\ ClearUsedUp(e).published = e.published
           /\ e.published => ClearUsedUp(e) = e
  <1>1. [e EXCEPT !.lease = Unleased] \in OutboxRow
    BY DEF OutboxRow, OutboxLease, Unleased
  <1>2. /\ [e EXCEPT !.lease = Unleased].lease = Unleased
        /\ [e EXCEPT !.lease = Unleased].attempts = e.attempts
        /\ [e EXCEPT !.lease = Unleased].published = e.published
    BY DEF OutboxRow
  <1> QED BY <1>1, <1>2 DEF ClearUsedUp, RowIsLeased

\* A step that rewrites rows and leaves what is published, the attempts there
\* were and what was handed on.
LEMMA OutboxFrame ==
    ASSUME OutboxInv, events' \in Seq(OutboxRow), Len(events') = Len(events),
           UNCHANGED <<outboxClock, handedOn>>,
           \A i \in DOMAIN events :
              /\ RowIsLeased(events'[i])
              /\ events[i].attempts <= events'[i].attempts
              /\ events'[i].published =>
                    events'[i].lease = Unleased /\ events'[i].attempts \in handedOn[i],
           publisher' \in [Publishers -> {NoLease} \cup
              [attempt : Nat \ {0}, event : Nat, done : BOOLEAN]],
           \A p \in Publishers : publisher'[p] # NoLease =>
              publisher'[p] = publisher[p] \/
                 /\ publisher'[p].event \in DOMAIN events
                 /\ publisher'[p].attempt <= events'[publisher'[p].event].attempts
                 /\ ~publisher'[p].done
    PROVE  OutboxInv'
  <1>1. OutboxTypeOK /\ OutboxTypeOK'
    BY DEF OutboxInv, OutboxTypeOK
  <1>2. DOMAIN events' = DOMAIN events
    BY <1>1, LenProperties DEF OutboxTypeOK
  <1>3. \A i \in DOMAIN events : events[i].attempts \in Nat /\ events'[i].attempts \in Nat
    <2>1. \A i \in DOMAIN events : events'[i] \in OutboxRow
      BY <1>2
    <2> QED BY <1>1, <2>1, OutboxRows DEF OutboxRow
  <1>4. AttemptsInOrder'
    <2> SUFFICES ASSUME NEW p \in Publishers, publisher'[p] # NoLease
                 PROVE  /\ publisher'[p].event \in DOMAIN events'
                        /\ publisher'[p].attempt <= events'[publisher'[p].event].attempts
                        /\ publisher'[p].done => publisher'[p].attempt \in handedOn'[publisher'[p].event]
      BY DEF AttemptsInOrder
    <2>1. publisher'[p].attempt \in Int
      OBVIOUS
    <2>2. CASE publisher'[p] = publisher[p]
      <3>1. /\ publisher[p].event \in DOMAIN events
            /\ publisher[p].attempt <= events[publisher[p].event].attempts
            /\ publisher[p].done => publisher[p].attempt \in handedOn[publisher[p].event]
        BY <2>2 DEF OutboxInv, AttemptsInOrder
      <3>2. publisher[p].attempt <= events'[publisher[p].event].attempts
        BY <1>3, <2>1, <2>2, <3>1
      <3> QED BY <1>2, <2>2, <3>1, <3>2
    <2>3. CASE publisher'[p] # publisher[p]
      BY <1>2, <2>3
    <2> QED BY <2>2, <2>3
  <1>5. PublishedByLastLease'
    BY <1>2 DEF PublishedByLastLease
  <1> QED BY <1>1, <1>2, <1>4, <1>5 DEF OutboxInv

\* Who owns the event he works at has its last attempt.
LEMMA OwnerIsLast ==
    ASSUME OutboxInv, NEW p \in Publishers, publisher[p] # NoLease, OwnsEvent(p)
    PROVE  /\ publisher[p].event \in DOMAIN events
           /\ events[publisher[p].event].attempts = publisher[p].attempt
           /\ publisher[p].done => publisher[p].attempt \in handedOn[publisher[p].event]
  <1>1. publisher[p].attempt \in Nat \ {0}
    BY DEF OutboxInv, OutboxTypeOK
  <1>2. publisher[p].event \in DOMAIN events
    BY DEF OutboxInv, AttemptsInOrder
  <1>3. events[publisher[p].event].lease.token = publisher[p].attempt
    BY DEF OwnsEvent
  <1>4. events[publisher[p].event].lease # Unleased
    BY <1>1, <1>3 DEF Unleased
  <1> QED BY <1>2, <1>3, <1>4 DEF OutboxInv, RowIsLeased, AttemptsInOrder

\* Every step keeps the invariant.
LEMMA OutboxStep ==
    ASSUME OutboxInv, OutboxNext
    PROVE  OutboxInv'
  <1>0. /\ OutboxTypeOK /\ outboxClock \in Nat /\ LeaseFor \in Nat /\ RetryAfter \in Nat
        /\ publisher \in [Publishers -> {NoLease} \cup
              [attempt : Nat \ {0}, event : Nat, done : BOOLEAN]]
    BY OutboxAssumption DEF OutboxInv, OutboxTypeOK
  <1>r. /\ Len(events) \in Nat /\ DOMAIN events = 1..Len(events) /\ DOMAIN handedOn = DOMAIN events
        /\ \A i \in DOMAIN events :
              /\ events[i] \in OutboxRow /\ events[i].attempts \in Nat
              /\ handedOn[i] \in SUBSET Nat /\ RowIsLeased(events[i])
              /\ events[i].published =>
                    events[i].lease = Unleased /\ events[i].attempts \in handedOn[i]
    BY <1>0, OutboxRows DEF OutboxInv, PublishedByLastLease
  <1>1. CASE OutboxTick
    BY <1>1 DEF OutboxTick, OutboxInv, OutboxTypeOK, AttemptsInOrder, PublishedByLastLease
  <1>2. CASE AddOutboxEvent
    <2> DEFINE new == [published |-> FALSE, available |-> outboxClock, attempts |-> 0,
                       lease |-> Unleased]
    <2>1. /\ events' = Append(events, new) /\ handedOn' = Append(handedOn, {})
          /\ UNCHANGED <<outboxClock, publisher>>
      BY <1>2 DEF AddOutboxEvent
    <2>2. new \in OutboxRow /\ ~new.published /\ new.lease = Unleased
      <3>1. Unleased \in OutboxLease
        BY DEF Unleased, OutboxLease
      <3> QED BY <1>0, <3>1 DEF OutboxRow
    <2> HIDE DEF new
    <2>3. /\ events' \in Seq(OutboxRow) /\ handedOn' \in Seq(SUBSET Nat)
          /\ Len(events') = Len(events) + 1 /\ Len(handedOn') = Len(handedOn) + 1
      BY <1>0, <2>1, <2>2, AppendProperties DEF OutboxTypeOK
    <2>4. /\ \A i \in DOMAIN events : events'[i] = events[i] /\ handedOn'[i] = handedOn[i]
          /\ events'[Len(events) + 1] = new
      BY <1>0, <1>r, <2>1, <2>2, AppendProperties DEF OutboxTypeOK
    <2>5. DOMAIN events' = DOMAIN events \cup {Len(events) + 1}
      <3>1. DOMAIN events' = 1..(Len(events) + 1)
        BY <2>3, LenProperties
      <3> QED BY <1>r, <3>1
    <2>6. OutboxTypeOK'
      BY <1>0, <2>1, <2>3 DEF OutboxTypeOK
    <2>7. \A i \in DOMAIN events' : RowIsLeased(events'[i])
      BY <1>r, <2>2, <2>4, <2>5 DEF RowIsLeased
    <2>8. AttemptsInOrder'
      BY <2>1, <2>4, <2>5 DEF OutboxInv, AttemptsInOrder
    <2>9. PublishedByLastLease'
      BY <1>r, <2>2, <2>4, <2>5 DEF PublishedByLastLease
    <2> QED BY <2>6, <2>7, <2>8, <2>9 DEF OutboxInv
  <1>3. ASSUME NEW p \in Publishers, ClaimEvent(p)
        PROVE  OutboxInv'
    <2> DEFINE i == CHOOSE i \in FirstClaimable : TRUE
               attempt == events[i].attempts + 1
               lease == [by |-> p, token |-> attempt, expires |-> outboxClock + LeaseFor]
               claimed == [events[i] EXCEPT !.attempts = attempt, !.lease = lease]
               x == [attempt |-> attempt, event |-> i, done |-> FALSE]
    <2>1. /\ events' = [j \in DOMAIN events |->
                           IF j = i THEN claimed ELSE ClearUsedUp(events[j])]
          /\ publisher' = [publisher EXCEPT ![p] = x]
          /\ UNCHANGED <<outboxClock, handedOn>>
      BY <1>3, Zenon DEF ClaimEvent
    <2>2. i \in DOMAIN events /\ ~events[i].published
      <3>1. FirstClaimable # {}
        BY <1>3 DEF ClaimEvent
      <3>2. i \in FirstClaimable
        BY <3>1
      <3> QED BY <3>2 DEF FirstClaimable, ClaimableEvents
    <2> HIDE DEF i
    <2>3. attempt \in Nat \ {0} /\ events[i].attempts <= attempt
      BY <1>r, <2>2
    <2>4. /\ claimed \in OutboxRow /\ claimed.attempts = attempt /\ claimed.lease.token = attempt
          /\ ~claimed.published
      <3>1. lease \in OutboxLease /\ lease.token = attempt
        BY <1>0, <2>3 DEF OutboxLease
      <3>2. events[i] \in OutboxRow /\ attempt \in Nat
        BY <1>r, <2>2, <2>3
      <3> HIDE DEF lease, attempt
      <3>3. /\ claimed \in OutboxRow /\ claimed.attempts = attempt /\ claimed.lease = lease
            /\ claimed.published = events[i].published
        BY <3>1, <3>2 DEF OutboxRow
      <3> QED BY <2>2, <3>1, <3>3
    <2>5. x \in [attempt : Nat \ {0}, event : Nat, done : BOOLEAN]
          /\ x.attempt = attempt /\ x.event = i /\ ~x.done
      BY <1>r, <2>2, <2>3
    <2> HIDE DEF x, claimed, attempt
    <2>6. \A j \in DOMAIN events :
             /\ events'[j] \in OutboxRow /\ RowIsLeased(events'[j])
             /\ events[j].attempts <= events'[j].attempts
             /\ events'[j].published =>
                   events'[j].lease = Unleased /\ events'[j].attempts \in handedOn[j]
      <3> SUFFICES ASSUME NEW j \in DOMAIN events
                   PROVE  /\ events'[j] \in OutboxRow /\ RowIsLeased(events'[j])
                          /\ events[j].attempts <= events'[j].attempts
                          /\ events'[j].published =>
                                events'[j].lease = Unleased /\ events'[j].attempts \in handedOn[j]
        OBVIOUS
      <3>1. CASE j = i
        BY <2>1, <2>3, <2>4, <3>1 DEF RowIsLeased
      <3>2. CASE j # i
        <4>1. events'[j] = ClearUsedUp(events[j])
          BY <2>1, <3>2
        <4> QED BY <1>r, <4>1, Cleared
      <3> QED BY <3>1, <3>2
    <2>7. events' \in Seq(OutboxRow) /\ Len(events') = Len(events)
      <3>1. DOMAIN events' = DOMAIN events /\ events' = [j \in DOMAIN events |-> events'[j]]
        BY <2>1
      <3> QED BY <1>0, <2>6, <3>1, EventsRewritten
    <2>8. /\ publisher' \in [Publishers -> {NoLease} \cup
                [attempt : Nat \ {0}, event : Nat, done : BOOLEAN]]
          /\ publisher'[p] = x /\ \A q \in Publishers \ {p} : publisher'[q] = publisher[q]
      BY <1>0, <2>1, <2>5
    <2>9. x.attempt <= events'[i].attempts
      BY <2>1, <2>2, <2>3, <2>4, <2>5
    <2> QED BY <2>1, <2>2, <2>5, <2>6, <2>7, <2>8, <2>9, OutboxFrame
  <1>4. ASSUME NEW p \in Publishers, ClaimNothing(p)
        PROVE  OutboxInv'
    <2>1. /\ events' = [j \in DOMAIN events |-> ClearUsedUp(events[j])]
          /\ UNCHANGED <<outboxClock, publisher, handedOn>>
      BY <1>4 DEF ClaimNothing
    <2>2. \A j \in DOMAIN events :
             /\ events'[j] \in OutboxRow /\ RowIsLeased(events'[j])
             /\ events[j].attempts <= events'[j].attempts
             /\ events'[j].published =>
                   events'[j].lease = Unleased /\ events'[j].attempts \in handedOn[j]
      BY <1>r, <2>1, Cleared
    <2>3. events' \in Seq(OutboxRow) /\ Len(events') = Len(events)
      BY <1>0, <2>1, <2>2, EventsRewritten
    <2> QED BY <1>0, <2>1, <2>2, <2>3, OutboxFrame
  <1>5. ASSUME NEW p \in Publishers, HandOn(p)
        PROVE  OutboxInv'
    <2> DEFINE i == publisher[p].event
               x == [publisher[p] EXCEPT !.done = TRUE]
    <2>1. /\ publisher[p] # NoLease /\ publisher' = [publisher EXCEPT ![p] = x]
          /\ handedOn' = [handedOn EXCEPT ![i] = @ \cup {publisher[p].attempt}]
          /\ UNCHANGED <<outboxClock, events>>
      BY <1>5 DEF HandOn
    <2>2. i \in DOMAIN events /\ publisher[p].attempt <= events[i].attempts
      BY <2>1 DEF OutboxInv, AttemptsInOrder
    <2>3. publisher[p] \in [attempt : Nat \ {0}, event : Nat, done : BOOLEAN]
      BY <1>0, <2>1
    <2>4. /\ x \in [attempt : Nat \ {0}, event : Nat, done : BOOLEAN]
          /\ x.attempt = publisher[p].attempt /\ x.event = i
      BY <2>3
    <2> HIDE DEF x, i
    <2>5. /\ handedOn' \in Seq(SUBSET Nat) /\ Len(handedOn') = Len(handedOn)
          /\ \A j \in DOMAIN events : handedOn[j] \subseteq handedOn'[j]
          /\ publisher[p].attempt \in handedOn'[i]
      <3>1. handedOn \in Seq(SUBSET Nat) /\ i \in 1..Len(handedOn)
        BY <1>0, <1>r, <2>2 DEF OutboxTypeOK
      <3>2. handedOn[i] \cup {publisher[p].attempt} \in SUBSET Nat
        BY <1>r, <2>2, <2>3
      <3> QED BY <1>r, <2>1, <3>1, <3>2, ExceptSeq
    <2>6. /\ publisher' \in [Publishers -> {NoLease} \cup
                [attempt : Nat \ {0}, event : Nat, done : BOOLEAN]]
          /\ publisher'[p] = x /\ \A q \in Publishers \ {p} : publisher'[q] = publisher[q]
      BY <1>0, <2>1, <2>4
    <2>7. OutboxTypeOK'
      BY <1>0, <2>1, <2>5, <2>6 DEF OutboxTypeOK
    <2>8. AttemptsInOrder'
      <3> SUFFICES ASSUME NEW q \in Publishers, publisher'[q] # NoLease
                   PROVE  /\ publisher'[q].event \in DOMAIN events
                          /\ publisher'[q].attempt <= events[publisher'[q].event].attempts
                          /\ publisher'[q].done =>
                                publisher'[q].attempt \in handedOn'[publisher'[q].event]
        BY <2>1 DEF AttemptsInOrder
      <3>1. CASE q = p
        BY <2>2, <2>4, <2>5, <2>6, <3>1
      <3>2. CASE q # p
        BY <2>5, <2>6, <3>2 DEF OutboxInv, AttemptsInOrder
      <3> QED BY <3>1, <3>2
    <2>9. PublishedByLastLease'
      BY <1>r, <2>1, <2>5 DEF PublishedByLastLease
    <2> QED BY <1>r, <2>1, <2>7, <2>8, <2>9 DEF OutboxInv
  <1>6. ASSUME NEW p \in Publishers, MarkPublished(p) \/ ReleaseEvent(p)
        PROVE  OutboxInv'
    <2> DEFINE i == publisher[p].event
    <2>1. /\ publisher[p] # NoLease /\ OwnsEvent(p)
          /\ publisher' = [publisher EXCEPT ![p] = NoLease]
          /\ UNCHANGED <<outboxClock, handedOn>>
      BY <1>6 DEF MarkPublished, ReleaseEvent
    <2>2. /\ i \in DOMAIN events /\ events[i].attempts = publisher[p].attempt
          /\ publisher[p].done => publisher[p].attempt \in handedOn[i]
          /\ ~events[i].published
      BY <2>1, OwnerIsLast DEF OwnsEvent
    <2>3. \E row \in OutboxRow :
             /\ events' = [events EXCEPT ![i] = row]
             /\ row.lease = Unleased /\ row.attempts = events[i].attempts
             /\ row.published => row.attempts \in handedOn[i]
      <3>0. events[i] \in OutboxRow /\ outboxClock + RetryAfter \in Int
        BY <1>0, <1>r, <2>2
      <3>1. CASE MarkPublished(p)
        <4> DEFINE row == [events[i] EXCEPT !.published = TRUE, !.lease = Unleased]
        <4>1. row \in OutboxRow /\ row.lease = Unleased /\ row.attempts = events[i].attempts
          BY <3>0, RowReleased
        <4>2. events' = [events EXCEPT ![i] = row] /\ publisher[p].done
          BY <3>1 DEF MarkPublished
        <4> HIDE DEF row
        <4> QED BY <2>2, <4>1, <4>2
      <3>2. CASE ReleaseEvent(p)
        <4> DEFINE row == [events[i] EXCEPT !.available = outboxClock + RetryAfter,
                                            !.lease = Unleased]
        <4>1. /\ row \in OutboxRow /\ row.lease = Unleased /\ row.attempts = events[i].attempts
              /\ row.published = events[i].published
          BY <3>0, RowReleased
        <4>2. events' = [events EXCEPT ![i] = row]
          BY <3>2 DEF ReleaseEvent
        <4> HIDE DEF row
        <4> QED BY <2>2, <4>1, <4>2
      <3> QED BY <1>6, <3>1, <3>2
    <2>4. PICK row \in OutboxRow :
             /\ events' = [events EXCEPT ![i] = row]
             /\ row.lease = Unleased /\ row.attempts = events[i].attempts
             /\ row.published => row.attempts \in handedOn[i]
      BY <2>3
    <2> HIDE DEF i
    <2>5. /\ events' \in Seq(OutboxRow) /\ Len(events') = Len(events)
          /\ \A j \in DOMAIN events : events'[j] = IF j = i THEN row ELSE events[j]
      BY <1>0, <1>r, <2>2, <2>4, ExceptSeq DEF OutboxTypeOK
    <2>6. \A j \in DOMAIN events :
             /\ RowIsLeased(events'[j])
             /\ events[j].attempts <= events'[j].attempts
             /\ events'[j].published =>
                   events'[j].lease = Unleased /\ events'[j].attempts \in handedOn[j]
      BY <1>r, <2>4, <2>5 DEF RowIsLeased
    <2>7. /\ publisher' \in [Publishers -> {NoLease} \cup
                [attempt : Nat \ {0}, event : Nat, done : BOOLEAN]]
          /\ publisher'[p] = NoLease /\ \A q \in Publishers \ {p} : publisher'[q] = publisher[q]
      BY <1>0, <2>1
    <2> QED BY <2>1, <2>5, <2>6, <2>7, OutboxFrame
  <1>7. ASSUME NEW p \in Publishers, PublisherStops(p)
        PROVE  OutboxInv'
    <2>1. publisher' = [publisher EXCEPT ![p] = NoLease] /\ UNCHANGED <<outboxClock, events, handedOn>>
      BY <1>7 DEF PublisherStops
    <2>2. /\ publisher' \in [Publishers -> {NoLease} \cup
                [attempt : Nat \ {0}, event : Nat, done : BOOLEAN]]
          /\ publisher'[p] = NoLease /\ \A q \in Publishers \ {p} : publisher'[q] = publisher[q]
      BY <1>0, <2>1
    <2>3. events' \in Seq(OutboxRow)
      BY <1>0, <2>1 DEF OutboxTypeOK
    <2> QED BY <1>r, <2>1, <2>2, <2>3, OutboxFrame
  <1> QED BY <1>1, <1>2, <1>3, <1>4, <1>5, <1>6, <1>7 DEF OutboxNext

\* What is marked published was handed on under the last lease there was,
\* whichever publishers stall beyond their leases, lose them, or die.
THEOREM LastLeasePublishes == OutboxSpec => []PublishedByLastLease
  <1>1. OutboxInit => OutboxInv
    <2> SUFFICES ASSUME OutboxInit PROVE OutboxInv
      OBVIOUS
    <2>1. events = <<>> /\ handedOn = <<>> /\ \A p \in Publishers : publisher[p] = NoLease
      BY DEF OutboxInit
    <2>2. OutboxTypeOK
      BY <2>1 DEF OutboxInit, OutboxTypeOK
    <2>3. DOMAIN events = {}
      BY <2>1
    <2> QED BY <2>1, <2>2, <2>3 DEF OutboxInv, AttemptsInOrder, PublishedByLastLease
  <1>2. OutboxInv /\ [OutboxNext]_outboxVars => OutboxInv'
    <2>1. OutboxInv /\ UNCHANGED outboxVars => OutboxInv'
      BY DEF outboxVars, OutboxInv, OutboxTypeOK, AttemptsInOrder, PublishedByLastLease
    <2> QED BY <2>1, OutboxStep
  <1>3. OutboxInv => PublishedByLastLease
    BY DEF OutboxInv
  <1> QED BY <1>1, <1>2, <1>3, PTL DEF OutboxSpec

=============================================================================
