------------------------- MODULE CampaignScanProofs -------------------------
(***************************************************************************)
(* Proofs about CampaignScan, for any rows of a bank that satisfy           *)
(* ScanAssumption, any bodies, and any number of pods and scan runs.        *)
(***************************************************************************)
EXTENDS CampaignScan, SequenceTheorems, TLAPS

\* What an index, the row t, has discovered on its page m is below its
\* prefixes, and on the host of a URL at which a fetch of m ended.
Fits(u, t, m, ends) == u \in Sources[t].details /\ \E f \in ends[m] : u \in Near[f]

Green(table, ends) ==
    \A u \in Urls, s \in DOMAIN Sources :
        Sources[s].kind = "index" /\ table[u] \in PagesOf(s) => Fits(u, s, table[u], ends)

\* Each index that refused its own targets was read under two different URLs.
Moved(pages, ends) == \A m \in pages : \E f, g \in ends[m] : Near[f] # Near[g]

\* URLs that a page was read under are not forgotten.
Grown(ends, ends2) ==
    /\ DOMAIN ends = Monitored /\ DOMAIN ends2 = Monitored
    /\ \A m \in Monitored : ends[m] \subseteq ends2[m]

Queued(s, jobs) == {u \in Urls : <<s.run, u>> \in jobs}

AtPage == {"fetching", "observing", "upserting", "recording"}

\* What a frame s keeps throughout, with the targets there are.
Sound(s, table, ends) ==
    /\ s \in Scans /\ Moved(s.broken, ends)
    /\ Green(s.targets, ends) /\ Mapped(s.targets) \subseteq Mapped(table)

\* What is enqueued already, or is still going to be for the source s is at.
Covered(s, jobs) ==
    Queued(s, jobs) \cup (IF s.phase \in AtPage THEN Mapped(s.targets)
                          ELSE IF s.phase = "enqueuing" THEN s.todo ELSE {})

\* The frame of a pod, with the targets and the jobs there are.
Frame(s, table, jobs, ends) ==
    /\ Sound(s, table, ends)
    /\ IF s.phase \in AtPage THEN s.position \in DOMAIN Sources[s.source].pages
                             ELSE s.position = 1
    /\ s.phase = "upserting" /\ Sources[s.source].kind = "index"
          => \A u \in s.todo : Fits(u, s.source, Sources[s.source].pages[s.position], ends)
    /\ s.phase = "observing" /\ s.status = "success" => s.end # Nothing
    /\ s.phase = "enqueuing" => s.todo \subseteq Mapped(table)
    /\ IF s.phase = "listing" /\ s.source = 1 THEN s.due \subseteq Mapped(table)
                                             ELSE s.due \subseteq Covered(s, jobs)
    /\ ~s.failed /\ s.phase # "recording" =>
          s.seen \subseteq Covered(s, jobs) \cup (IF s.phase = "upserting" THEN s.todo ELSE {})

IInv ==
    /\ TypeOK
    /\ Green(targets, ended)
    /\ \A p \in Pods : pod[p] # Nothing => Frame(pod[p], targets, queue, ended)
    /\ ScheduledIsMonitored
    /\ HashIsOfLatestSuccess

-----------------------------------------------------------------------------
(* The rows and the frames.                                                 *)

\* What a row of the registry is.
LEMMA Rows ==
    ASSUME NEW s \in DOMAIN Sources
    PROVE  /\ s \in Nat /\ 1 <= s /\ s <= Len(Sources) /\ Len(Sources) \in Nat
           /\ DOMAIN Sources = 1..Len(Sources)
           /\ Sources[s].kind \in Kinds /\ Sources[s].details \subseteq Urls
           /\ Len(Sources[s].pages) \in Nat
           /\ DOMAIN Sources[s].pages = 1..Len(Sources[s].pages)
           /\ PagesOf(s) \subseteq Monitored
  <1> DEFINE R == [kind : Kinds, pages : Seq(Nat), details : SUBSET Urls, max_links : Nat]
  <1>1. Sources[s] \in R
    <2>1. Sources \in Seq(R)
      BY ScanAssumption
    <2> HIDE DEF R
    <2> QED BY <2>1, LenProperties
  <1>2. Sources[s].pages \in Seq(Nat)
    BY <1>1
  <1>3. PagesOf(s) \subseteq Monitored
    BY DEF Monitored
  <1> QED BY <1>1, <1>2, <1>3, ScanAssumption

\* Nothing is known of the targets before the table is listed.
LEMMA NothingMapped ==
    /\ Unmapped \in [Urls -> Monitored \cup {Nothing}]
    /\ Mapped(Unmapped) = {} /\ \A ends : Green(Unmapped, ends)
  <1>1. \A u \in Urls : Unmapped[u] = Nothing
    BY DEF Unmapped
  <1>2. Mapped(Unmapped) = {}
    BY <1>1 DEF Mapped
  <1>3. \A s \in DOMAIN Sources : Nothing \notin PagesOf(s)
    BY Rows, ScanAssumption
  <1> QED BY <1>1, <1>2, <1>3 DEF Unmapped, Green

\* More targets and more jobs leave a frame as it is.
LEMMA FrameGrows ==
    ASSUME NEW s, NEW table, NEW jobs, NEW ends, NEW table2, NEW jobs2, NEW ends2,
           Frame(s, table, jobs, ends), Grown(ends, ends2),
           s.phase \in AtPage => Sources[s.source].pages[s.position] \in Monitored,
           Mapped(table) \subseteq Mapped(table2), jobs \subseteq jobs2
    PROVE  Frame(s, table2, jobs2, ends2)
  <1>1. Covered(s, jobs) \subseteq Covered(s, jobs2)
    BY DEF Covered, Queued
  <1>2. ASSUME NEW u, NEW t, NEW m \in Monitored, Fits(u, t, m, ends)
        PROVE  Fits(u, t, m, ends2)
    BY <1>2 DEF Fits, Grown
  <1>3. Green(s.targets, ends2)
    <2>1. \A t \in DOMAIN Sources : PagesOf(t) \subseteq Monitored
      BY Rows
    <2>2. Green(s.targets, ends)
      BY DEF Frame, Sound
    <2> QED BY <1>2, <2>1, <2>2 DEF Green
  <1>4. Moved(s.broken, ends2)
    <2>1. s.broken \subseteq Monitored /\ Moved(s.broken, ends)
      BY DEF Frame, Sound, Scans
    <2> QED BY <2>1 DEF Moved, Grown
  <1>5. Sound(s, table2, ends2)
    BY <1>3, <1>4 DEF Frame, Sound
  <1>6. s.due \subseteq Mapped(table) => s.due \subseteq Mapped(table2)
    OBVIOUS
  <1>7. s.phase = "upserting" /\ Sources[s.source].kind = "index"
          => \A u \in s.todo : Fits(u, s.source, Sources[s.source].pages[s.position], ends2)
    BY <1>2 DEF Frame, AtPage
  <1> HIDE DEF Mapped
  <1> QED BY <1>1, <1>5, <1>6, <1>7 DEF Frame

\* A source is over: everything that was due or seen is enqueued.
Over(s, table, jobs, ends) ==
    /\ Sound(s, table, ends) /\ s.position = 1
    /\ s.due \subseteq Queued(s, jobs)
    /\ ~s.failed => s.seen \subseteq Queued(s, jobs)

\* Then comes the next source, or the exit.
LEMMA NextSourceFrame ==
    ASSUME NEW s, NEW table, NEW jobs, NEW ends, Over(s, table, jobs, ends)
    PROVE  Frame(NextSource(s), table, jobs, ends)
  <1>1. s \in Scans
    BY DEF Over, Sound
  <1>2. s.source \in DOMAIN Sources
    BY <1>1 DEF Scans
  <1>3. CASE s.source < Len(Sources)
    <2> DEFINE r == [s EXCEPT !.source = @ + 1, !.phase = "listing"]
    <2>1. NextSource(s) = r
      BY <1>3 DEF NextSource
    <2>2. s.source + 1 \in DOMAIN Sources /\ s.source + 1 # 1
      BY <1>2, <1>3, Rows
    <2>3. r \in Scans
      BY <1>1, <2>2 DEF Scans, Phases
    <2>4. /\ r.phase = "listing" /\ r.source = s.source + 1
          /\ r.position = s.position /\ r.targets = s.targets /\ r.broken = s.broken
          /\ r.run = s.run /\ r.due = s.due /\ r.seen = s.seen /\ r.failed = s.failed
      BY <1>1 DEF Scans
    <2> HIDE DEF r
    <2>5. Sound(r, table, ends)
      BY <2>3, <2>4 DEF Over, Sound
    <2>6. Covered(r, jobs) = Queued(s, jobs)
      BY <2>4 DEF Covered, Queued, AtPage
    <2> QED BY <2>1, <2>2, <2>4, <2>5, <2>6 DEF Over, Frame, AtPage
  <1>4. CASE ~(s.source < Len(Sources))
    <2> DEFINE r == [s EXCEPT !.phase = "exiting"]
    <2>1. NextSource(s) = r
      BY <1>4 DEF NextSource
    <2>3. r \in Scans
      BY <1>1 DEF Scans, Phases
    <2>4. /\ r.phase = "exiting"
          /\ r.position = s.position /\ r.targets = s.targets /\ r.broken = s.broken
          /\ r.run = s.run /\ r.due = s.due /\ r.seen = s.seen /\ r.failed = s.failed
      BY <1>1 DEF Scans
    <2> HIDE DEF r
    <2>5. Sound(r, table, ends)
      BY <2>3, <2>4 DEF Over, Sound
    <2>6. Covered(r, jobs) = Queued(s, jobs)
      BY <2>4 DEF Covered, Queued, AtPage
    <2> QED BY <2>1, <2>4, <2>5, <2>6 DEF Over, Frame, AtPage
  <1> QED BY <1>3, <1>4

\* The pages of a source are done: what was due or seen is enqueued already
\* or among the targets the pod knows.
Gathered(s, table, jobs, ends) ==
    /\ Sound(s, table, ends)
    /\ s.due \subseteq Queued(s, jobs) \cup Mapped(s.targets)
    /\ ~s.failed => s.seen \subseteq Queued(s, jobs) \cup Mapped(s.targets)

\* Then what is known is enqueued.
LEMMA EnqueueFrame ==
    ASSUME NEW s, NEW table, NEW jobs, NEW ends, Gathered(s, table, jobs, ends)
    PROVE  Frame(EnqueueTargets(s), table, jobs, ends)
  <1> DEFINE t == [s EXCEPT !.position = 1, !.targets = Unmapped]
             r == [t EXCEPT !.phase = "enqueuing", !.todo = Mapped(s.targets)]
  <1>1. s \in Scans
    BY DEF Gathered, Sound
  <1>2. t \in Scans
    <2>1. ASSUME NEW f \in [Urls -> Monitored \cup {Nothing}], NEW n \in Nat \ {0}
          PROVE  [s EXCEPT !.position = n, !.targets = f] \in Scans
      BY <1>1 DEF Scans
    <2>2. Unmapped \in [Urls -> Monitored \cup {Nothing}]
      BY NothingMapped
    <2>3. 1 \in Nat \ {0}
      OBVIOUS
    <2> QED BY <2>1, <2>2, <2>3, Zenon
  <1>3. /\ t.phase = s.phase /\ t.source = s.source /\ t.position = 1
        /\ t.targets = Unmapped /\ t.broken = s.broken
        /\ t.run = s.run /\ t.due = s.due /\ t.seen = s.seen /\ t.failed = s.failed
    BY <1>1 DEF Scans
  <1> HIDE DEF t
  <1>4. Sound(t, table, ends)
    BY <1>2, <1>3, NothingMapped DEF Gathered, Sound
  <1>5. Queued(t, jobs) = Queued(s, jobs)
    BY <1>3 DEF Queued
  <1>6. CASE Mapped(s.targets) = {}
    <2>1. Over(t, table, jobs, ends)
      BY <1>3, <1>4, <1>5, <1>6 DEF Gathered, Over
    <2>2. EnqueueTargets(s) = NextSource(t)
      BY <1>6 DEF EnqueueTargets, t
    <2> QED BY <2>1, <2>2, NextSourceFrame
  <1>7. CASE Mapped(s.targets) # {}
    <2>1. EnqueueTargets(s) = r
      BY <1>7 DEF EnqueueTargets, t
    <2>2. Mapped(s.targets) \in SUBSET Urls
      BY DEF Mapped
    <2>3. r \in Scans
      BY <1>2, <2>2 DEF Scans, Phases
    <2>4. /\ r.phase = "enqueuing" /\ r.source = t.source /\ r.todo = Mapped(s.targets)
          /\ r.position = t.position /\ r.targets = t.targets /\ r.broken = t.broken
          /\ r.run = t.run /\ r.due = t.due /\ r.seen = t.seen /\ r.failed = t.failed
      BY <1>2 DEF Scans
    <2> HIDE DEF r
    <2>5. Sound(r, table, ends)
      BY <1>4, <2>3, <2>4 DEF Sound
    <2>6. Covered(r, jobs) = Queued(s, jobs) \cup Mapped(s.targets)
      BY <1>5, <2>4 DEF Covered, Queued, AtPage
    <2>7. Mapped(s.targets) \subseteq Mapped(table)
      BY DEF Gathered, Sound
    <2> QED BY <1>3, <2>1, <2>4, <2>5, <2>6, <2>7 DEF Gathered, Frame, AtPage
  <1> QED BY <1>6, <1>7

\* After a page comes the next one, or what is known is enqueued.
LEMMA NextPageFrame ==
    ASSUME NEW s, NEW table, NEW jobs, NEW ends, Gathered(s, table, jobs, ends),
           s.position \in DOMAIN Sources[s.source].pages
    PROVE  Frame(NextPage(s), table, jobs, ends)
  <1>1. s \in Scans
    BY DEF Gathered, Sound
  <1>2. s.source \in DOMAIN Sources
    BY <1>1 DEF Scans
  <1>3. CASE s.position < Len(Sources[s.source].pages)
    <2> DEFINE r == [s EXCEPT !.phase = "fetching", !.position = @ + 1]
    <2>1. NextPage(s) = r
      BY <1>3 DEF NextPage
    <2>2. s.position + 1 \in DOMAIN Sources[s.source].pages
      BY <1>2, <1>3, Rows
    <2>3. s.position + 1 \in Nat \ {0}
      BY <1>2, <2>2, Rows
    <2>4. r \in Scans
      BY <1>1, <2>3 DEF Scans, Phases
    <2>5. /\ r.phase = "fetching" /\ r.source = s.source
          /\ r.position = s.position + 1 /\ r.targets = s.targets /\ r.broken = s.broken
          /\ r.run = s.run /\ r.due = s.due /\ r.seen = s.seen /\ r.failed = s.failed
      BY <1>1 DEF Scans
    <2> HIDE DEF r
    <2>6. Sound(r, table, ends)
      BY <2>4, <2>5 DEF Gathered, Sound
    <2>7. Covered(r, jobs) = Queued(s, jobs) \cup Mapped(s.targets)
      BY <2>5 DEF Covered, Queued, AtPage
    <2> QED BY <2>1, <2>2, <2>5, <2>6, <2>7 DEF Gathered, Frame, AtPage
  <1>4. CASE ~(s.position < Len(Sources[s.source].pages))
    BY <1>4, EnqueueFrame DEF NextPage
  <1> QED BY <1>3, <1>4

\* A frame at a page is gathered once nothing of the page is left to do.
LEMMA FrameGathered ==
    ASSUME NEW s, NEW table, NEW jobs, NEW ends, Frame(s, table, jobs, ends), s.phase \in AtPage,
           s.phase = "recording" => s.failed,
           s.phase = "upserting" => s.todo = {}
    PROVE  Gathered(s, table, jobs, ends)
  <1>1. Covered(s, jobs) = Queued(s, jobs) \cup Mapped(s.targets)
    BY DEF Covered
  <1>2. s.phase # "listing"
    BY DEF AtPage
  <1> QED BY <1>1, <1>2 DEF Frame, Gathered

-----------------------------------------------------------------------------
(* The steps of a pod.                                                      *)

\* Init establishes the invariant.
LEMMA InitIInv == Init => IInv
  <1> SUFFICES ASSUME Init PROVE IInv
    OBVIOUS
  <1>1. TypeOK
    BY NothingMapped, ScanAssumption DEF Init, TypeOK
  <1>2. Green(targets, ended)
    BY NothingMapped DEF Init
  <1>3. \A p \in Pods : pod[p] = Nothing
    BY DEF Init
  <1>4. ScheduledIsMonitored /\ HashIsOfLatestSuccess
    BY DEF Init, ScheduledIsMonitored, HashIsOfLatestSuccess
  <1> QED BY <1>1, <1>2, <1>3, <1>4 DEF IInv

\* The frame of a pod that is not dead.
LEMMA FrameOf ==
    ASSUME IInv, NEW p \in Pods, pod[p] # Nothing
    PROVE  /\ Frame(pod[p], targets, queue, ended) /\ Sound(pod[p], targets, ended)
           /\ pod[p] \in Scans /\ pod[p].source \in DOMAIN Sources
           /\ pod[p].phase \in AtPage => PageOf(p) \in PagesOf(pod[p].source) /\ PageOf(p) \in Monitored
  <1>1. Frame(pod[p], targets, queue, ended) /\ Sound(pod[p], targets, ended) /\ pod[p] \in Scans
    BY DEF IInv, Frame, Sound
  <1>2. pod[p].source \in DOMAIN Sources
    BY <1>1 DEF Scans
  <1>3. ASSUME pod[p].phase \in AtPage
        PROVE  PageOf(p) \in PagesOf(pod[p].source) /\ PageOf(p) \in Monitored
    <2>1. pod[p].position \in DOMAIN Sources[pod[p].source].pages
      BY <1>1, <1>3 DEF Frame
    <2>2. PageOf(p) \in PagesOf(pod[p].source)
      BY <2>1 DEF PageOf, Row, PagesOf
    <2> QED BY <1>2, <2>2, Rows
  <1> QED BY <1>1, <1>2, <1>3

\* A step of one pod, to a frame r or to its end, that takes no target and no
\* job away.
LEMMA PodStepIInv ==
    ASSUME IInv, NEW p \in Pods, NEW r,
           pod' = [pod EXCEPT ![p] = r],
           r # Nothing => Frame(r, targets', queue', ended'),
           Mapped(targets) \subseteq Mapped(targets'), queue \subseteq queue',
           ended' \in [Monitored -> SUBSET FinalUrls], Grown(ended, ended'),
           pods' \in 0..MaxPods,
           targets' \in [Urls -> Monitored \cup {Nothing}], Green(targets', ended'),
           observed' \in [Monitored -> Contents \cup {Nothing}], latest' = observed',
           queue' \subseteq ScanRuns \X Urls, unasked' \subseteq Monitored,
           ScheduledIsMonitored'
    PROVE  IInv'
  <1>1. pod \in [Pods -> Scans \cup {Nothing}]
    BY DEF IInv, TypeOK
  <1>2. r \in Scans \cup {Nothing}
    BY DEF Frame, Sound
  <1>3. pod' \in [Pods -> Scans \cup {Nothing}]
    BY <1>1, <1>2
  <1>4. TypeOK'
    BY <1>3 DEF TypeOK
  <1>5. ASSUME NEW q \in Pods, pod'[q] # Nothing
        PROVE  Frame(pod'[q], targets', queue', ended')
    <2>1. CASE q = p
      BY <1>1, <1>5, <2>1
    <2>2. CASE q # p
      <3>1. pod'[q] = pod[q]
        BY <1>1, <2>2
      <3>2. Frame(pod[q], targets, queue, ended)
        BY <1>5, <3>1 DEF IInv
      <3>3. pod[q].phase \in AtPage =>
                Sources[pod[q].source].pages[pod[q].position] \in Monitored
        BY <1>5, <3>1, FrameOf DEF PageOf, Row
      <3> HIDE DEF Mapped, Frame
      <3> QED BY <3>1, <3>2, <3>3, FrameGrows
    <2> QED BY <2>1, <2>2
  <1>6. HashIsOfLatestSuccess'
    BY DEF HashIsOfLatestSuccess
  <1>7. Green(targets, ended)'
    BY DEF Green, Fits, PagesOf
  <1>8. (\A q \in Pods : pod[q] # Nothing => Frame(pod[q], targets, queue, ended))'
    BY <1>5 DEF Frame, Sound, Green, Fits, Moved, Mapped, Covered, Queued, Scans, PagesOf
  <1> QED BY <1>4, <1>6, <1>7, <1>8 DEF IInv

\* A step that changes nothing but the frame of the pod.
LEMMA LocalStepIInv ==
    ASSUME IInv, NEW p \in Pods, NEW r,
           pod' = [pod EXCEPT ![p] = r],
           r # Nothing => Frame(r, targets, queue, ended),
           UNCHANGED <<targets, observed, queue, latest, ended>>,
           pods' \in 0..MaxPods, unasked' \subseteq Monitored
    PROVE  IInv'
  <1>1. /\ targets' \in [Urls -> Monitored \cup {Nothing}]
        /\ observed' \in [Monitored -> Contents \cup {Nothing}]
        /\ queue' \subseteq ScanRuns \X Urls /\ latest' = observed'
        /\ ended' \in [Monitored -> SUBSET FinalUrls] /\ Grown(ended, ended')
    BY DEF IInv, TypeOK, HashIsOfLatestSuccess, Grown
  <1>2. Green(targets', ended')
    BY DEF IInv
  <1>3. ScheduledIsMonitored'
    BY DEF IInv, ScheduledIsMonitored
  <1>4. r # Nothing => Frame(r, targets', queue', ended')
    OBVIOUS
  <1> HIDE DEF IInv, Frame
  <1>5. Mapped(targets) \subseteq Mapped(targets') /\ queue \subseteq queue'
    OBVIOUS
  <1> QED BY <1>1, <1>2, <1>3, <1>4, <1>5, PodStepIInv

\* A pod begins with the first source.
LEMMA StartPodIInv ==
    ASSUME IInv, NEW p \in Pods, NEW run \in ScanRuns, StartPod(p, run)
    PROVE  IInv'
  <1> DEFINE r == [run |-> run, phase |-> "listing", source |-> 1, position |-> 1,
                   targets |-> Unmapped, status |-> "success",
                   content |-> Nothing, end |-> Nothing, todo |-> {}, broken |-> {}, failed |-> FALSE,
                   review |-> {}, due |-> Mapped(targets), seen |-> {}]
  <1>1. pod' = [pod EXCEPT ![p] = r] /\ UNCHANGED <<targets, observed, queue, latest, ended>>
        /\ pods' \in 0..MaxPods /\ unasked' \subseteq Monitored
    BY ScanAssumption DEF StartPod, IInv, TypeOK
  <1>2. r \in Scans
    <2>1. Unmapped \in [Urls -> Monitored \cup {Nothing}]
      BY NothingMapped
    <2>2. 1 \in DOMAIN Sources
      BY ScanAssumption
    <2>3. Mapped(targets) \in SUBSET Urls
      BY DEF Mapped
    <2> HIDE DEF Mapped, Unmapped
    <2> QED BY <2>1, <2>2, <2>3 DEF Scans, Phases, ScanStatuses
  <1>3. /\ r.phase = "listing" /\ r.source = 1 /\ r.position = 1 /\ r.targets = Unmapped
        /\ r.broken = {} /\ r.due = Mapped(targets) /\ r.seen = {}
    OBVIOUS
  <1> HIDE DEF r
  <1>4. Frame(r, targets, queue, ended)
    BY <1>2, <1>3, NothingMapped DEF Frame, Sound, Moved, AtPage
  <1> QED BY <1>1, <1>4, LocalStepIInv

\* A pod is killed.
LEMMA PodDiesIInv ==
    ASSUME IInv, NEW p \in Pods, PodDies(p)
    PROVE  IInv'
  <1>1. pod' = [pod EXCEPT ![p] = Nothing] /\ UNCHANGED <<targets, observed, queue, latest, ended>>
        /\ pods' \in 0..MaxPods /\ unasked' \subseteq Monitored
    BY DEF PodDies, IInv, TypeOK
  <1> QED BY <1>1, LocalStepIInv

\* The pod reads the table, in which every target that was due still is.
LEMMA ListIInv ==
    ASSUME IInv, NEW p \in Pods, List(p)
    PROVE  IInv'
  <1> DEFINE s == [pod[p] EXCEPT !.targets = targets]
             f == [s EXCEPT !.phase = "fetching"]
             r == IF Row(p).kind = "unavailable" THEN EnqueueTargets(s) ELSE f
  <1>1. pod' = [pod EXCEPT ![p] = r] /\ UNCHANGED <<targets, observed, queue, latest, ended>>
        /\ pods' \in 0..MaxPods /\ unasked' \subseteq Monitored
    BY DEF List, IInv, TypeOK
  <1>2. /\ pod[p] # Nothing /\ pod[p].phase = "listing"
        /\ Frame(pod[p], targets, queue, ended) /\ Sound(pod[p], targets, ended)
        /\ pod[p] \in Scans /\ pod[p].source \in DOMAIN Sources
    BY FrameOf DEF List, In
  <1>3. targets \in [Urls -> Monitored \cup {Nothing}] /\ Green(targets, ended)
    BY DEF IInv, TypeOK
  <1>4. s \in Scans
    BY <1>2, <1>3 DEF Scans
  <1>5. /\ s.phase = "listing" /\ s.source = pod[p].source /\ s.position = pod[p].position
        /\ s.targets = targets /\ s.broken = pod[p].broken /\ s.run = pod[p].run
        /\ s.due = pod[p].due /\ s.seen = pod[p].seen /\ s.failed = pod[p].failed
    BY <1>2 DEF Scans
  <1> HIDE DEF s
  <1>6. Covered(pod[p], queue) = Queued(s, queue)
    BY <1>2, <1>5 DEF Covered, Queued, AtPage
  <1>7. Gathered(s, targets, queue, ended)
    BY <1>2, <1>3, <1>4, <1>5, <1>6 DEF Gathered, Frame, Sound
  <1>8. Frame(r, targets, queue, ended)
    <2>1. CASE Row(p).kind = "unavailable"
      BY <1>7, <2>1, EnqueueFrame
    <2>2. CASE Row(p).kind # "unavailable"
      <3>1. f \in Scans
        BY <1>4 DEF Scans, Phases
      <3>2. /\ f.phase = "fetching" /\ f.source = s.source /\ f.position = s.position
            /\ f.targets = s.targets /\ f.broken = s.broken /\ f.run = s.run
            /\ f.due = s.due /\ f.seen = s.seen /\ f.failed = s.failed
        BY <1>4 DEF Scans
      <3> HIDE DEF f
      <3>3. pod[p].position = 1
        BY <1>2 DEF Frame, AtPage
      <3>4. 1 \in DOMAIN Sources[pod[p].source].pages
        BY <1>2, <2>2, Rows, ScanAssumption DEF Row
      <3>5. Covered(f, queue) = Queued(s, queue) \cup Mapped(s.targets)
        BY <3>2 DEF Covered, Queued, AtPage
      <3>6. Sound(f, targets, ended)
        BY <1>7, <3>1, <3>2 DEF Gathered, Sound
      <3> QED BY <1>5, <1>7, <2>2, <3>2, <3>3, <3>4, <3>5, <3>6 DEF Gathered, Frame, AtPage
    <2> QED BY <2>1, <2>2
  <1> HIDE DEF r
  <1> QED BY <1>1, <1>8, LocalStepIInv

\* A page is fetched.
LEMMA FetchIInv ==
    ASSUME IInv, NEW p \in Pods, NEW status \in ScanStatuses, NEW body \in Contents,
           NEW end \in FinalUrls, Fetch(p, status, body, end)
    PROVE  IInv'
  <1> DEFINE content == IF status = "success" THEN body ELSE Nothing
             last == IF status = "success" THEN end ELSE Nothing
             r == [pod[p] EXCEPT !.phase = "observing", !.status = status, !.content = content,
                                 !.end = last]
  <1>1. pod' = [pod EXCEPT ![p] = r] /\ UNCHANGED <<targets, observed, queue, latest, ended>>
        /\ pods' \in 0..MaxPods /\ unasked' \subseteq Monitored
    BY DEF Fetch, IInv, TypeOK
  <1>2. /\ pod[p] # Nothing /\ pod[p].phase = "fetching"
        /\ Frame(pod[p], targets, queue, ended) /\ Sound(pod[p], targets, ended) /\ pod[p] \in Scans
    BY FrameOf DEF Fetch, In
  <1>3. content \in Contents \cup {Nothing} /\ last \in FinalUrls \cup {Nothing}
        /\ (status = "success" => last # Nothing)
    BY ScanAssumption
  <1> HIDE DEF content, last
  <1>4. r \in Scans
    BY <1>2, <1>3 DEF Scans, Phases
  <1>5. /\ r.phase = "observing" /\ r.source = pod[p].source /\ r.position = pod[p].position
        /\ r.targets = pod[p].targets /\ r.broken = pod[p].broken /\ r.run = pod[p].run
        /\ r.due = pod[p].due /\ r.seen = pod[p].seen /\ r.failed = pod[p].failed
        /\ r.status = status /\ r.end = last
    BY <1>2 DEF Scans
  <1> HIDE DEF r
  <1>6. Covered(pod[p], queue) = Covered(r, queue)
    BY <1>2, <1>5 DEF Covered, Queued, AtPage
  <1>7. Frame(r, targets, queue, ended)
    BY <1>2, <1>3, <1>4, <1>5, <1>6 DEF Frame, Sound, AtPage
  <1> QED BY <1>1, <1>7, LocalStepIInv

\* The pages of two rows, one of which is an index, are different.
LEMMA PageOfIndex ==
    ASSUME NEW s \in DOMAIN Sources, NEW t \in DOMAIN Sources,
           Sources[t].kind = "index", NEW m \in PagesOf(s), m \in PagesOf(t)
    PROVE  s = t
  BY ScanAssumption

\* What a page yields are URLs, those of an index below its prefixes.
LEMMA YieldedUrls ==
    ASSUME IInv, NEW p \in Pods, pod[p] # Nothing, pod[p].phase \in AtPage
    PROVE  /\ Yield(p) \subseteq Urls
           /\ Row(p).kind = "index" => Yield(p) \subseteq DetailPages(p)
           /\ Yield(p) # {} => pod[p].status = "success"
  <1> DEFINE source == pod[p].source
             found == Smallest(pod[p].content \cap DetailPages(p), Row(p).max_links)
  <1>1. /\ source \in DOMAIN Sources /\ PageOf(p) \in PagesOf(source) /\ Row(p) = Sources[source]
    BY FrameOf DEF Row
  <1>2. Row(p).details \subseteq Urls
    BY <1>1, Rows
  <1>3. found \subseteq DetailPages(p) /\ DetailPages(p) \subseteq Row(p).details
    BY DEF Smallest, DetailPages
  <1>4. Row(p).kind = "static" => {PageOf(p)} \subseteq Urls
    BY <1>1, ScanAssumption
  <1> HIDE DEF found
  <1>5. \/ Yield(p) = {}
        \/ pod[p].status = "success" /\ Row(p).kind = "static" /\ Yield(p) = {PageOf(p)}
        \/ pod[p].status = "success" /\ Yield(p) = found
    BY DEF Yield, found
  <1>6. CASE Yield(p) = {}
    BY <1>6
  <1>7. CASE pod[p].status = "success" /\ Row(p).kind = "static" /\ Yield(p) = {PageOf(p)}
    BY <1>4, <1>7
  <1>8. CASE pod[p].status = "success" /\ Yield(p) = found
    BY <1>2, <1>3, <1>8
  <1> QED BY <1>5, <1>6, <1>7, <1>8

\* An index refuses its page only where its fetch ended near other URLs than
\* an earlier one: what it has discovered is below its prefixes.
LEMMA RefusedIsMoved ==
    ASSUME IInv, NEW p \in Pods, pod[p] # Nothing, pod[p].phase \in AtPage, ~KnownAccepted(p)
    PROVE  \E f \in ended[PageOf(p)] : Near[f] # Near[pod[p].end]
  <1>1. /\ pod[p].source \in DOMAIN Sources /\ PageOf(p) \in PagesOf(pod[p].source)
        /\ Green(pod[p].targets, ended)
    BY FrameOf DEF Sound
  <1>2. PICK u \in Urls : pod[p].targets[u] = PageOf(p) /\ u \notin DetailPages(p)
    BY DEF KnownAccepted, IndexKnown
  <1>3. Fits(u, pod[p].source, PageOf(p), ended)
    BY <1>1, <1>2 DEF KnownAccepted, Green, Row
  <1> QED BY <1>2, <1>3 DEF Fits, DetailPages, Row

\* The page is observed: its hash is stored, and its targets are gone through.
LEMMA ObserveIInv ==
    ASSUME IInv, NEW p \in Pods, Observe(p)
    PROVE  IInv'
  <1> DEFINE m == PageOf(p)
             s == pod[p]
             review == IF Row(p).kind = "collection"
                          /\ IndexChanged(observed[m], s.status, s.content)
                       THEN {m} ELSE {}
             t == [s EXCEPT !.status = "success", !.content = Nothing, !.end = Nothing,
                            !.review = @ \cup review, !.failed = @ \/ (s.status = "failed")]
             refused == s.status = "success" /\ ~KnownAccepted(p)
             v == [t EXCEPT !.phase = "recording", !.broken = @ \cup {m}]
             u == [t EXCEPT !.phase = "upserting", !.todo = Yield(p), !.seen = @ \cup Yield(p)]
             r == IF refused THEN v ELSE IF Yield(p) = {} THEN NextPage(t) ELSE u
  <1>1. /\ s # Nothing /\ s.phase = "observing"
        /\ Frame(s, targets, queue, ended) /\ Sound(s, targets, ended) /\ s \in Scans
        /\ s.source \in DOMAIN Sources /\ m \in Monitored
        /\ m = Sources[s.source].pages[s.position]
    BY FrameOf DEF Observe, In, AtPage, PageOf, Row
  <1>2. pod' = [pod EXCEPT ![p] = r]
    BY DEF Observe
  <1>3. /\ UNCHANGED <<pods, targets, queue>>
        /\ observed' = [observed EXCEPT ![m] =
                           RecordObservation(observed[m], s.status, s.content)]
        /\ latest' = IF s.status = "success" THEN [latest EXCEPT ![m] = s.content] ELSE latest
        /\ ended' = IF s.status = "success" THEN [ended EXCEPT ![m] = @ \cup {s.end}] ELSE ended
        /\ unasked' = unasked \cup review
    BY DEF Observe
  <1>4. /\ review \subseteq Monitored /\ Yield(p) \subseteq Urls
        /\ (Sources[s.source].kind = "index" => Yield(p) \subseteq DetailPages(p))
        /\ Yield(p) # {} => s.status = "success"
    BY <1>1, YieldedUrls DEF AtPage, Row
  <1>5. /\ observed' \in [Monitored -> Contents \cup {Nothing}] /\ latest' = observed'
    <2>1. observed \in [Monitored -> Contents \cup {Nothing}] /\ latest = observed
      BY DEF IInv, TypeOK, HashIsOfLatestSuccess
    <2>2. s.content \in Contents \cup {Nothing}
      BY <1>1 DEF Scans
    <2> HIDE DEF m, s, review, r
    <2> QED BY <1>1, <1>3, <2>1, <2>2 DEF RecordObservation
  <1>6. /\ ended' \in [Monitored -> SUBSET FinalUrls] /\ Grown(ended, ended')
        /\ s.status = "success" => s.end \in ended'[m] /\ ended[m] \subseteq ended'[m]
    <2>1. ended \in [Monitored -> SUBSET FinalUrls]
      BY DEF IInv, TypeOK
    <2>2. s.status = "success" => s.end \in FinalUrls
      BY <1>1 DEF Scans, Frame
    <2> HIDE DEF m, s, review, r
    <2> QED BY <1>1, <1>3, <2>1, <2>2 DEF Grown
  <1>7. Sound(s, targets, ended')
    <2>1. Frame(s, targets, queue, ended')
      BY <1>1, <1>6, FrameGrows
    <2> QED BY <2>1 DEF Frame
  <1>8. refused => \E f, g \in ended'[m] : Near[f] # Near[g]
    BY <1>1, <1>6, RefusedIsMoved DEF AtPage
  <1>9. Sources[s.source].kind = "index" => \A w \in Yield(p) : Fits(w, s.source, m, ended')
    BY <1>4, <1>6 DEF Fits, DetailPages, Row
  <1> HIDE DEF review, m, refused
  <1>10. t \in Scans
    <2>1. s.review \cup review \in SUBSET Monitored
      BY <1>1, <1>4 DEF Scans
    <2>2. (s.failed \/ (s.status = "failed")) \in BOOLEAN
      OBVIOUS
    <2> QED BY <1>1, <2>1, <2>2 DEF Scans, ScanStatuses
  <1>11. /\ t.phase = "observing" /\ t.source = s.source /\ t.position = s.position
         /\ t.targets = s.targets /\ t.broken = s.broken /\ t.run = s.run
         /\ t.due = s.due /\ t.seen = s.seen /\ (~t.failed => ~s.failed)
    BY <1>1 DEF Scans
  <1> HIDE DEF t
  <1>12. Covered(s, queue) = Queued(t, queue) \cup Mapped(t.targets)
    BY <1>1, <1>11 DEF Covered, Queued, AtPage
  <1>13. Gathered(t, targets, queue, ended')
    BY <1>1, <1>7, <1>10, <1>11, <1>12 DEF Gathered, Frame, Sound, AtPage
  <1>14. t.position \in DOMAIN Sources[t.source].pages
    BY <1>1, <1>11 DEF Frame, AtPage
  <1>15. Frame(r, targets, queue, ended')
    <2>1. CASE refused
      <3>1. v \in Scans
        BY <1>1, <1>10 DEF Scans, Phases
      <3>2. /\ v.phase = "recording" /\ v.source = t.source /\ v.position = t.position
            /\ v.targets = t.targets /\ v.broken = t.broken \cup {m} /\ v.run = t.run
            /\ v.due = t.due
        BY <1>10 DEF Scans
      <3> HIDE DEF v
      <3>3. Moved(v.broken, ended')
        BY <1>7, <1>8, <1>11, <2>1, <3>2 DEF Sound, Moved
      <3>4. Sound(v, targets, ended')
        BY <1>13, <3>1, <3>2, <3>3 DEF Gathered, Sound
      <3>5. Covered(v, queue) = Queued(t, queue) \cup Mapped(t.targets)
        BY <3>2 DEF Covered, Queued, AtPage
      <3>6. Frame(v, targets, queue, ended')
        BY <1>13, <1>14, <3>2, <3>4, <3>5 DEF Gathered, Frame, AtPage
      <3> QED BY <2>1, <3>6
    <2>2. CASE ~refused /\ Yield(p) = {}
      BY <1>13, <1>14, <2>2, NextPageFrame
    <2>3. CASE ~refused /\ Yield(p) # {}
      <3> DEFINE Y == Yield(p)
      <3>1. Y \in SUBSET Urls
        BY <1>4
      <3> HIDE DEF Y
      <3>2. u \in Scans
        BY <1>10, <3>1 DEF Scans, Phases, Y
      <3>3. /\ u.phase = "upserting" /\ u.source = t.source /\ u.position = t.position
            /\ u.targets = t.targets /\ u.broken = t.broken /\ u.run = t.run
            /\ u.due = t.due /\ u.seen = t.seen \cup Y /\ u.failed = t.failed /\ u.todo = Y
        BY <1>10 DEF Scans, Y
      <3> HIDE DEF u
      <3>4. Sound(u, targets, ended')
        BY <1>13, <3>2, <3>3 DEF Gathered, Sound
      <3>5. Covered(u, queue) = Queued(t, queue) \cup Mapped(t.targets)
        BY <3>3 DEF Covered, Queued, AtPage
      <3>6. Sources[u.source].kind = "index" =>
                \A w \in u.todo : Fits(w, u.source, Sources[u.source].pages[u.position], ended')
        BY <1>1, <1>9, <1>11, <3>3 DEF Y
      <3>7. Frame(u, targets, queue, ended')
        BY <1>11, <1>13, <1>14, <3>3, <3>4, <3>5, <3>6 DEF Gathered, Frame, AtPage
      <3> QED BY <2>3, <3>7
    <2> QED BY <2>1, <2>2, <2>3
  <1> HIDE DEF r, s
  <1>16. /\ pods' \in 0..MaxPods /\ unasked' \subseteq Monitored
         /\ targets' \in [Urls -> Monitored \cup {Nothing}] /\ queue' \subseteq ScanRuns \X Urls
    BY <1>3, <1>4 DEF IInv, TypeOK
  <1>17. Green(targets', ended')
    <2>1. \A x \in DOMAIN Sources : PagesOf(x) \subseteq Monitored
      BY Rows
    <2>2. Green(targets, ended)
      BY DEF IInv
    <2> QED BY <1>3, <1>6, <2>1, <2>2 DEF Green, Fits, Grown
  <1>18. Mapped(targets) \subseteq Mapped(targets') /\ queue \subseteq queue'
    BY <1>3
  <1>19. ScheduledIsMonitored'
    BY <1>3 DEF IInv, ScheduledIsMonitored
  <1>20. Frame(r, targets', queue', ended')
    BY <1>3, <1>15
  <1> HIDE DEF IInv, Frame, Mapped
  <1> QED BY <1>2, <1>5, <1>6, <1>16, <1>17, <1>18, <1>19, <1>20, PodStepIInv

\* A table in which one more URL belongs to the page a pod is at.
LEMMA GreenGrows ==
    ASSUME NEW table \in [Urls -> Monitored \cup {Nothing}], NEW ends, Green(table, ends),
           NEW u \in Urls, NEW s \in DOMAIN Sources, NEW m \in PagesOf(s),
           Sources[s].kind = "index" => Fits(u, s, m, ends),
           NEW table2, table2 = [table EXCEPT ![u] = m]
    PROVE  /\ table2 \in [Urls -> Monitored \cup {Nothing}] /\ Green(table2, ends)
           /\ Mapped(table2) = Mapped(table) \cup {u}
  <1>1. m \in Monitored /\ m # Nothing
    BY Rows, ScanAssumption
  <1>2. Mapped(table2) = Mapped(table) \cup {u}
    BY <1>1 DEF Mapped
  <1>3. ASSUME NEW v \in Urls, NEW t \in DOMAIN Sources,
               Sources[t].kind = "index", table2[v] \in PagesOf(t)
        PROVE  Fits(v, t, table2[v], ends)
    <2>1. CASE v = u
      <3>1. m \in PagesOf(t)
        BY <1>3, <2>1
      <3> QED BY <1>3, <2>1, <3>1, PageOfIndex
    <2>2. CASE v # u
      BY <1>3, <2>2 DEF Green
    <2> QED BY <2>1, <2>2
  <1> QED BY <1>1, <1>2, <1>3 DEF Green

\* A target of the page is made durable.
LEMMA UpsertSeenIInv ==
    ASSUME IInv, NEW p \in Pods, NEW u \in Urls, UpsertSeen(p, u)
    PROVE  IInv'
  <1> DEFINE m == PageOf(p)
             s == [pod[p] EXCEPT !.targets[u] = m, !.todo = @ \ {u}]
             r == IF s.todo = {} THEN NextPage(s) ELSE s
  <1>1. /\ pod' = [pod EXCEPT ![p] = r] /\ targets' = [targets EXCEPT ![u] = m]
        /\ UNCHANGED <<pods, observed, queue, latest, ended, unasked>>
    BY DEF UpsertSeen
  <1>2. /\ pod[p] # Nothing /\ pod[p].phase = "upserting" /\ u \in pod[p].todo
        /\ Frame(pod[p], targets, queue, ended) /\ Sound(pod[p], targets, ended)
        /\ pod[p] \in Scans /\ pod[p].source \in DOMAIN Sources
        /\ m \in PagesOf(pod[p].source)
    BY FrameOf DEF UpsertSeen, In, First, AtPage
  <1>3. /\ targets \in [Urls -> Monitored \cup {Nothing}] /\ Green(targets, ended)
        /\ pod[p].targets \in [Urls -> Monitored \cup {Nothing}] /\ Green(pod[p].targets, ended)
        /\ Mapped(pod[p].targets) \subseteq Mapped(targets)
    BY <1>2 DEF IInv, TypeOK, Scans, Sound
  <1>4. Sources[pod[p].source].kind = "index" => Fits(u, pod[p].source, m, ended)
    BY <1>2 DEF Frame, PageOf, Row
  <1> HIDE DEF m
  <1> DEFINE t == pod[p].source
  <1>x. t \in DOMAIN Sources /\ m \in PagesOf(t)
        /\ (Sources[t].kind = "index" => Fits(u, t, m, ended))
    BY <1>2, <1>4
  <1> HIDE DEF t
  <1>5. /\ targets' \in [Urls -> Monitored \cup {Nothing}] /\ Green(targets', ended)
        /\ Mapped(targets') = Mapped(targets) \cup {u}
    <2> DEFINE table == targets
               table2 == targets'
    <2>1. table2 = [table EXCEPT ![u] = m]
      BY <1>1
    <2>2. table \in [Urls -> Monitored \cup {Nothing}] /\ Green(table, ended)
      BY <1>3
    <2> HIDE DEF table, table2, s, r
    <2>3. /\ table2 \in [Urls -> Monitored \cup {Nothing}] /\ Green(table2, ended)
          /\ Mapped(table2) = Mapped(table) \cup {u}
      BY <1>x, <2>1, <2>2, GreenGrows
    <2> QED BY <2>3 DEF table, table2
  <1> DEFINE known == [pod[p].targets EXCEPT ![u] = m]
  <1>6. /\ known \in [Urls -> Monitored \cup {Nothing}] /\ Green(known, ended)
        /\ Mapped(known) = Mapped(pod[p].targets) \cup {u}
    <2> DEFINE table == pod[p].targets
    <2>1. known = [table EXCEPT ![u] = m]
      OBVIOUS
    <2>2. table \in [Urls -> Monitored \cup {Nothing}] /\ Green(table, ended)
      BY <1>3
    <2> HIDE DEF table, known
    <2>3. /\ known \in [Urls -> Monitored \cup {Nothing}] /\ Green(known, ended)
          /\ Mapped(known) = Mapped(table) \cup {u}
      BY <1>x, <2>1, <2>2, GreenGrows
    <2> QED BY <2>3 DEF table
  <1>7. s = [pod[p] EXCEPT !.targets = known, !.todo = @ \ {u}]
    BY <1>2 DEF Scans
  <1> HIDE DEF known, s
  <1>8. s \in Scans
    BY <1>2, <1>6, <1>7 DEF Scans
  <1>9. /\ s.phase = "upserting" /\ s.source = pod[p].source /\ s.position = pod[p].position
        /\ s.targets = known /\ s.broken = pod[p].broken /\ s.run = pod[p].run
        /\ s.due = pod[p].due /\ s.seen = pod[p].seen /\ s.failed = pod[p].failed
        /\ s.todo = pod[p].todo \ {u}
    BY <1>2, <1>7 DEF Scans
  <1>10. Sound(s, targets', ended)
    BY <1>2, <1>3, <1>5, <1>6, <1>8, <1>9 DEF Sound
  <1>11. Covered(s, queue) = Covered(pod[p], queue) \cup {u}
    BY <1>2, <1>6, <1>9 DEF Covered, Queued, AtPage
  <1>12. Frame(s, targets', queue, ended)
    <2>1. Sources[s.source].kind = "index" =>
              \A w \in s.todo : Fits(w, s.source, Sources[s.source].pages[s.position], ended)
      BY <1>2, <1>9 DEF Frame
    <2> QED BY <1>2, <1>9, <1>10, <1>11, <2>1 DEF Frame, AtPage
  <1>13. Frame(r, targets', queue, ended)
    <2>1. CASE s.todo = {}
      <3>1. Gathered(s, targets', queue, ended)
        BY <1>9, <1>12, <2>1, FrameGathered DEF AtPage
      <3>2. s.position \in DOMAIN Sources[s.source].pages
        BY <1>9, <1>12 DEF Frame, AtPage
      <3> QED BY <2>1, <3>1, <3>2, NextPageFrame
    <2>2. CASE s.todo # {}
      BY <1>12, <2>2
    <2> QED BY <2>1, <2>2
  <1> HIDE DEF r
  <1>14. /\ pods' \in 0..MaxPods /\ unasked' \subseteq Monitored
         /\ observed' \in [Monitored -> Contents \cup {Nothing}] /\ latest' = observed'
         /\ queue' \subseteq ScanRuns \X Urls
         /\ ended' \in [Monitored -> SUBSET FinalUrls] /\ Grown(ended, ended')
    BY <1>1 DEF IInv, TypeOK, HashIsOfLatestSuccess, Grown
  <1>15. Mapped(targets) \subseteq Mapped(targets') /\ queue \subseteq queue'
    BY <1>1, <1>5
  <1>16. ScheduledIsMonitored'
    BY <1>1, <1>15 DEF IInv, ScheduledIsMonitored, Mapped
  <1>17. Frame(r, targets', queue', ended') /\ Green(targets', ended')
    BY <1>1, <1>5, <1>13
  <1> HIDE DEF IInv, Frame, Mapped
  <1> QED BY <1>1, <1>5, <1>14, <1>15, <1>16, <1>17, PodStepIInv

\* An exception leaves what was seen to the targets that are known: the scan
\* fails.
LEMMA RaiseIInv ==
    ASSUME IInv, NEW p \in Pods, Raise(p)
    PROVE  IInv'
  <1> DEFINE r == [pod[p] EXCEPT !.phase = "recording", !.todo = {},
                                 !.status = "success", !.content = Nothing,
                                 !.end = Nothing]
  <1>1. pod' = [pod EXCEPT ![p] = r] /\ UNCHANGED <<targets, observed, queue, latest, ended>>
        /\ pods' \in 0..MaxPods /\ unasked' \subseteq Monitored
    BY DEF Raise, IInv, TypeOK
  <1>2. /\ pod[p] # Nothing /\ pod[p].phase \in {"fetching", "observing", "upserting"}
        /\ Frame(pod[p], targets, queue, ended) /\ Sound(pod[p], targets, ended) /\ pod[p] \in Scans
    BY FrameOf DEF Raise, In
  <1>4. r \in Scans
    BY <1>2 DEF Scans, Phases, ScanStatuses
  <1>5. /\ r.phase = "recording" /\ r.source = pod[p].source /\ r.position = pod[p].position
        /\ r.targets = pod[p].targets /\ r.broken = pod[p].broken /\ r.run = pod[p].run
        /\ r.due = pod[p].due
    BY <1>2 DEF Scans
  <1> HIDE DEF r
  <1>6. Covered(pod[p], queue) = Covered(r, queue)
    BY <1>2, <1>5 DEF Covered, Queued, AtPage
  <1>7. Frame(r, targets, queue, ended)
    BY <1>2, <1>4, <1>5, <1>6 DEF Frame, Sound, AtPage
  <1> QED BY <1>1, <1>7, LocalStepIInv

\* The hash of a page that failed stays, and what is known is enqueued.
LEMMA RecordErrorIInv ==
    ASSUME IInv, NEW p \in Pods, RecordError(p)
    PROVE  IInv'
  <1> DEFINE s == [pod[p] EXCEPT !.failed = TRUE]
             r == NextPage(s)
  <1>1. pod' = [pod EXCEPT ![p] = r] /\ UNCHANGED <<targets, queue, latest, ended>>
        /\ pods' \in 0..MaxPods /\ unasked' \subseteq Monitored
    BY DEF RecordError, IInv, TypeOK
  <1>2. observed' = observed
    <2>1. observed \in [Monitored -> Contents \cup {Nothing}]
      BY DEF IInv, TypeOK
    <2>2. observed' = [observed EXCEPT ![PageOf(p)] = observed[PageOf(p)]]
      BY DEF RecordError, RecordObservation
    <2> QED BY <2>1, <2>2
  <1>3. /\ pod[p] # Nothing /\ pod[p].phase = "recording"
        /\ Frame(pod[p], targets, queue, ended) /\ Sound(pod[p], targets, ended) /\ pod[p] \in Scans
    BY FrameOf DEF RecordError, In
  <1>4. s \in Scans
    BY <1>3 DEF Scans
  <1>5. /\ s.phase = "recording" /\ s.source = pod[p].source /\ s.position = pod[p].position
        /\ s.targets = pod[p].targets /\ s.broken = pod[p].broken /\ s.run = pod[p].run
        /\ s.due = pod[p].due /\ s.failed = TRUE
    BY <1>3 DEF Scans
  <1> HIDE DEF s
  <1>6. Covered(pod[p], queue) = Queued(s, queue) \cup Mapped(s.targets)
    BY <1>3, <1>5 DEF Covered, Queued, AtPage
  <1>7. Gathered(s, targets, queue, ended)
    BY <1>3, <1>4, <1>5, <1>6 DEF Gathered, Frame, Sound, AtPage
  <1>8. s.position \in DOMAIN Sources[s.source].pages
    BY <1>3, <1>5 DEF Frame, AtPage
  <1>9. Frame(r, targets, queue, ended)
    BY <1>7, <1>8, NextPageFrame
  <1> HIDE DEF r
  <1> QED BY <1>1, <1>2, <1>9, LocalStepIInv

\* A known target gets its job.
LEMMA EnqueueDetailIInv ==
    ASSUME IInv, NEW p \in Pods, NEW u \in Urls, EnqueueDetail(p, u)
    PROVE  IInv'
  <1> DEFINE s == [pod[p] EXCEPT !.todo = @ \ {u}]
             r == IF s.todo = {} THEN NextSource(s) ELSE s
  <1>1. /\ pod' = [pod EXCEPT ![p] = r] /\ queue' = queue \cup {<<pod[p].run, u>>}
        /\ UNCHANGED <<pods, targets, observed, latest, ended, unasked>>
    BY DEF EnqueueDetail
  <1>2. /\ pod[p] # Nothing /\ pod[p].phase = "enqueuing" /\ u \in pod[p].todo
        /\ Frame(pod[p], targets, queue, ended) /\ Sound(pod[p], targets, ended) /\ pod[p] \in Scans
    BY FrameOf DEF EnqueueDetail, In, First
  <1>3. u \in Mapped(targets) /\ pod[p].position = 1
    BY <1>2 DEF Frame, AtPage
  <1>4. s \in Scans
    BY <1>2 DEF Scans
  <1>5. /\ s.phase = "enqueuing" /\ s.source = pod[p].source /\ s.position = pod[p].position
        /\ s.targets = pod[p].targets /\ s.broken = pod[p].broken /\ s.run = pod[p].run
        /\ s.due = pod[p].due /\ s.seen = pod[p].seen /\ s.failed = pod[p].failed
        /\ s.todo = pod[p].todo \ {u}
    BY <1>2 DEF Scans
  <1> HIDE DEF s
  <1>6. Covered(pod[p], queue) \subseteq Queued(s, queue') \cup s.todo
    BY <1>1, <1>2, <1>5 DEF Covered, Queued, AtPage
  <1>7. Sound(s, targets, ended)
    BY <1>2, <1>4, <1>5 DEF Sound
  <1>8. Frame(r, targets, queue', ended)
    <2>1. CASE s.todo = {}
      <3>1. Over(s, targets, queue', ended)
        BY <1>2, <1>3, <1>5, <1>6, <1>7, <2>1 DEF Over, Frame
      <3> QED BY <2>1, <3>1, NextSourceFrame
    <2>2. CASE s.todo # {}
      <3>1. Covered(s, queue') = Queued(s, queue') \cup s.todo
        BY <1>5 DEF Covered, AtPage
      <3>2. s.todo \subseteq Mapped(targets)
        BY <1>2, <1>5 DEF Frame
      <3>3. Frame(s, targets, queue', ended)
        BY <1>2, <1>3, <1>5, <1>6, <1>7, <3>1, <3>2 DEF Frame, AtPage
      <3> QED BY <2>2, <3>3
    <2> QED BY <2>1, <2>2
  <1> HIDE DEF r
  <1>9. /\ pods' \in 0..MaxPods /\ unasked' \subseteq Monitored
        /\ targets' \in [Urls -> Monitored \cup {Nothing}] /\ Green(targets', ended')
        /\ observed' \in [Monitored -> Contents \cup {Nothing}] /\ latest' = observed'
        /\ ended' \in [Monitored -> SUBSET FinalUrls] /\ Grown(ended, ended')
    BY <1>1 DEF IInv, TypeOK, HashIsOfLatestSuccess, Grown
  <1>10. queue' \subseteq ScanRuns \X Urls
    BY <1>1, <1>2 DEF IInv, TypeOK, Scans
  <1>11. ScheduledIsMonitored'
    BY <1>1, <1>3 DEF IInv, ScheduledIsMonitored, Mapped
  <1>12. Frame(r, targets', queue', ended')
    BY <1>1, <1>8
  <1>13. Mapped(targets) \subseteq Mapped(targets') /\ queue \subseteq queue'
    BY <1>1
  <1> HIDE DEF IInv, Frame, Mapped
  <1> QED BY <1>1, <1>9, <1>10, <1>11, <1>12, <1>13, PodStepIInv

\* The summary is printed.
LEMMA ExitIInv ==
    ASSUME IInv, NEW p \in Pods, Exit(p)
    PROVE  IInv'
  <1>1. pod' = [pod EXCEPT ![p] = Nothing] /\ UNCHANGED <<targets, observed, queue, latest, ended>>
        /\ pods' \in 0..MaxPods /\ unasked' \subseteq Monitored
    BY DEF Exit, IInv, TypeOK
  <1> QED BY <1>1, LocalStepIInv

-----------------------------------------------------------------------------

\* Every step keeps the invariant.
LEMMA NextIInv == IInv /\ [Next]_vars => IInv'
  <1> SUFFICES ASSUME IInv, [Next]_vars PROVE IInv'
    OBVIOUS
  <1>1. ASSUME NEW p \in Pods, NEW r \in ScanRuns, StartPod(p, r) PROVE IInv'
    BY <1>1, StartPodIInv
  <1>2. ASSUME NEW p \in Pods, PodDies(p) PROVE IInv'
    BY <1>2, PodDiesIInv
  <1>3. ASSUME NEW p \in Pods, List(p) PROVE IInv'
    BY <1>3, ListIInv
  <1>4. ASSUME NEW p \in Pods, NEW status \in ScanStatuses, NEW b \in Contents,
               NEW f \in FinalUrls, Fetch(p, status, b, f)
        PROVE  IInv'
    BY <1>4, FetchIInv
  <1>5. ASSUME NEW p \in Pods, Observe(p) PROVE IInv'
    BY <1>5, ObserveIInv
  <1>6. ASSUME NEW p \in Pods, NEW u \in Urls, UpsertSeen(p, u) PROVE IInv'
    BY <1>6, UpsertSeenIInv
  <1>7. ASSUME NEW p \in Pods, Raise(p) PROVE IInv'
    BY <1>7, RaiseIInv
  <1>8. ASSUME NEW p \in Pods, RecordError(p) PROVE IInv'
    BY <1>8, RecordErrorIInv
  <1>9. ASSUME NEW p \in Pods, NEW u \in Urls, EnqueueDetail(p, u) PROVE IInv'
    BY <1>9, EnqueueDetailIInv
  <1>10. ASSUME NEW p \in Pods, Exit(p) PROVE IInv'
    BY <1>10, ExitIInv
  <1>11. CASE UNCHANGED vars
    BY <1>11 DEF vars, IInv, TypeOK, Green, Fits, Moved, PagesOf, ScheduledIsMonitored,
                 HashIsOfLatestSuccess, Frame, Sound, Mapped, Covered, Queued, Scans
  <1> QED BY <1>1, <1>2, <1>3, <1>4, <1>5, <1>6, <1>7, <1>8, <1>9, <1>10, <1>11 DEF Next

\* The invariant of the pods, the targets and the jobs.
LEMMA Invariance == Spec => []IInv
  <1> QED BY InitIInv, NextIInv, PTL DEF Spec

\* The tables and the frames of the pods have their types throughout.
THEOREM ScanTypeCorrect == Spec => []TypeOK
  <1>1. IInv => TypeOK
    BY DEF IInv
  <1> QED BY <1>1, Invariance, PTL

\* Jobs are of durable targets only, for any rows and any number of pods.
THEOREM OnlyMonitoredScheduled == Spec => []ScheduledIsMonitored
  <1>1. IInv => ScheduledIsMonitored
    BY DEF IInv
  <1> QED BY <1>1, Invariance, PTL

\* The stored hash is that of the latest successful fetch, for any bodies.
THEOREM HashOfLatest == Spec => []HashIsOfLatestSuccess
  <1>1. IInv => HashIsOfLatestSuccess
    BY DEF IInv
  <1> QED BY <1>1, Invariance, PTL

\* An index refuses what it has discovered only after its redirects moved, for
\* any redirects and any rows in which no index shares its page with another.
THEOREM IndexGreen == Spec => []IndexStaysGreen
  <1>1. IInv => IndexStaysGreen
    BY DEF IInv, IndexStaysGreen, Frame, Sound, Moved
  <1> QED BY <1>1, Invariance, PTL

\* A scan that exits has enqueued what was due, and what it has seen unless it
\* failed, for any number of sources, pages and pods of one run.
THEOREM WholeScan == Spec => []ScanIsWhole
  <1>1. IInv => ScanIsWhole
    <2> SUFFICES ASSUME IInv, NEW p \in Pods, In(p, "exiting")
                 PROVE  /\ \A u \in pod[p].due : <<pod[p].run, u>> \in queue
                        /\ ~ pod[p].failed => \A u \in pod[p].seen : <<pod[p].run, u>> \in queue
      BY DEF ScanIsWhole
    <2>1. pod[p].phase = "exiting" /\ Frame(pod[p], targets, queue, ended)
      BY DEF In, IInv
    <2>2. Covered(pod[p], queue) = Queued(pod[p], queue)
      BY <2>1 DEF Covered, AtPage
    <2>3. pod[p].due \subseteq Queued(pod[p], queue)
      BY <2>1, <2>2 DEF Frame
    <2>4. ~pod[p].failed => pod[p].seen \subseteq Queued(pod[p], queue)
      BY <2>1, <2>2 DEF Frame
    <2> QED BY <2>3, <2>4 DEF Queued
  <1> QED BY <1>1, Invariance, PTL
=============================================================================
