----------------------------- MODULE AuthProofs -----------------------------
(***************************************************************************)
(* Proofs about the three tables of auth/repository.py: LoginRate,          *)
(* LoginAccount and AuthSessions, for any number of transactions, any       *)
(* digests and keys of locks, any limits, windows and terms, and any bounds *)
(* of the instance.                                                         *)
(***************************************************************************)
EXTENDS LoginRate, LoginAccount, AuthSessions, SequenceTheorems, FiniteSetTheorems,
        WellFoundedInduction, TLAPS

-----------------------------------------------------------------------------
(* Sign-ins per window.                                                     *)

RateTypeOK ==
    /\ rateClock \in Nat
    /\ attempt \in [Attempts -> {Resting} \cup
          [pc : {"open"}, user : Usernames, client : Clients, now : Int, locks : SUBSET Int,
           allowed : {"unknown", "yes", "no"}]]
    /\ IsFiniteSet(reserved) /\ reservations \subseteq reserved
    /\ \A r \in reserved : r.at \in Int

Busy == {a \in Attempts : attempt[a] # Resting}

AllHeld == UNION {attempt[a].locks : a \in Busy}

\* The advisory locks: each has one holder, and the smaller are taken first.
LocksInOrder ==
    /\ IsFiniteSet(AllHeld)
    /\ \A a \in Busy :
          /\ attempt[a].locks \subseteq KeysOf(a)
          /\ \A key \in attempt[a].locks, other \in Missing(a) : key < other
          /\ attempt[a].allowed # "unknown" => Missing(a) = {}
    /\ \A a, b \in Busy : a # b => attempt[a].locks \cap attempt[b].locks = {}

\* What was pruned is in no window of an attempt, neither of one that is open
\* nor of one to come.
PrunedIsPast(now) ==
    \A r \in reserved \ reservations, w \in {UsernameWindow, ClientWindow} : r.at < now - w

\* An attempt that was allowed still is.
StillAllowed(a) == attempt[a].allowed = "yes" => Allowed(a)

RateInv ==
    /\ RateTypeOK
    /\ LocksInOrder
    /\ PrunedIsPast(rateClock)
    /\ \A a \in Busy : PrunedIsPast(attempt[a].now) /\ StillAllowed(a)
    /\ WindowsHold

\* What an attempt is that is open.
LEMMA OpenAttempt ==
    ASSUME RateTypeOK, NEW a \in Busy
    PROVE  /\ a \in Attempts
           /\ attempt[a] \in [pc : {"open"}, user : Usernames, client : Clients, now : Int,
                              locks : SUBSET Int, allowed : {"unknown", "yes", "no"}]
           /\ LockKey[attempt[a].user] \in Int /\ LockKey[attempt[a].client] \in Int
           /\ KeysOf(a) \subseteq Int
  <1>1. a \in Attempts /\ attempt[a] # Resting
    BY DEF Busy
  <1>2. attempt[a] \in [pc : {"open"}, user : Usernames, client : Clients, now : Int,
                        locks : SUBSET Int, allowed : {"unknown", "yes", "no"}]
    BY <1>1 DEF RateTypeOK
  <1>3. LockKey[attempt[a].user] \in Int /\ LockKey[attempt[a].client] \in Int
    BY <1>2, LoginRateAssumption
  <1> QED BY <1>1, <1>2, <1>3 DEF KeysOf

\* The windows are counted among finitely many rows.
LEMMA WindowIsFinite ==
    ASSUME NEW rows, IsFiniteSet(rows), NEW dimension, NEW subject, NEW after
    PROVE  /\ IsFiniteSet(InWindow(rows, dimension, subject, after))
           /\ Cardinality(InWindow(rows, dimension, subject, after)) \in Nat
  <1>1. InWindow(rows, dimension, subject, after) \in SUBSET rows
    BY DEF InWindow
  <1> QED BY <1>1, FS_Subset, FS_CardinalityType

\* Every step keeps the types.
LEMMA RateTyped ==
    ASSUME RateTypeOK, RateNext
    PROVE  RateTypeOK'
  <1> USE DEF RateTypeOK
  <1>1. CASE RateTick
    BY <1>1 DEF RateTick
  <1>2. CASE PruneBefore
    BY <1>2 DEF PruneBefore
  <1>3. ASSUME NEW a \in Attempts, NEW u \in Usernames, NEW c \in Clients, Reserve(a, u, c)
        PROVE  RateTypeOK'
    BY <1>3 DEF Reserve
  <1>4. ASSUME NEW a \in Attempts, TakeLock(a)
        PROVE  RateTypeOK'
    <2>1. a \in Busy
      BY <1>4 DEF TakeLock, Busy
    <2>2. PICK key \in NextKeys(a) :
             attempt' = [attempt EXCEPT ![a].locks = @ \cup {key}]
      BY <1>4 DEF TakeLock
    <2>3. key \in Int
      BY <2>1, <2>2, OpenAttempt DEF NextKeys, Missing
    <2>4. attempt[a].locks \cup {key} \in SUBSET Int
      BY <2>1, <2>3, OpenAttempt
    <2> QED BY <1>4, <2>1, <2>2, <2>4, OpenAttempt DEF TakeLock
  <1>5. ASSUME NEW a \in Attempts, CountWindows(a)
        PROVE  RateTypeOK'
    <2>1. a \in Busy
      BY <1>5 DEF CountWindows, Busy
    <2> QED BY <1>5, <2>1, OpenAttempt DEF CountWindows
  <1>6. ASSUME NEW a \in Attempts, CommitAttempt(a)
        PROVE  RateTypeOK'
    <2>1. a \in Busy
      BY <1>6 DEF CommitAttempt, Busy
    <2>2. attempt[a].now \in Int
      BY <2>1, OpenAttempt
    <2>3. IsFiniteSet(reserved \cup RowsOf(a))
      <3> DEFINE r1 == [id |-> Cardinality(reserved), dimension |-> "username",
                        subject |-> attempt[a].user, at |-> attempt[a].now]
                 r2 == [id |-> Cardinality(reserved), dimension |-> "client",
                        subject |-> attempt[a].client, at |-> attempt[a].now]
      <3>1. RowsOf(a) = {r1, r2}
        BY DEF RowsOf
      <3> HIDE DEF r1, r2
      <3>2. reserved \cup RowsOf(a) = (reserved \cup {r1}) \cup {r2}
        BY <3>1
      <3> QED BY <3>2, FS_AddElement
    <2>4. \A r \in RowsOf(a) : r.at \in Int
      BY <2>2 DEF RowsOf
    <2>5. attempt' \in [Attempts -> {Resting} \cup
             [pc : {"open"}, user : Usernames, client : Clients, now : Int,
              locks : SUBSET Int, allowed : {"unknown", "yes", "no"}]]
      BY <1>6 DEF CommitAttempt
    <2>6. IsFiniteSet(reserved') /\ reservations' \subseteq reserved'
          /\ \A r \in reserved' : r.at \in Int
      BY <1>6, <2>3, <2>4, Zenon DEF CommitAttempt
    <2> QED BY <1>6, <2>5, <2>6 DEF CommitAttempt
  <1>7. ASSUME NEW a \in Attempts, RollBack(a)
        PROVE  RateTypeOK'
    BY <1>7 DEF RollBack
  <1> QED BY <1>1, <1>2, <1>3, <1>4, <1>5, <1>6, <1>7 DEF RateNext

\* The locks stay in order when an attempt begins, takes its next one, counts,
\* or gives all of them back.
LEMMA LocksKept ==
    ASSUME RateTypeOK, LocksInOrder, RateNext
    PROVE  LocksInOrder'
  <1>1. CASE RateTick
    BY <1>1 DEF RateTick, LocksInOrder, AllHeld, Busy, KeysOf, Missing
  <1>2. CASE PruneBefore
    BY <1>2 DEF PruneBefore, LocksInOrder, AllHeld, Busy, KeysOf, Missing
  <1>3. ASSUME NEW a \in Attempts, NEW u \in Usernames, NEW c \in Clients, Reserve(a, u, c)
        PROVE  LocksInOrder'
    <2>1. /\ a \notin Busy
          /\ \A b \in Attempts \ {a} : attempt'[b] = attempt[b]
          /\ attempt'[a].locks = {} /\ attempt'[a].allowed = "unknown"
      BY <1>3 DEF Reserve, Busy, RateTypeOK
    <2>2. Busy \subseteq Attempts \ {a} /\ Busy' \subseteq Busy \cup {a}
      BY <2>1 DEF Busy
    <2>3. IsFiniteSet(AllHeld')
      <3>1. AllHeld' \in SUBSET AllHeld
        BY <2>1, <2>2 DEF AllHeld
      <3> QED BY <3>1, FS_Subset DEF LocksInOrder
    <2>4. \A b \in Busy : KeysOf(b)' = KeysOf(b) /\ Missing(b)' = Missing(b)
      BY <2>1, <2>2 DEF KeysOf, Missing
    <2> QED BY <2>1, <2>2, <2>3, <2>4 DEF LocksInOrder
  <1>4. ASSUME NEW a \in Attempts, TakeLock(a)
        PROVE  LocksInOrder'
    <2>1. a \in Busy /\ attempt[a].allowed = "unknown"
      BY <1>4 DEF TakeLock, Busy
    <2>2. PICK key \in NextKeys(a) :
             /\ ~HeldByOther(a, key)
             /\ attempt' = [attempt EXCEPT ![a].locks = @ \cup {key}]
      BY <1>4 DEF TakeLock
    <2>3. /\ \A b \in Attempts \ {a} : attempt'[b] = attempt[b]
          /\ attempt'[a].locks = attempt[a].locks \cup {key}
          /\ attempt'[a].user = attempt[a].user /\ attempt'[a].client = attempt[a].client
          /\ attempt'[a].allowed = "unknown" /\ attempt'[a] # Resting
      BY <2>1, <2>2, OpenAttempt DEF RateTypeOK, Resting
    <2>4. Busy' = Busy /\ Busy \subseteq Attempts
      BY <2>1, <2>3 DEF Busy
    <2>5. KeysOf(a)' = KeysOf(a) /\ Missing(a)' = Missing(a) \ {key}
      BY <2>3 DEF KeysOf, Missing
    <2>6. \A b \in Busy \ {a} : KeysOf(b)' = KeysOf(b) /\ Missing(b)' = Missing(b)
      BY <2>3, <2>4 DEF KeysOf, Missing
    <2>7. key \in KeysOf(a) /\ \A other \in Missing(a) \ {key} : key < other
      <3>1. key \in Missing(a) /\ \A other \in Missing(a) : key <= other
        BY <2>2 DEF NextKeys
      <3>2. Missing(a) \subseteq Int
        BY <2>1, OpenAttempt DEF Missing
      <3> QED BY <3>1, <3>2 DEF Missing
    <2>8. IsFiniteSet(AllHeld')
      <3>1. AllHeld' \in SUBSET (AllHeld \cup {key})
        BY <2>3, <2>4 DEF AllHeld
      <3> QED BY <3>1, FS_AddElement, FS_Subset DEF LocksInOrder
    <2>9. \A b \in Busy \ {a} : key \notin attempt[b].locks
      BY <2>2, <2>4 DEF HeldByOther, Busy
    <2>10. ASSUME NEW b \in Busy
           PROVE  /\ attempt'[b].locks \subseteq KeysOf(b)'
                  /\ \A k \in attempt'[b].locks, other \in Missing(b)' : k < other
                  /\ attempt'[b].allowed # "unknown" => Missing(b)' = {}
      BY <2>3, <2>4, <2>5, <2>6, <2>7 DEF LocksInOrder
    <2>11. ASSUME NEW b \in Busy, NEW d \in Busy, b # d
           PROVE  attempt'[b].locks \cap attempt'[d].locks = {}
      BY <2>3, <2>4, <2>9, <2>11 DEF LocksInOrder
    <2> QED BY <2>4, <2>8, <2>10, <2>11 DEF LocksInOrder
  <1>5. ASSUME NEW a \in Attempts, CountWindows(a)
        PROVE  LocksInOrder'
    <2>1. a \in Busy /\ Missing(a) = {}
      BY <1>5 DEF CountWindows, AllLocked, Busy
    <2>2. /\ \A b \in Attempts : attempt'[b].locks = attempt[b].locks
          /\ \A b \in Attempts \ {a} : attempt'[b] = attempt[b]
          /\ attempt'[a].user = attempt[a].user /\ attempt'[a].client = attempt[a].client
          /\ attempt'[a] # Resting
      BY <1>5, <2>1, OpenAttempt DEF CountWindows, RateTypeOK, Resting
    <2>3. Busy' = Busy /\ Busy \subseteq Attempts
      BY <2>1, <2>2 DEF Busy
    <2>4. AllHeld' = AllHeld
      BY <2>2, <2>3 DEF AllHeld
    <2>5. \A b \in Busy : KeysOf(b)' = KeysOf(b) /\ Missing(b)' = Missing(b)
      BY <2>2, <2>3 DEF KeysOf, Missing
    <2> QED BY <2>1, <2>2, <2>3, <2>4, <2>5 DEF LocksInOrder
  <1>6. ASSUME NEW a \in Attempts, CommitAttempt(a) \/ RollBack(a)
        PROVE  LocksInOrder'
    <2>1. /\ \A b \in Attempts \ {a} : attempt'[b] = attempt[b]
          /\ attempt'[a] = Resting
      BY <1>6 DEF CommitAttempt, RollBack, RateTypeOK
    <2>2. Busy' \subseteq Busy /\ a \notin Busy'
      BY <2>1 DEF Busy
    <2>3. \A b \in Busy' : attempt'[b] = attempt[b] /\ KeysOf(b)' = KeysOf(b)
                           /\ Missing(b)' = Missing(b)
      <3>1. Busy' \subseteq Attempts \ {a}
        BY <2>2 DEF Busy
      <3> QED BY <2>1, <3>1 DEF KeysOf, Missing
    <2>4. IsFiniteSet(AllHeld')
      <3>1. AllHeld' \in SUBSET AllHeld
        BY <2>2, <2>3 DEF AllHeld
      <3> QED BY <3>1, FS_Subset DEF LocksInOrder
    <2> QED BY <2>2, <2>3, <2>4 DEF LocksInOrder
  <1> QED BY <1>1, <1>2, <1>3, <1>4, <1>5, <1>6 DEF RateNext


\* Fewer rows in the window are no more than the limit either.
LEMMA FewerInWindow ==
    ASSUME NEW rows, NEW fewer, IsFiniteSet(rows), NEW limit \in Nat, NEW dimension, NEW subject,
           NEW after, InWindow(fewer, dimension, subject, after) \subseteq rows,
           Cardinality(InWindow(rows, dimension, subject, after)) < limit
    PROVE  Cardinality(InWindow(fewer, dimension, subject, after)) < limit
  <1>1. InWindow(fewer, dimension, subject, after)
           \in SUBSET InWindow(rows, dimension, subject, after)
    BY DEF InWindow
  <1>2. /\ IsFiniteSet(InWindow(rows, dimension, subject, after))
        /\ Cardinality(InWindow(rows, dimension, subject, after)) \in Nat
    BY WindowIsFinite
  <1>3. Cardinality(InWindow(fewer, dimension, subject, after)) \in Nat
    BY <1>1, <1>2, FS_Subset, FS_CardinalityType
  <1> QED BY <1>1, <1>2, <1>3, FS_Subset

\* What an attempt was allowed stays true until it commits: whoever else
\* commits meanwhile has another user name and another client.
LEMMA AllowedKept ==
    ASSUME RateInv, RateNext, NEW b \in Busy'
    PROVE  PrunedIsPast(attempt[b].now)' /\ StillAllowed(b)'
  <1>0. /\ RateTypeOK /\ RateTypeOK' /\ LocksInOrder /\ LocksInOrder' /\ PrunedIsPast(rateClock)
        /\ \A a \in Busy : PrunedIsPast(attempt[a].now) /\ StillAllowed(a)
    BY RateTyped, LocksKept DEF RateInv
  <1>l. UsernameLimit \in Nat /\ ClientLimit \in Nat
    BY LoginRateAssumption
  <1>1. CASE UNCHANGED <<attempt, reservations, reserved>>
    BY <1>0, <1>1 DEF Busy, PrunedIsPast, StillAllowed, Allowed
  <1>2. CASE PruneBefore
    <2>1. b \in Busy /\ attempt' = attempt /\ reserved' = reserved
          /\ reservations' \subseteq reservations
      BY <1>2 DEF PruneBefore, Busy
    <2>2. attempt[b].now \in Int
      BY <1>0, <2>1, OpenAttempt
    <2>3. ASSUME NEW r \in reservations \ reservations', NEW w \in {UsernameWindow, ClientWindow}
          PROVE  r.at < attempt[b].now - w
      <3>1. ~(r.at >= attempt[b].now - w)
        BY <1>2, <2>1, <2>3 DEF PruneBefore, Busy
      <3>2. r.at \in Int /\ w \in Int
        BY <1>0, <2>3, LoginRateAssumption DEF RateTypeOK
      <3> QED BY <2>2, <3>1, <3>2
    <2>4. PrunedIsPast(attempt[b].now)'
      BY <1>0, <2>1, <2>3 DEF PrunedIsPast
    <2>5. \A dimension, subject, after :
             InWindow(reservations', dimension, subject, after) \subseteq reservations
      BY <2>1 DEF InWindow
    <2>6. IsFiniteSet(reservations)
      BY <1>0, FS_Subset DEF RateTypeOK
    <2>7. StillAllowed(b)'
      <3> SUFFICES ASSUME attempt'[b].allowed = "yes" PROVE Allowed(b)'
        BY DEF StillAllowed
      <3>1. Allowed(b)
        BY <1>0, <2>1 DEF StillAllowed
      <3>2. Cardinality(InWindow(reservations', "username", attempt[b].user,
                                 attempt[b].now - UsernameWindow)) < UsernameLimit
        BY <1>l, <2>5, <2>6, <3>1, FewerInWindow DEF Allowed
      <3>3. Cardinality(InWindow(reservations', "client", attempt[b].client,
                                 attempt[b].now - ClientWindow)) < ClientLimit
        BY <1>l, <2>5, <2>6, <3>1, FewerInWindow DEF Allowed
      <3> QED BY <2>1, <3>2, <3>3 DEF Allowed
    <2> QED BY <2>4, <2>7
  <1>3. ASSUME NEW a \in Attempts, NEW u \in Usernames, NEW c \in Clients, Reserve(a, u, c)
        PROVE  PrunedIsPast(attempt[b].now)' /\ StillAllowed(b)'
    <2>1. /\ reservations' = reservations /\ reserved' = reserved
          /\ \A d \in Attempts \ {a} : attempt'[d] = attempt[d]
          /\ attempt'[a].now = rateClock /\ attempt'[a].allowed = "unknown"
      BY <1>0, <1>3 DEF Reserve, RateTypeOK
    <2>2. CASE b = a
      BY <1>0, <2>1, <2>2 DEF PrunedIsPast, StillAllowed
    <2>3. CASE b # a
      <3>1. b \in Busy /\ attempt'[b] = attempt[b]
        BY <2>1, <2>3 DEF Busy
      <3> QED BY <1>0, <2>1, <3>1 DEF PrunedIsPast, StillAllowed, Allowed
    <2> QED BY <2>2, <2>3
  <1>4. ASSUME NEW a \in Attempts, TakeLock(a)
        PROVE  PrunedIsPast(attempt[b].now)' /\ StillAllowed(b)'
    <2>1. a \in Busy /\ attempt[a].allowed = "unknown"
      BY <1>4 DEF TakeLock, Busy
    <2>2. /\ reservations' = reservations /\ reserved' = reserved
          /\ \A d \in Attempts \ {a} : attempt'[d] = attempt[d]
          /\ attempt'[a].now = attempt[a].now /\ attempt'[a].allowed = "unknown"
      BY <1>0, <1>4, <2>1, OpenAttempt DEF TakeLock, RateTypeOK
    <2>3. b \in Busy /\ b \in Attempts
      BY <2>1, <2>2 DEF Busy
    <2> QED BY <1>0, <2>2, <2>3 DEF PrunedIsPast, StillAllowed, Allowed
  <1>5. ASSUME NEW a \in Attempts, CountWindows(a)
        PROVE  PrunedIsPast(attempt[b].now)' /\ StillAllowed(b)'
    <2>1. a \in Busy
      BY <1>5 DEF CountWindows, Busy
    <2>2. /\ reservations' = reservations /\ reserved' = reserved
          /\ \A d \in Attempts \ {a} : attempt'[d] = attempt[d]
          /\ attempt'[a] = [attempt[a] EXCEPT !.allowed = IF Allowed(a) THEN "yes" ELSE "no"]
      BY <1>0, <1>5 DEF CountWindows, RateTypeOK
    <2>3. /\ attempt'[a].now = attempt[a].now /\ attempt'[a].user = attempt[a].user
          /\ attempt'[a].client = attempt[a].client
          /\ attempt'[a].allowed = "yes" => Allowed(a)
      BY <1>0, <2>1, <2>2, OpenAttempt
    <2>4. b \in Busy /\ b \in Attempts
      BY <2>1, <2>2 DEF Busy
    <2>5. CASE b = a
      BY <1>0, <2>2, <2>3, <2>4, <2>5 DEF PrunedIsPast, StillAllowed, Allowed
    <2>6. CASE b # a
      BY <1>0, <2>2, <2>4, <2>6 DEF PrunedIsPast, StillAllowed, Allowed
    <2> QED BY <2>5, <2>6
  <1>6. ASSUME NEW a \in Attempts, CommitAttempt(a) \/ RollBack(a)
        PROVE  PrunedIsPast(attempt[b].now)' /\ StillAllowed(b)'
    <2>1. /\ a \in Busy
          /\ \A d \in Attempts \ {a} : attempt'[d] = attempt[d]
          /\ attempt'[a] = Resting
          /\ (reservations' = reservations /\ reserved' = reserved)
             \/ /\ attempt[a].allowed # "unknown"
                /\ reservations' = reservations \cup RowsOf(a)
                /\ reserved' = reserved \cup RowsOf(a)
      BY <1>0, <1>6 DEF CommitAttempt, RollBack, RateTypeOK, Busy
    <2>2. b \in Busy /\ b # a /\ attempt'[b] = attempt[b]
      BY <2>1 DEF Busy
    <2>3. PrunedIsPast(attempt[b].now)'
      BY <1>0, <2>1, <2>2 DEF PrunedIsPast
    <2>4. StillAllowed(b)'
      <3> SUFFICES ASSUME attempt'[b].allowed = "yes" PROVE Allowed(b)'
        BY DEF StillAllowed
      <3>1. Allowed(b) /\ Missing(b) = {}
        BY <1>0, <2>2 DEF StillAllowed, LocksInOrder
      <3>2. CASE reservations' = reservations
        BY <2>2, <3>1, <3>2 DEF Allowed
      <3>3. CASE /\ attempt[a].allowed # "unknown"
                 /\ reservations' = reservations \cup RowsOf(a)
        <4>1. Missing(a) = {} /\ attempt[a].locks \cap attempt[b].locks = {}
          BY <1>0, <2>1, <2>2, <3>3 DEF LocksInOrder
        <4>2. attempt[a].user # attempt[b].user /\ attempt[a].client # attempt[b].client
          BY <3>1, <4>1 DEF Missing, KeysOf
        <4>3. \A after :
                 /\ InWindow(reservations', "username", attempt[b].user, after)
                       = InWindow(reservations, "username", attempt[b].user, after)
                 /\ InWindow(reservations', "client", attempt[b].client, after)
                       = InWindow(reservations, "client", attempt[b].client, after)
          BY <3>3, <4>2 DEF InWindow, RowsOf
        <4> QED BY <2>2, <3>1, <4>3 DEF Allowed
      <3> QED BY <2>1, <3>2, <3>3
    <2> QED BY <2>3, <2>4
  <1> QED BY <1>1, <1>2, <1>3, <1>4, <1>5, <1>6 DEF RateNext, RateTick

\* One more row of an attempt that was allowed: every window the row is in
\* lies, up to its end, within the one that was counted.
LEMMA OneMoreInWindow ==
    ASSUME NEW dimension, NEW subject, NEW window \in Nat, NEW limit \in Nat, NEW now \in Int,
           IsFiniteSet(reserved), \A r \in reserved : r.at \in Int,
           reservations \subseteq reserved,
           \A r \in reserved \ reservations : r.at < now - window,
           Cardinality(InWindow(reservations, dimension, subject, now - window)) < limit,
           NEW row, row.dimension = dimension, row.subject = subject, row.at = now,
           NEW rows, \A r \in rows \ reserved : r.dimension = dimension => r = row,
           NEW other, NEW end \in Int,
           Cardinality({r \in InWindow(reserved, dimension, other, end - window) : r.at <= end})
              <= limit
    PROVE  Cardinality({r \in InWindow(rows, dimension, other, end - window) : r.at <= end})
              <= limit
  <1> DEFINE Before == {r \in InWindow(reserved, dimension, other, end - window) : r.at <= end}
             After  == {r \in InWindow(rows, dimension, other, end - window) : r.at <= end}
             Counted == InWindow(reservations, dimension, subject, now - window)
  <1>1. After \in SUBSET (Before \cup {row})
    BY DEF InWindow
  <1>2. Before \in SUBSET reserved
    BY DEF InWindow
  <1>3. IsFiniteSet(Before) /\ Cardinality(Before) \in Nat
    BY <1>2, FS_Subset, FS_CardinalityType
  <1>4. CASE row \notin After
    <2>1. After \in SUBSET Before
      BY <1>1, <1>4
    <2> HIDE DEF Before, After
    <2>2. Cardinality(After) <= Cardinality(Before) /\ Cardinality(After) \in Nat
      BY <1>3, <2>1, FS_Subset, FS_CardinalityType
    <2> QED BY <1>3, <2>2 DEF Before, After
  <1>5. CASE row \in After
    <2>1. other = subject /\ now > end - window /\ now <= end
      BY <1>5 DEF InWindow
    <2>2. Before \in SUBSET Counted
      <3> SUFFICES ASSUME NEW r \in Before PROVE r \in Counted
        OBVIOUS
      <3>1. r \in reserved /\ r.dimension = dimension /\ r.subject = other /\ r.at > end - window
        BY DEF InWindow
      <3>2. r.at \in Int
        BY <3>1
      <3>3. r.at > now - window
        BY <2>1, <3>1, <3>2
      <3>4. r \in reservations
        BY <3>1, <3>2, <3>3
      <3> QED BY <2>1, <3>1, <3>3, <3>4 DEF InWindow
    <2>3. IsFiniteSet(Counted) /\ Cardinality(Counted) \in Nat
      <3>1. IsFiniteSet(reservations)
        BY FS_Subset
      <3> QED BY <3>1, WindowIsFinite
    <2> HIDE DEF Before, After, Counted
    <2>4. Cardinality(Before) <= Cardinality(Counted)
      BY <2>2, <2>3, FS_Subset
    <2>5. IsFiniteSet(Before \cup {row}) /\ Cardinality(Before \cup {row}) <= Cardinality(Before) + 1
      <3>1. /\ IsFiniteSet(Before \cup {row})
            /\ Cardinality(Before \cup {row})
                  = IF row \in Before THEN Cardinality(Before) ELSE Cardinality(Before) + 1
        BY <1>3, FS_AddElement, Zenon
      <3> QED BY <1>3, <3>1
    <2>6. /\ Cardinality(After) <= Cardinality(Before \cup {row}) /\ Cardinality(After) \in Nat
          /\ Cardinality(Before \cup {row}) \in Nat
      BY <1>1, <2>5, FS_Subset, FS_CardinalityType
    <2>7. Cardinality(Counted) < limit
      BY DEF Counted
    <2>8. Cardinality(After) <= limit
      BY <1>3, <2>3, <2>4, <2>5, <2>6, <2>7
    <2> QED BY <2>8 DEF After
  <1> QED BY <1>4, <1>5

\* A commit keeps every window within its limit.
LEMMA WindowsKept ==
    ASSUME RateInv, NEW a \in Attempts, CommitAttempt(a), attempt[a].allowed = "yes"
    PROVE  WindowsHold'
  <1>1. /\ RateTypeOK /\ a \in Busy /\ PrunedIsPast(attempt[a].now) /\ Allowed(a) /\ WindowsHold
        /\ reserved' = reserved \cup RowsOf(a)
    BY DEF RateInv, CommitAttempt, Busy, StillAllowed
  <1>2. /\ UsernameLimit \in Nat /\ ClientLimit \in Nat
        /\ UsernameWindow \in Nat /\ ClientWindow \in Nat
    BY LoginRateAssumption
  <1>3. /\ attempt[a].now \in Int /\ IsFiniteSet(reserved) /\ reservations \subseteq reserved
        /\ \A r \in reserved : r.at \in Int
    BY <1>1, OpenAttempt DEF RateTypeOK
  <1> DEFINE r1 == [id |-> Cardinality(reserved), dimension |-> "username",
                    subject |-> attempt[a].user, at |-> attempt[a].now]
             r2 == [id |-> Cardinality(reserved), dimension |-> "client",
                    subject |-> attempt[a].client, at |-> attempt[a].now]
  <1>4. /\ r1.dimension = "username" /\ r1.subject = attempt[a].user /\ r1.at = attempt[a].now
        /\ r2.dimension = "client" /\ r2.subject = attempt[a].client /\ r2.at = attempt[a].now
        /\ RowsOf(a) = {r1, r2}
    BY DEF RowsOf
  <1> HIDE DEF r1, r2
  <1>5. /\ \A r \in reserved' \ reserved : r.dimension = "username" => r = r1
        /\ \A r \in reserved' \ reserved : r.dimension = "client" => r = r2
    BY <1>1, <1>4
  <1> SUFFICES ASSUME NEW end \in 0..MaxRateClock
               PROVE  /\ \A u \in Usernames : Cardinality(
                            {r \in InWindow(reserved', "username", u, end - UsernameWindow) :
                                r.at <= end}) <= UsernameLimit
                      /\ \A c \in Clients : Cardinality(
                            {r \in InWindow(reserved', "client", c, end - ClientWindow) :
                                r.at <= end}) <= ClientLimit
    BY DEF WindowsHold
  <1>6. end \in Int
    OBVIOUS
  <1>7. ASSUME NEW u \in Usernames
        PROVE  Cardinality({r \in InWindow(reserved', "username", u, end - UsernameWindow) :
                               r.at <= end}) <= UsernameLimit
    <2>1. \A r \in reserved \ reservations : r.at < attempt[a].now - UsernameWindow
      BY <1>1 DEF PrunedIsPast
    <2>2. Cardinality(InWindow(reservations, "username", attempt[a].user,
                               attempt[a].now - UsernameWindow)) < UsernameLimit
      BY <1>1 DEF Allowed
    <2>3. Cardinality({r \in InWindow(reserved, "username", u, end - UsernameWindow) :
                          r.at <= end}) <= UsernameLimit
      BY <1>1, <1>7 DEF WindowsHold
    <2> QED BY <1>2, <1>3, <1>4, <1>5, <1>6, <2>1, <2>2, <2>3, OneMoreInWindow
  <1>8. ASSUME NEW c \in Clients
        PROVE  Cardinality({r \in InWindow(reserved', "client", c, end - ClientWindow) :
                               r.at <= end}) <= ClientLimit
    <2>1. \A r \in reserved \ reservations : r.at < attempt[a].now - ClientWindow
      BY <1>1 DEF PrunedIsPast
    <2>2. Cardinality(InWindow(reservations, "client", attempt[a].client,
                               attempt[a].now - ClientWindow)) < ClientLimit
      BY <1>1 DEF Allowed
    <2>3. Cardinality({r \in InWindow(reserved, "client", c, end - ClientWindow) :
                          r.at <= end}) <= ClientLimit
      BY <1>1, <1>8 DEF WindowsHold
    <2> QED BY <1>2, <1>3, <1>4, <1>5, <1>6, <2>1, <2>2, <2>3, OneMoreInWindow
  <1> QED BY <1>7, <1>8

\* What was pruned stays behind the clock.
LEMMA PrunedKept ==
    ASSUME RateInv, RateNext
    PROVE  PrunedIsPast(rateClock)'
  <1>1. /\ rateClock \in Nat /\ PrunedIsPast(rateClock) /\ \A r \in reserved : r.at \in Int
        /\ UsernameWindow \in Int /\ ClientWindow \in Int
    BY LoginRateAssumption DEF RateInv, RateTypeOK
  <1>2. CASE PruneBefore
    <2>1. rateClock' = rateClock /\ reserved' = reserved
      BY <1>2 DEF PruneBefore
    <2>2. \A r \in reservations \ reservations', w \in {UsernameWindow, ClientWindow} :
             ~(r.at >= rateClock - w)
      BY <1>2 DEF PruneBefore
    <2>3. reservations \subseteq reserved
      BY DEF RateInv, RateTypeOK
    <2> QED BY <1>1, <2>1, <2>2, <2>3 DEF PrunedIsPast
  <1>3. CASE ~PruneBefore
    <2>1. /\ rateClock' \in {rateClock, rateClock + 1}
          /\ reserved' \ reservations' \subseteq reserved \ reservations
      BY <1>3 DEF RateNext, RateTick, Reserve, TakeLock, CountWindows, CommitAttempt, RollBack
    <2> QED BY <1>1, <2>1 DEF PrunedIsPast
  <1> QED BY <1>2, <1>3

\* The invariant of the sign-in windows.
LEMMA RateInvariant == RateSpec => []RateInv
  <1>1. RateInit => RateInv
    <2> SUFFICES ASSUME RateInit PROVE RateInv
      OBVIOUS
    <2>1. Busy = {}
      BY DEF RateInit, Busy
    <2>2. RateTypeOK
      BY FS_EmptySet DEF RateInit, RateTypeOK
    <2>3. LocksInOrder
      <3>1. AllHeld = {}
        BY <2>1 DEF AllHeld
      <3> QED BY <2>1, <3>1, FS_EmptySet DEF LocksInOrder
    <2>4. PrunedIsPast(rateClock)
      BY DEF RateInit, PrunedIsPast
    <2>5. WindowsHold
      <3>1. UsernameLimit \in Nat /\ ClientLimit \in Nat
        BY LoginRateAssumption
      <3>2. \A dimension, subject, after, end :
               Cardinality({r \in InWindow(reserved, dimension, subject, after) : r.at <= end}) = 0
        <4>1. \A dimension, subject, after, end :
                 {r \in InWindow(reserved, dimension, subject, after) : r.at <= end} = {}
          BY DEF RateInit, InWindow
        <4> QED BY <4>1, FS_EmptySet, Zenon
      <3>3. 0 <= UsernameLimit /\ 0 <= ClientLimit
        BY <3>1
      <3> QED BY <3>2, <3>3, Zenon DEF WindowsHold
    <2> QED BY <2>1, <2>2, <2>3, <2>4, <2>5 DEF RateInv
  <1>2. RateInv /\ [RateNext]_rateVars => RateInv'
    <2> SUFFICES ASSUME RateInv, [RateNext]_rateVars PROVE RateInv'
      OBVIOUS
    <2>1. CASE RateNext
      <3>1. RateTypeOK' /\ LocksInOrder' /\ PrunedIsPast(rateClock)'
        BY <2>1, RateTyped, LocksKept, PrunedKept DEF RateInv
      <3>2. \A a \in Busy' : PrunedIsPast(attempt[a].now)' /\ StillAllowed(a)'
        BY <2>1, AllowedKept
      <3>3. WindowsHold'
        <4>1. CASE \E a \in Attempts : CommitAttempt(a) /\ attempt[a].allowed = "yes"
          BY <4>1, WindowsKept
        <4>2. CASE reserved' = reserved
          BY <4>2 DEF RateInv, WindowsHold
        <4> QED BY <2>1, <4>1, <4>2 DEF RateNext, RateTick, PruneBefore, Reserve, TakeLock,
                CountWindows, CommitAttempt, RollBack
      <3> QED BY <3>1, <3>2, <3>3 DEF RateInv
    <2>2. CASE UNCHANGED rateVars
      BY <2>2 DEF rateVars, RateInv, RateTypeOK, LocksInOrder, AllHeld, Busy, KeysOf, Missing,
         PrunedIsPast, StillAllowed, Allowed, WindowsHold
    <2> QED BY <2>1, <2>2
  <1> QED BY <1>1, <1>2, PTL DEF RateSpec

\* The limits of ADR-010 hold in every window, whichever attempts reserve at
\* once, however late after their clocks they do, and whenever rows that no
\* attempt counts any more are pruned.
THEOREM SignInsPerWindow == RateSpec => []WindowsHold
  <1>1. RateInv => WindowsHold
    BY DEF RateInv
  <1> QED BY <1>1, RateInvariant, PTL

\* The least of a set of numbers.
LEMMA Least ==
    ASSUME NEW T \in SUBSET Nat, T # {}
    PROVE \E n \in T : \A m \in T : n <= m
  <1> DEFINE R == {ss \in Nat \X Nat : ss[1] < ss[2]}
  <1>1. IsWellFoundedOn(R, Nat)
    BY NatLessThanWellFounded, Zenon DEF OpToRel
  <1> HIDE DEF R
  <1>2. PICK n \in T : \A m \in T : ~(<<m, n>> \in R)
    BY <1>1, WFMin
  <1>3. \A m \in T : ~(m < n)
    BY <1>2 DEF R
  <1> QED BY <1>3

\* The largest of finitely many integers.
LEMMA Largest ==
    ASSUME NEW S \in SUBSET Int, IsFiniteSet(S), S # {}
    PROVE \E x \in S : \A y \in S : y <= x
  <1> DEFINE Has(U) == \E x \in U : \A y \in U : y <= x
             T == {n \in Nat : \E U \in SUBSET Int :
                      IsFiniteSet(U) /\ U # {} /\ Cardinality(U) = n /\ ~Has(U)}
  <1> SUFFICES ASSUME ~Has(S) PROVE FALSE
    OBVIOUS
  <1>1. Cardinality(S) \in T
    BY FS_CardinalityType
  <1>2. PICK n \in T : \A m \in T : n <= m
    <2>1. T \in SUBSET Nat /\ T # {}
      BY <1>1
    <2> HIDE DEF T
    <2> QED BY <2>1, Least
  <1>3. PICK U \in SUBSET Int : IsFiniteSet(U) /\ U # {} /\ Cardinality(U) = n /\ ~Has(U)
    BY <1>2
  <1>4. PICK u \in U : TRUE
    BY <1>3
  <1>5. IsFiniteSet(U \ {u}) /\ Cardinality(U \ {u}) = n - 1
    BY <1>3, <1>4, FS_RemoveElement
  <1>6. n - 1 \notin T
    BY <1>2
  <1>7. U \ {u} = {} \/ Has(U \ {u})
    <2>1. n - 1 \in Nat
      BY <1>5, FS_CardinalityType
    <2>2. U \ {u} \in SUBSET Int
      BY <1>3
    <2> QED BY <1>5, <1>6, <2>1, <2>2
  <1>8. CASE U \ {u} = {}
    <2>1. U = {u} /\ u \in Int
      BY <1>4, <1>8
    <2> QED BY <2>1, <1>3
  <1>9. CASE Has(U \ {u})
    <2>1. PICK x \in U \ {u} : \A y \in U \ {u} : y <= x
      BY <1>9
    <2>2. x \in Int /\ u \in Int
      BY <1>4, <2>1
    <2>3. CASE u <= x
      BY <1>3, <2>1, <2>2, <2>3
    <2>4. CASE ~(u <= x)
      <3>1. \A y \in U : y \in Int
        OBVIOUS
      <3>2. \A y \in U : y <= u
        BY <2>1, <2>2, <2>4, <3>1
      <3> QED BY <1>3, <1>4, <3>2
    <2> QED BY <2>3, <2>4
  <1> QED BY <1>7, <1>8, <1>9

\* Of two keys that are missing one is the next.
LEMMA NextKey ==
    ASSUME RateTypeOK, NEW a \in Busy, Missing(a) # {}
    PROVE  \E key \in Missing(a) : key \in NextKeys(a)
  <1>1. LockKey[attempt[a].user] \in Int /\ LockKey[attempt[a].client] \in Int
    BY OpenAttempt
  <1> QED BY <1>1 DEF NextKeys, Missing, KeysOf

\* Attempts never wait in a circle, however their digests share locks: the
\* holder of the largest key that is taken can take its next one.
THEOREM NoCircleOfAttempts == RateSpec => []SomeAttemptProceeds
  <1>1. RateInv => SomeAttemptProceeds
    <2> SUFFICES ASSUME RateInv, Busy # {},
                        \A a \in Busy : Missing(a) # {} /\ \A key \in NextKeys(a) : HeldByOther(a, key)
                 PROVE  FALSE
      BY DEF SomeAttemptProceeds, Busy
    <2>1. RateTypeOK /\ LocksInOrder
      BY DEF RateInv
    <2>2. \A a \in Busy : \E key \in Missing(a) : key \in NextKeys(a) /\ key \in AllHeld
      BY <2>1, NextKey DEF HeldByOther, AllHeld, Busy
    <2>3. IsFiniteSet(AllHeld) /\ AllHeld \in SUBSET Int /\ AllHeld # {}
      BY <2>1, <2>2, OpenAttempt DEF AllHeld, LocksInOrder
    <2>4. PICK largest \in AllHeld : \A key \in AllHeld : key <= largest
      BY <2>3, Largest
    <2>5. PICK a \in Busy : largest \in attempt[a].locks
      BY <2>4 DEF AllHeld
    <2>6. PICK key \in Missing(a) : key \in AllHeld
      BY <2>2
    <2>7. largest < key /\ key <= largest /\ largest \in Int /\ key \in Int
      BY <2>1, <2>3, <2>4, <2>5, <2>6 DEF LocksInOrder
    <2> QED BY <2>7
  <1> QED BY <1>1, RateInvariant, PTL

-----------------------------------------------------------------------------
(* The lockout.                                                             *)

AccountRow == [attempts : Nat, lockedUntil : Int]

LoginTypeOK ==
    /\ loginClock \in Nat
    /\ account \in Seq(AccountRow)
    /\ failures \in Nat
    /\ signIn \in [SignIns -> {NoSignIn}
          \cup [pc : {"begun"}, op : {"bootstrap", "failure", "success"}, now : Nat]
          \cup [pc : {"counted"}, op : {"bootstrap"}, now : Nat, users : Nat]
          \cup [pc : {"locked"}, op : {"failure", "success"}, now : Nat, read : AccountRow]]

\* What a transaction that holds a lock has read is how things are.
ReadIsCurrent ==
    \A t \in SignIns :
        /\ InLogin(t, "bootstrap", "counted") => signIn[t].users = Len(account)
        /\ InLogin(t, "failure", "locked") => account # <<>> /\ signIn[t].read = account[1]

\* One bootstrap and one sign-in hold a lock at most.
LocksExclude ==
    \A t, other \in SignIns :
        t # other /\ HoldsLock(t) /\ HoldsLock(other) =>
            (signIn[t].op = "bootstrap") # (signIn[other].op = "bootstrap")

LoginInv ==
    /\ LoginTypeOK
    /\ account = <<>> => failures = 0
    /\ ReadIsCurrent
    /\ LocksExclude
    /\ EveryFailureCounts

\* What a transaction is that has begun, has counted, or has locked.
LEMMA InSignIn ==
    ASSUME LoginTypeOK, NEW t \in SignIns, NEW op, NEW pc, InLogin(t, op, pc)
    PROVE  /\ signIn[t].now \in Nat
           /\ pc = "counted" => signIn[t].users \in Nat
           /\ pc = "locked" => signIn[t].read \in AccountRow
           /\ pc \in {"counted", "locked"} => HoldsLock(t)
  <1>1. /\ signIn[t] \in [pc : {"begun"}, op : {"bootstrap", "failure", "success"}, now : Nat]
              \cup [pc : {"counted"}, op : {"bootstrap"}, now : Nat, users : Nat]
              \cup [pc : {"locked"}, op : {"failure", "success"}, now : Nat, read : AccountRow]
        /\ signIn[t].pc = pc
    BY DEF LoginTypeOK, InLogin
  <1>2. pc \in {"counted", "locked"} => HoldsLock(t)
    BY DEF InLogin, HoldsLock
  <1> QED BY <1>1, <1>2

\* The one row is written in place.
LEMMA FirstRowWritten ==
    ASSUME NEW rows \in Seq(AccountRow), NEW row \in AccountRow
    PROVE  /\ [rows EXCEPT ![1] = row] \in Seq(AccountRow)
           /\ Len([rows EXCEPT ![1] = row]) = Len(rows)
           /\ rows # <<>> => [rows EXCEPT ![1] = row][1] = row
  <1> DEFINE written == [rows EXCEPT ![1] = row]
  <1>1. /\ DOMAIN rows = 1..Len(rows) /\ Len(rows) \in Nat
        /\ \A i \in 1..Len(rows) : rows[i] \in AccountRow
    BY LenProperties, ElementOfSeq
  <1>2. DOMAIN written = 1..Len(rows) /\ \A i \in 1..Len(rows) : written[i] \in AccountRow
    BY <1>1
  <1>3. written \in Seq(AccountRow) /\ Len(written) = Len(rows)
    <2>1. written = [i \in 1..Len(rows) |-> written[i]]
      BY <1>2
    <2> HIDE DEF written
    <2>2. written \in Seq(AccountRow)
      BY <1>1, <1>2, <2>1, IsASeq
    <2> QED BY <1>1, <1>2, <2>2, LenProperties
  <1>4. rows # <<>> => written[1] = row
    <2>1. rows # <<>> => 1 \in DOMAIN rows
      BY <1>1, EmptySeq
    <2> QED BY <2>1
  <1> QED BY <1>3, <1>4

\* From the fifth failure on the delay is half a minute at least.
LEMMA DelayIsEnough ==
    ASSUME NEW attempts \in Nat, attempts >= 5
    PROVE  LockDelay(attempts) \in Int /\ LockDelay(attempts) >= 30
  <1>1. CASE attempts >= 10
    BY <1>1 DEF LockDelay
  <1>2. CASE attempts < 10
    <2>1. attempts \in {5, 6, 7, 8, 9}
      BY <1>2
    <2>2. 2 ^ 0 = 1 /\ 2 ^ 1 = 2 /\ 2 ^ 2 = 4 /\ 2 ^ 3 = 8 /\ 2 ^ 4 = 16
      OBVIOUS
    <2>3. attempts - 5 \in {0, 1, 2, 3, 4}
      BY <2>1
    <2>4. 2 ^ (attempts - 5) \in {1, 2, 4, 8, 16}
      BY <2>2, <2>3
    <2>5. LockDelay(attempts) = 30 * 2 ^ (attempts - 5)
      BY <1>2 DEF LockDelay
    <2> QED BY <2>4, <2>5
  <1> QED BY <1>1, <1>2


\* A transaction that only begins, or gives up, changes none of what the others
\* have read or locked.
LEMMA SignInFrame ==
    ASSUME LoginInv, LoginTypeOK', NEW t \in SignIns,
           UNCHANGED <<account, failures>>,
           \A other \in SignIns \ {t} : signIn'[other] = signIn[other],
           ~HoldsLock(t)'
    PROVE  LoginInv'
  <1>1. ReadIsCurrent'
    <2>1. \A op, pc : pc \in {"counted", "locked"} => ~InLogin(t, op, pc)'
      BY DEF InLogin, HoldsLock
    <2> QED BY <2>1 DEF LoginInv, ReadIsCurrent, InLogin
  <1>2. LocksExclude'
    BY DEF LoginInv, LocksExclude, HoldsLock
  <1> QED BY <1>1, <1>2 DEF LoginInv, EveryFailureCounts

\* A transaction takes a lock that no other one holds, and reads.
LEMMA LockFrame ==
    ASSUME LoginInv, LoginTypeOK', NEW t \in SignIns, NEW op, MayLock(t, op),
           UNCHANGED <<account, failures>>,
           \A other \in SignIns \ {t} : signIn'[other] = signIn[other],
           signIn'[t].op = op,
           InLogin(t, "bootstrap", "counted")' => signIn'[t].users = Len(account),
           InLogin(t, "failure", "locked")' => account # <<>> /\ signIn'[t].read = account[1]
    PROVE  LoginInv'
  <1>1. ReadIsCurrent'
    BY DEF LoginInv, ReadIsCurrent, InLogin
  <1>2. \A other \in SignIns \ {t} :
           HoldsLock(other)' => (signIn'[other].op = "bootstrap") # (op = "bootstrap")
    BY DEF MayLock, HoldsLock
  <1>3. LocksExclude'
    <2> SUFFICES ASSUME NEW b \in SignIns, NEW d \in SignIns, b # d, HoldsLock(b)', HoldsLock(d)'
                 PROVE  (signIn'[b].op = "bootstrap") # (signIn'[d].op = "bootstrap")
      BY DEF LocksExclude
    <2>1. CASE b = t
      BY <1>2, <2>1
    <2>2. CASE d = t
      BY <1>2, <2>2
    <2>3. CASE b # t /\ d # t
      BY <2>3 DEF LoginInv, LocksExclude, HoldsLock
    <2> QED BY <2>1, <2>2, <2>3
  <1> QED BY <1>1, <1>3 DEF LoginInv, EveryFailureCounts

\* A transaction that holds a lock writes the row and releases the lock: what
\* the others rely on is what it leaves.
LEMMA WriteFrame ==
    ASSUME LoginInv, LoginTypeOK', NEW t \in SignIns, HoldsLock(t),
           signIn' = [signIn EXCEPT ![t] = NoSignIn],
           IF signIn[t].op = "bootstrap" THEN account # <<>> => account' = account
                                         ELSE Len(account') = Len(account),
           account' = <<>> => failures' = 0, EveryFailureCounts'
    PROVE  LoginInv'
  <1>0. /\ LoginTypeOK /\ ReadIsCurrent /\ LocksExclude
        /\ signIn'[t] = NoSignIn /\ \A b \in SignIns \ {t} : signIn'[b] = signIn[b]
    BY DEF LoginInv, LoginTypeOK
  <1>1. ReadIsCurrent'
    <2> SUFFICES ASSUME NEW b \in SignIns
                 PROVE  /\ InLogin(b, "bootstrap", "counted")' => signIn'[b].users = Len(account')
                        /\ InLogin(b, "failure", "locked")' =>
                              account' # <<>> /\ signIn'[b].read = account'[1]
      BY DEF ReadIsCurrent
    <2>1. CASE b = t
      BY <1>0, <2>1 DEF InLogin
    <2>2. CASE b # t
      <3>1. signIn'[b] = signIn[b]
        BY <1>0, <2>2
      <3>2. HoldsLock(b) => (signIn[b].op = "bootstrap") # (signIn[t].op = "bootstrap")
        BY <1>0, <2>2 DEF LocksExclude
      <3>3. InLogin(b, "bootstrap", "counted")' => signIn'[b].users = Len(account')
        BY <1>0, <3>1, <3>2 DEF InLogin, HoldsLock, ReadIsCurrent
      <3>4. InLogin(b, "failure", "locked")' =>
               account' # <<>> /\ signIn'[b].read = account'[1]
        BY <1>0, <3>1, <3>2 DEF InLogin, HoldsLock, ReadIsCurrent
      <3> QED BY <3>3, <3>4
    <2> QED BY <2>1, <2>2
  <1>2. LocksExclude'
    BY <1>0 DEF LocksExclude, HoldsLock
  <1> QED BY <1>1, <1>2 DEF LoginInv

\* The types after every step.
LEMMA LoginTyped ==
    ASSUME LoginInv, LoginNext
    PROVE  LoginTypeOK'
  <1> DEFINE Begun   == [pc : {"begun"}, op : {"bootstrap", "failure", "success"}, now : Nat]
             Counted == [pc : {"counted"}, op : {"bootstrap"}, now : Nat, users : Nat]
             Locked  == [pc : {"locked"}, op : {"failure", "success"}, now : Nat,
                         read : AccountRow]
  <1>0. /\ LoginTypeOK /\ loginClock \in Nat /\ account \in Seq(AccountRow) /\ failures \in Nat
        /\ signIn \in [SignIns -> {NoSignIn} \cup Begun \cup Counted \cup Locked]
    BY DEF LoginInv, LoginTypeOK
  <1>s. SUFFICES /\ loginClock' \in Nat /\ account' \in Seq(AccountRow) /\ failures' \in Nat
                 /\ signIn' \in [SignIns -> {NoSignIn} \cup Begun \cup Counted \cup Locked]
    BY DEF LoginTypeOK
  <1>1. CASE LoginTick
    BY <1>0, <1>1 DEF LoginTick
  <1>2. ASSUME NEW t \in SignIns, NEW op \in {"bootstrap", "failure", "success"},
               BeginSignIn(t, op)
        PROVE  /\ loginClock' \in Nat /\ account' \in Seq(AccountRow) /\ failures' \in Nat
               /\ signIn' \in [SignIns -> {NoSignIn} \cup Begun \cup Counted \cup Locked]
    <2>1. [pc |-> "begun", op |-> op, now |-> loginClock] \in Begun
      BY <1>0
    <2> HIDE DEF Begun, Counted, Locked
    <2> QED BY <1>0, <1>2, <2>1 DEF BeginSignIn
  <1>3. ASSUME NEW t \in SignIns, NEW op \in {"failure", "success"}, LockAccount(t, op)
        PROVE  /\ loginClock' \in Nat /\ account' \in Seq(AccountRow) /\ failures' \in Nat
               /\ signIn' \in [SignIns -> {NoSignIn} \cup Begun \cup Counted \cup Locked]
    <2>1. account[1] \in AccountRow /\ signIn[t].now \in Nat
      <3>1. InLogin(t, op, "begun") /\ account # <<>>
        BY <1>3 DEF LockAccount
      <3>2. signIn[t].now \in Nat
        BY <1>0, <3>1, InSignIn
      <3>3. account[1] \in AccountRow
        BY <1>0, <3>1
      <3> QED BY <3>2, <3>3
    <2>2. [pc |-> "locked", op |-> op, now |-> signIn[t].now, read |-> account[1]] \in Locked
      BY <2>1
    <2> HIDE DEF Begun, Counted, Locked
    <2> QED BY <1>0, <1>3, <2>2 DEF LockAccount
  <1>4. ASSUME NEW t \in SignIns, CountUsers(t)
        PROVE  /\ loginClock' \in Nat /\ account' \in Seq(AccountRow) /\ failures' \in Nat
               /\ signIn' \in [SignIns -> {NoSignIn} \cup Begun \cup Counted \cup Locked]
    <2>1. Len(account) \in Nat /\ signIn[t].now \in Nat
      <3>1. InLogin(t, "bootstrap", "begun")
        BY <1>4 DEF CountUsers
      <3> QED BY <1>0, <3>1, InSignIn
    <2>2. [pc |-> "counted", op |-> "bootstrap", now |-> signIn[t].now, users |-> Len(account)]
             \in Counted
      BY <2>1
    <2> HIDE DEF Begun, Counted, Locked
    <2> QED BY <1>0, <1>4, <2>2 DEF CountUsers
  <1>5. ASSUME NEW t \in SignIns, CreateInitialUser(t)
        PROVE  /\ loginClock' \in Nat /\ account' \in Seq(AccountRow) /\ failures' \in Nat
               /\ signIn' \in [SignIns -> {NoSignIn} \cup Begun \cup Counted \cup Locked]
    <2>1. [attempts |-> 0, lockedUntil |-> NotLocked] \in AccountRow
      BY DEF AccountRow, NotLocked
    <2> HIDE DEF Begun, Counted, Locked
    <2> QED BY <1>0, <1>5, <2>1 DEF CreateInitialUser
  <1>6. ASSUME NEW t \in SignIns, RecordLoginFailure(t)
        PROVE  /\ loginClock' \in Nat /\ account' \in Seq(AccountRow) /\ failures' \in Nat
               /\ signIn' \in [SignIns -> {NoSignIn} \cup Begun \cup Counted \cup Locked]
    <2> DEFINE attempts == signIn[t].read.attempts + 1
               until == IF attempts >= 5 THEN signIn[t].now + LockDelay(attempts)
                        ELSE signIn[t].read.lockedUntil
    <2>1. signIn[t].now \in Nat /\ signIn[t].read \in AccountRow
      <3>1. InLogin(t, "failure", "locked")
        BY <1>6 DEF RecordLoginFailure
      <3> QED BY <1>0, <3>1, InSignIn
    <2>2. attempts \in Nat /\ until \in Int
      BY <2>1, DelayIsEnough DEF AccountRow
    <2>3. [attempts |-> attempts, lockedUntil |-> until] \in AccountRow
      BY <2>2 DEF AccountRow
    <2>4. account' = [account EXCEPT ![1] = [attempts |-> attempts, lockedUntil |-> until]]
      BY <1>6 DEF RecordLoginFailure
    <2>5. account' \in Seq(AccountRow)
      <3> HIDE DEF attempts, until
      <3> QED BY <1>0, <2>3, <2>4, FirstRowWritten
    <2> HIDE DEF Begun, Counted, Locked
    <2> QED BY <1>0, <1>6, <2>5 DEF RecordLoginFailure
  <1>7. ASSUME NEW t \in SignIns, RecordLoginSuccess(t)
        PROVE  /\ loginClock' \in Nat /\ account' \in Seq(AccountRow) /\ failures' \in Nat
               /\ signIn' \in [SignIns -> {NoSignIn} \cup Begun \cup Counted \cup Locked]
    <2>1. [attempts |-> 0, lockedUntil |-> NotLocked] \in AccountRow
      BY DEF AccountRow, NotLocked
    <2>2. account' \in Seq(AccountRow)
      BY <1>0, <1>7, <2>1, FirstRowWritten DEF RecordLoginSuccess
    <2> HIDE DEF Begun, Counted, Locked
    <2> QED BY <1>0, <1>7, <2>2 DEF RecordLoginSuccess
  <1>8. ASSUME NEW t \in SignIns, RollBackSignIn(t)
        PROVE  /\ loginClock' \in Nat /\ account' \in Seq(AccountRow) /\ failures' \in Nat
               /\ signIn' \in [SignIns -> {NoSignIn} \cup Begun \cup Counted \cup Locked]
    <2> HIDE DEF Begun, Counted, Locked
    <2> QED BY <1>0, <1>8 DEF RollBackSignIn
  <1> QED BY <1>1, <1>2, <1>3, <1>4, <1>5, <1>6, <1>7, <1>8 DEF LoginNext

\* The lockout counts every failure: whichever sign-ins and bootstraps overlap,
\* and wherever they stop.
THEOREM FailuresCounted == LoginSpec => []EveryFailureCounts
  <1>1. LoginInit => LoginInv
    <2> SUFFICES ASSUME LoginInit PROVE LoginInv
      OBVIOUS
    <2>1. LoginTypeOK
      BY DEF LoginInit, LoginTypeOK
    <2>2. \A t \in SignIns : signIn[t] = NoSignIn
      BY DEF LoginInit
    <2>3. ReadIsCurrent /\ LocksExclude
      BY <2>2 DEF ReadIsCurrent, LocksExclude, InLogin, HoldsLock
    <2>4. EveryFailureCounts /\ failures = 0
      BY DEF LoginInit, EveryFailureCounts
    <2> QED BY <2>1, <2>3, <2>4 DEF LoginInv
  <1>2. LoginInv /\ [LoginNext]_loginVars => LoginInv'
    <2> SUFFICES ASSUME LoginInv, LoginNext PROVE LoginInv'
      BY DEF LoginInv, LoginTypeOK, ReadIsCurrent, LocksExclude, EveryFailureCounts, InLogin,
         HoldsLock, loginVars
    <2>0. LoginTypeOK /\ LoginTypeOK'
      BY LoginTyped DEF LoginInv
    <2>1. CASE LoginTick
      BY <2>0, <2>1 DEF LoginTick, LoginInv, ReadIsCurrent, LocksExclude, EveryFailureCounts,
         InLogin, HoldsLock
    <2>2. ASSUME NEW t \in SignIns, NEW op, BeginSignIn(t, op)
          PROVE  LoginInv'
      <3>1. /\ \A other \in SignIns \ {t} : signIn'[other] = signIn[other]
            /\ signIn'[t].pc = "begun"
        BY <2>0, <2>2 DEF BeginSignIn, LoginTypeOK
      <3> QED BY <2>0, <2>2, <3>1, SignInFrame DEF BeginSignIn, HoldsLock
    <2>3. ASSUME NEW t \in SignIns, RollBackSignIn(t)
          PROVE  LoginInv'
      <3>1. /\ \A other \in SignIns \ {t} : signIn'[other] = signIn[other]
            /\ signIn'[t] = NoSignIn
        BY <2>0, <2>3 DEF RollBackSignIn, LoginTypeOK
      <3> QED BY <2>0, <2>3, <3>1, SignInFrame DEF RollBackSignIn, HoldsLock
    <2>4. ASSUME NEW t \in SignIns, NEW op \in {"failure", "success"}, LockAccount(t, op)
          PROVE  LoginInv'
      <3>1. /\ \A other \in SignIns \ {t} : signIn'[other] = signIn[other]
            /\ signIn'[t] = [pc |-> "locked", op |-> op, now |-> signIn[t].now,
                             read |-> account[1]]
        BY <2>0, <2>4 DEF LockAccount, LoginTypeOK
      <3>2. signIn'[t].op = op /\ signIn'[t].pc = "locked" /\ signIn'[t].read = account[1]
        BY <3>1
      <3> QED BY <2>0, <2>4, <3>1, <3>2, LockFrame DEF LockAccount, InLogin
    <2>5. ASSUME NEW t \in SignIns, CountUsers(t)
          PROVE  LoginInv'
      <3>1. /\ \A other \in SignIns \ {t} : signIn'[other] = signIn[other]
            /\ signIn'[t] = [pc |-> "counted", op |-> "bootstrap", now |-> signIn[t].now,
                             users |-> Len(account)]
        BY <2>0, <2>5 DEF CountUsers, LoginTypeOK
      <3>2. /\ signIn'[t].op = "bootstrap" /\ signIn'[t].pc = "counted"
            /\ signIn'[t].users = Len(account)
        BY <3>1
      <3> QED BY <2>0, <2>5, <3>1, <3>2, LockFrame DEF CountUsers, InLogin
    <2>6. ASSUME NEW t \in SignIns, CreateInitialUser(t)
          PROVE  LoginInv'
      <3>1. /\ HoldsLock(t) /\ signIn[t].op = "bootstrap" /\ signIn[t].users = Len(account)
            /\ failures' = failures /\ signIn' = [signIn EXCEPT ![t] = NoSignIn]
        BY <2>6 DEF CreateInitialUser, InLogin, HoldsLock, LoginInv, ReadIsCurrent
      <3>2. CASE account = <<>>
        <4>1. Len(account) = 0 /\ failures = 0
          BY <3>2 DEF LoginInv
        <4>2. account' = Append(account, [attempts |-> 0, lockedUntil |-> NotLocked])
          BY <2>6, <3>1, <4>1 DEF CreateInitialUser
        <4>3. Len(account') = 1 /\ account'[1] = [attempts |-> 0, lockedUntil |-> NotLocked]
          BY <3>2, <4>2
        <4>4. EveryFailureCounts'
          BY <3>1, <4>1, <4>3 DEF EveryFailureCounts
        <4> QED BY <2>0, <3>1, <3>2, <4>1, <4>4, WriteFrame
      <3>3. CASE account # <<>>
        <4>1. Len(account) # 0
          BY <2>0, <3>3 DEF LoginTypeOK
        <4>2. account' = account
          BY <2>6, <3>1, <4>1 DEF CreateInitialUser
        <4> QED BY <2>0, <3>1, <3>3, <4>2, WriteFrame DEF LoginInv, EveryFailureCounts
      <3> QED BY <3>2, <3>3
    <2>7. ASSUME NEW t \in SignIns, RecordLoginFailure(t)
          PROVE  LoginInv'
      <3> DEFINE attempts == signIn[t].read.attempts + 1
                 until == IF attempts >= 5 THEN signIn[t].now + LockDelay(attempts)
                          ELSE signIn[t].read.lockedUntil
                 row == [attempts |-> attempts, lockedUntil |-> until]
      <3>1. /\ InLogin(t, "failure", "locked") /\ signIn[t].op = "failure"
            /\ failures' = failures + 1 /\ signIn' = [signIn EXCEPT ![t] = NoSignIn]
            /\ account' = [account EXCEPT ![1] = row]
        BY <2>7 DEF RecordLoginFailure, InLogin
      <3>2. /\ HoldsLock(t) /\ account # <<>> /\ signIn[t].read = account[1]
            /\ signIn[t].now \in Nat /\ signIn[t].read \in AccountRow
        BY <2>0, <3>1, InSignIn DEF LoginInv, ReadIsCurrent
      <3>3. /\ attempts = failures + 1 /\ attempts \in Nat /\ Len(account) = 1
        <4>1. signIn[t].read.attempts = failures /\ failures \in Nat
          BY <2>0, <3>2 DEF LoginInv, EveryFailureCounts, LoginTypeOK
        <4>2. Len(account) # 0 /\ Len(account) <= 1 /\ Len(account) \in Nat
          BY <2>0, <3>2 DEF LoginInv, EveryFailureCounts, LoginTypeOK
        <4>3. attempts = failures + 1 /\ attempts \in Nat
          BY <4>1
        <4>4. Len(account) = 1
          BY <4>2
        <4> QED BY <4>3, <4>4
      <3>4. attempts >= 5 => until >= 30
        <4>1. ASSUME attempts >= 5
              PROVE  until >= 30
          <5>1. LockDelay(attempts) \in Int /\ LockDelay(attempts) >= 30
            BY <3>3, <4>1, DelayIsEnough
          <5>2. until = signIn[t].now + LockDelay(attempts)
            BY <4>1
          <5> HIDE DEF until, attempts
          <5> QED BY <3>2, <5>1, <5>2
        <4> QED BY <4>1
      <3>5. row.attempts = attempts /\ row.lockedUntil = until
        OBVIOUS
      <3> HIDE DEF attempts, until, row
      <3>6. Len(account') = 1 /\ account'[1] = row
        BY <2>0, <3>1, <3>3 DEF LoginTypeOK
      <3>7. EveryFailureCounts' /\ account' # <<>>
        <4>1. account' # <<>>
          BY <3>6
        <4>2. Len(account') <= 1
          BY <3>6
        <4>3. account'[1].attempts = failures' /\ account'[1].lockedUntil = until
          BY <3>1, <3>3, <3>5, <3>6
        <4>4. failures' >= 5 => account'[1].lockedUntil >= 30
          BY <3>1, <3>3, <3>4, <4>3
        <4> QED BY <4>1, <4>2, <4>3, <4>4 DEF EveryFailureCounts
      <3> QED BY <2>0, <3>1, <3>2, <3>3, <3>6, <3>7, WriteFrame
    <2>8. ASSUME NEW t \in SignIns, RecordLoginSuccess(t)
          PROVE  LoginInv'
      <3>1. /\ InLogin(t, "success", "locked") /\ signIn[t].op = "success" /\ HoldsLock(t)
            /\ failures' = 0 /\ signIn' = [signIn EXCEPT ![t] = NoSignIn]
            /\ account' = [account EXCEPT ![1] = [attempts |-> 0, lockedUntil |-> NotLocked]]
        BY <2>8 DEF RecordLoginSuccess, InLogin, HoldsLock
      <3>2. Len(account') = Len(account)
        BY <2>0, <3>1 DEF LoginTypeOK
      <3>3. account' # <<>> => account'[1] = [attempts |-> 0, lockedUntil |-> NotLocked]
        BY <2>0, <3>1 DEF LoginTypeOK
      <3>4. EveryFailureCounts'
        BY <3>1, <3>2, <3>3 DEF LoginInv, EveryFailureCounts
      <3> QED BY <2>0, <3>1, <3>2, <3>4, WriteFrame
    <2> QED BY <2>1, <2>2, <2>3, <2>4, <2>5, <2>6, <2>7, <2>8 DEF LoginNext
  <1>3. LoginInv => EveryFailureCounts
    BY DEF LoginInv
  <1> QED BY <1>1, <1>2, <1>3, PTL DEF LoginSpec

-----------------------------------------------------------------------------
(* Sign-outs.                                                               *)

Session == [created : Int, seen : Int, idle : Int, absolute : Int, revoked : Int]

AuthTypeOK ==
    /\ authClock \in Nat
    /\ sessions \in Seq(Session)
    /\ caller \in [Callers -> {AtRest} \cup
          [pc : {"open", "found"}, op : {"rotate", "touch", "revoke", "revoke_all"}, now : Nat,
           rows : SUBSET Nat, held : SUBSET Nat]]

\* A transaction holds rows that are not revoked, and no two hold the same.
HeldIsLive ==
    /\ \A c \in Callers : Open(c) =>
          /\ caller[c].pc = "open" => caller[c].held = {}
          /\ caller[c].pc = "found" => caller[c].rows \subseteq DOMAIN sessions
          /\ caller[c].held \subseteq DOMAIN sessions
          /\ \A row \in caller[c].held : sessions[row].revoked = Never
    /\ \A c, d \in Callers : c # d => HeldBy(c) \cap HeldBy(d) = {}

AuthInv == AuthTypeOK /\ HeldIsLive

\* What a transaction is.
LEMMA OpenCaller ==
    ASSUME AuthTypeOK, NEW c \in Callers, Open(c)
    PROVE  /\ caller[c] \in [pc : {"open", "found"},
                             op : {"rotate", "touch", "revoke", "revoke_all"}, now : Nat,
                             rows : SUBSET Nat, held : SUBSET Nat]
           /\ HeldBy(c) = caller[c].held
  BY DEF AuthTypeOK, Open, HeldBy

\* Whatever an operation asks of a row, it is not revoked.
LEMMA MatchedIsLive ==
    ASSUME NEW op, NEW s, NEW now, Matches(op, s, now)
    PROVE  s.revoked = Never
  BY DEF Matches, IsActive

\* The smaller of two numbers is one of them.
LEMMA MinOfTwo ==
    ASSUME NEW i \in Int, NEW j \in Int
    PROVE  Min({i, j}) \in Int
  <1>1. \E x \in {i, j} : \A y \in {i, j} : x <= y
    OBVIOUS
  <1>2. Min({i, j}) \in {i, j}
    BY <1>1 DEF Min
  <1> QED BY <1>2

\* A row for a row.
LEMMA RowsRewritten ==
    ASSUME NEW rows \in Seq(Session), NEW written,
           DOMAIN written = DOMAIN rows, written = [row \in DOMAIN rows |-> written[row]],
           \A row \in DOMAIN rows : written[row] \in Session
    PROVE  written \in Seq(Session) /\ Len(written) = Len(rows)
  <1>1. DOMAIN rows = 1..Len(rows) /\ Len(rows) \in Nat
    BY LenProperties
  <1>2. written \in Seq(Session)
    BY <1>1, IsASeq
  <1> QED BY <1>1, <1>2, LenProperties

\* A transaction that moves on, holding rows that are live and free of others,
\* while no session changes.
LEMMA CallerStep ==
    ASSUME AuthInv, NEW c \in Callers, NEW x,
           x = AtRest \/
              /\ x \in [pc : {"open", "found"},
                        op : {"rotate", "touch", "revoke", "revoke_all"}, now : Nat,
                        rows : SUBSET Nat, held : SUBSET Nat]
              /\ x.pc = "open" => x.held = {}
              /\ x.pc = "found" => x.rows \subseteq DOMAIN sessions
              /\ x.held \subseteq DOMAIN sessions
              /\ \A row \in x.held : sessions[row].revoked = Never /\ Free(c, row),
           caller' = [caller EXCEPT ![c] = x], UNCHANGED <<authClock, sessions>>
    PROVE  AuthInv'
  <1>1. AuthTypeOK'
    BY DEF AuthInv, AuthTypeOK
  <1>2. caller'[c] = x /\ \A d \in Callers \ {c} : caller'[d] = caller[d]
    BY DEF AuthInv, AuthTypeOK
  <1>3. \A d \in Callers \ {c} : Open(d)' = Open(d) /\ HeldBy(d)' = HeldBy(d)
    BY <1>2 DEF Open, HeldBy
  <1>4. HeldBy(c)' = IF x = AtRest THEN {} ELSE x.held
    BY <1>2 DEF Open, HeldBy
  <1>5. \A d \in Callers \ {c} : HeldBy(c)' \cap HeldBy(d)' = {}
    BY <1>3, <1>4 DEF Free
  <1>6. \A b, d \in Callers : b # d => HeldBy(b)' \cap HeldBy(d)' = {}
    BY <1>3, <1>5 DEF AuthInv, HeldIsLive
  <1>7. ASSUME NEW d \in Callers, Open(d)'
        PROVE  /\ caller'[d].pc = "open" => caller'[d].held = {}
               /\ caller'[d].pc = "found" => caller'[d].rows \subseteq DOMAIN sessions'
               /\ caller'[d].held \subseteq DOMAIN sessions'
               /\ \A row \in caller'[d].held : sessions'[row].revoked = Never
    <2>1. CASE d = c
      BY <1>2, <1>7, <2>1 DEF Open
    <2>2. CASE d # c
      BY <1>2, <1>3, <1>7, <2>2 DEF AuthInv, HeldIsLive
    <2> QED BY <2>1, <2>2
  <1> QED BY <1>1, <1>6, <1>7 DEF AuthInv, HeldIsLive

\* A transaction that commits: it has written to rows that it held, or added
\* one, and holds none any more.
LEMMA CommitStep ==
    ASSUME AuthInv, NEW c \in Callers, Open(c), sessions' \in Seq(Session),
           DOMAIN sessions \subseteq DOMAIN sessions',
           \A row \in DOMAIN sessions \ HeldBy(c) : sessions'[row] = sessions[row],
           caller' = [caller EXCEPT ![c] = AtRest], authClock' = authClock
    PROVE  AuthInv' /\ \A row \in DOMAIN sessions :
              sessions[row].revoked # Never => sessions'[row] = sessions[row]
  <1>1. AuthTypeOK'
    BY DEF AuthInv, AuthTypeOK
  <1>2. caller'[c] = AtRest /\ \A d \in Callers \ {c} : caller'[d] = caller[d]
    BY DEF AuthInv, AuthTypeOK
  <1>3. \A d \in Callers \ {c} : Open(d)' = Open(d) /\ HeldBy(d)' = HeldBy(d)
    BY <1>2 DEF Open, HeldBy
  <1>4. HeldBy(c)' = {} /\ ~Open(c)'
    BY <1>2 DEF Open, HeldBy
  <1>5. \A b, d \in Callers : b # d => HeldBy(b)' \cap HeldBy(d)' = {}
    BY <1>3, <1>4 DEF AuthInv, HeldIsLive
  <1>6. ASSUME NEW d \in Callers, Open(d)'
        PROVE  /\ caller'[d].pc = "open" => caller'[d].held = {}
               /\ caller'[d].pc = "found" => caller'[d].rows \subseteq DOMAIN sessions'
               /\ caller'[d].held \subseteq DOMAIN sessions'
               /\ \A row \in caller'[d].held : sessions'[row].revoked = Never
    <2>1. d # c /\ Open(d) /\ caller'[d] = caller[d]
      BY <1>2, <1>3, <1>4, <1>6
    <2>2. HeldBy(d) = caller[d].held /\ HeldBy(c) \cap HeldBy(d) = {}
      BY <2>1 DEF AuthInv, HeldIsLive, HeldBy
    <2>3. /\ caller[d].held \subseteq DOMAIN sessions
          /\ \A row \in caller[d].held : sessions[row].revoked = Never
      BY <2>1 DEF AuthInv, HeldIsLive
    <2>4. \A row \in caller[d].held : sessions'[row] = sessions[row]
      BY <2>2, <2>3
    <2> QED BY <2>1, <2>3, <2>4 DEF AuthInv, HeldIsLive
  <1>7. \A row \in HeldBy(c) : sessions[row].revoked = Never
    BY DEF AuthInv, HeldIsLive, HeldBy
  <1> QED BY <1>1, <1>5, <1>6, <1>7 DEF AuthInv, HeldIsLive

\* What a sign-out makes of the rows.
LEMMA RevokedRows ==
    ASSUME AuthInv, NEW c \in Callers, Open(c)
    PROVE  /\ Revoked(c) \in Seq(Session) /\ Len(Revoked(c)) = Len(sessions)
           /\ DOMAIN Revoked(c) = DOMAIN sessions
           /\ \A row \in DOMAIN sessions \ HeldBy(c) : Revoked(c)[row] = sessions[row]
  <1>1. sessions \in Seq(Session) /\ Now(c) \in Int
    BY OpenCaller DEF AuthInv, AuthTypeOK, Now
  <1>2. \A row \in DOMAIN sessions : sessions[row] \in Session
    BY <1>1
  <1>3. \A row \in DOMAIN sessions : Revoked(c)[row] \in Session
    BY <1>1, <1>2 DEF Revoked, Session
  <1>4. /\ DOMAIN Revoked(c) = DOMAIN sessions
        /\ Revoked(c) = [row \in DOMAIN sessions |-> Revoked(c)[row]]
        /\ \A row \in DOMAIN sessions \ HeldBy(c) : Revoked(c)[row] = sessions[row]
    BY DEF Revoked
  <1> QED BY <1>1, <1>3, <1>4, RowsRewritten

\* Every step keeps the invariant, and leaves what is revoked as it is.
LEMMA AuthStep ==
    ASSUME AuthInv, AuthNext
    PROVE  /\ AuthInv'
           /\ \A row \in DOMAIN sessions :
                 sessions[row].revoked # Never => sessions'[row] = sessions[row]
  <1>0. AuthTypeOK /\ authClock \in Nat /\ sessions \in Seq(Session)
        /\ DOMAIN sessions = 1..Len(sessions) /\ Len(sessions) \in Nat
    BY LenProperties DEF AuthInv, AuthTypeOK
  <1>1. CASE AuthTick
    BY <1>1 DEF AuthTick, AuthInv, AuthTypeOK, HeldIsLive, Open, HeldBy
  <1>2. ASSUME NEW c \in Callers, NEW op \in {"rotate", "touch", "revoke", "revoke_all"},
               NEW row \in Nat, Begin(c, op, row)
        PROVE  AuthInv' /\ sessions' = sessions
    <2> DEFINE x == [pc |-> "open", op |-> op, now |-> authClock, rows |-> {row}, held |-> {}]
    <2>1. /\ x \in [pc : {"open", "found"}, op : {"rotate", "touch", "revoke", "revoke_all"},
                    now : Nat, rows : SUBSET Nat, held : SUBSET Nat]
          /\ x.pc = "open" /\ x.held = {}
      BY <1>0
    <2>2. caller' = [caller EXCEPT ![c] = x] /\ UNCHANGED <<authClock, sessions>>
      BY <1>2 DEF Begin
    <2> HIDE DEF x
    <2> QED BY <2>1, <2>2, CallerStep
  <1>3. ASSUME NEW c \in Callers, RollBackCaller(c)
        PROVE  AuthInv' /\ sessions' = sessions
    BY <1>3, CallerStep DEF RollBackCaller
  <1>4. ASSUME NEW c \in Callers, FindRows(c)
        PROVE  AuthInv' /\ sessions' = sessions
    <2> DEFINE among == IF caller[c].op \in {"rotate", "revoke_all"} THEN DOMAIN sessions
                        ELSE caller[c].rows \cap DOMAIN sessions
               found == {r \in among : Matches(caller[c].op, sessions[r], Now(c))}
               x == [[caller[c] EXCEPT !.pc = "found"] EXCEPT !.rows = found]
    <2>1. Open(c) /\ caller[c].pc = "open" /\ caller[c].held = {}
      BY <1>4 DEF FindRows, AuthInv, HeldIsLive
    <2>2. found \subseteq DOMAIN sessions /\ found \in SUBSET Nat
      BY <1>0
    <2>3. /\ x \in [pc : {"open", "found"}, op : {"rotate", "touch", "revoke", "revoke_all"},
                    now : Nat, rows : SUBSET Nat, held : SUBSET Nat]
          /\ x.pc = "found" /\ x.held = {} /\ x.rows = found
      <3> HIDE DEF found
      <3> QED BY <1>0, <2>1, <2>2, OpenCaller
    <2>4. caller' = [caller EXCEPT ![c] = x] /\ UNCHANGED <<authClock, sessions>>
      BY <1>4 DEF FindRows
    <2> HIDE DEF x, found
    <2> QED BY <2>2, <2>3, <2>4, CallerStep
  <1>5. ASSUME NEW c \in Callers, LockRow(c)
        PROVE  AuthInv' /\ sessions' = sessions
    <2>1. /\ Open(c) /\ caller[c].pc = "found" /\ caller[c].rows \subseteq DOMAIN sessions
          /\ caller[c].held \subseteq DOMAIN sessions
          /\ \A row \in caller[c].held : sessions[row].revoked = Never /\ Free(c, row)
      BY <1>5 DEF LockRow, AuthInv, HeldIsLive, Free, HeldBy
    <2>2. PICK row \in caller[c].rows \ HeldBy(c) :
             /\ Free(c, row)
             /\ caller' = IF StillMatches(c, row)
                          THEN [caller EXCEPT ![c].held = @ \cup {row}]
                          ELSE [caller EXCEPT ![c].rows = @ \ {row}]
      BY <1>5 DEF LockRow
    <2>3. UNCHANGED <<authClock, sessions>>
      BY <1>5 DEF LockRow
    <2>4. CASE StillMatches(c, row)
      <3> DEFINE x == [caller[c] EXCEPT !.held = @ \cup {row}]
      <3>1. row \in Nat /\ row \in DOMAIN sessions
        BY <1>0, <2>1, <2>2
      <3>2. sessions[row].revoked = Never
        BY <2>4, MatchedIsLive DEF StillMatches
      <3>3. /\ x \in [pc : {"open", "found"}, op : {"rotate", "touch", "revoke", "revoke_all"},
                      now : Nat, rows : SUBSET Nat, held : SUBSET Nat]
            /\ x.pc = "found" /\ x.held = caller[c].held \cup {row} /\ x.rows = caller[c].rows
        BY <1>0, <2>1, <3>1, OpenCaller
      <3>4. caller' = [caller EXCEPT ![c] = x]
        BY <2>2, <2>4
      <3> HIDE DEF x
      <3>5. /\ x.held \subseteq DOMAIN sessions /\ x.rows \subseteq DOMAIN sessions
            /\ \A r \in x.held : sessions[r].revoked = Never /\ Free(c, r)
        BY <2>1, <2>2, <3>1, <3>2, <3>3
      <3> QED BY <2>3, <3>3, <3>4, <3>5, CallerStep
    <2>5. CASE ~StillMatches(c, row)
      <3> DEFINE x == [caller[c] EXCEPT !.rows = @ \ {row}]
      <3>1. /\ x \in [pc : {"open", "found"}, op : {"rotate", "touch", "revoke", "revoke_all"},
                      now : Nat, rows : SUBSET Nat, held : SUBSET Nat]
            /\ x.pc = "found" /\ x.held = caller[c].held /\ x.rows = caller[c].rows \ {row}
        BY <1>0, <2>1, OpenCaller
      <3>2. caller' = [caller EXCEPT ![c] = x]
        BY <2>2, <2>5
      <3> HIDE DEF x
      <3> QED BY <2>1, <2>3, <3>1, <3>2, CallerStep
    <2> QED BY <2>3, <2>4, <2>5
  <1>6. ASSUME NEW c \in Callers, RotateSession(c)
        PROVE  /\ AuthInv'
               /\ \A row \in DOMAIN sessions :
                     sessions[row].revoked # Never => sessions'[row] = sessions[row]
    <2>1. /\ Open(c) /\ sessions' = Append(Revoked(c), NewSession(Now(c)))
          /\ caller' = [caller EXCEPT ![c] = AtRest] /\ authClock' = authClock
      BY <1>6 DEF RotateSession, AllRowsLocked
    <2>2. NewSession(Now(c)) \in Session
      BY <1>0, <2>1, OpenCaller, AuthAssumption DEF NewSession, Session, Now, Never
    <2>3. /\ sessions' \in Seq(Session) /\ DOMAIN sessions \subseteq DOMAIN sessions'
          /\ \A row \in DOMAIN sessions : sessions'[row] = Revoked(c)[row]
      BY <1>0, <2>1, <2>2, RevokedRows, AppendProperties, LenProperties
    <2>4. \A row \in DOMAIN sessions \ HeldBy(c) : sessions'[row] = sessions[row]
      BY <2>1, <2>3, RevokedRows
    <2> QED BY <2>1, <2>3, <2>4, CommitStep
  <1>7. ASSUME NEW c \in Callers, RevokeSession(c)
        PROVE  /\ AuthInv'
               /\ \A row \in DOMAIN sessions :
                     sessions[row].revoked # Never => sessions'[row] = sessions[row]
    <2>1. /\ Open(c) /\ sessions' = Revoked(c)
          /\ caller' = [caller EXCEPT ![c] = AtRest] /\ authClock' = authClock
      BY <1>7 DEF RevokeSession, AllRowsLocked
    <2> QED BY <2>1, RevokedRows, CommitStep
  <1>8. ASSUME NEW c \in Callers, TouchActiveSession(c)
        PROVE  /\ AuthInv'
               /\ \A row \in DOMAIN sessions :
                     sessions[row].revoked # Never => sessions'[row] = sessions[row]
    <2> DEFINE touched(row) == [sessions[row] EXCEPT !.seen = Now(c),
                                   !.idle = Min({Now(c) + IdleFor, sessions[row].absolute})]
    <2>1. /\ Open(c)
          /\ sessions' = [row \in DOMAIN sessions |->
                IF row \in HeldBy(c) /\ sessions[row].seen <= Now(c) - TouchInterval
                THEN touched(row) ELSE sessions[row]]
          /\ caller' = [caller EXCEPT ![c] = AtRest] /\ authClock' = authClock
      <3>1. /\ Open(c) /\ caller' = [caller EXCEPT ![c] = AtRest] /\ authClock' = authClock
        BY <1>8 DEF TouchActiveSession, AllRowsLocked
      <3>2. sessions' = [row \in DOMAIN sessions |->
                IF row \in HeldBy(c) /\ sessions[row].seen <= Now(c) - TouchInterval
                THEN touched(row) ELSE sessions[row]]
        BY <1>8, Zenon DEF TouchActiveSession
      <3> QED BY <3>1, <3>2
    <2>2. Now(c) \in Int /\ Now(c) + IdleFor \in Int
      <3>1. Open(c)
        BY <2>1
      <3>2. Now(c) \in Nat
        BY <1>0, <3>1, OpenCaller DEF Now
      <3> QED BY <3>2, AuthAssumption
    <2>3. \A row \in DOMAIN sessions : sessions[row] \in Session /\ touched(row) \in Session
      <3> SUFFICES ASSUME NEW row \in DOMAIN sessions
                   PROVE  sessions[row] \in Session /\ touched(row) \in Session
        OBVIOUS
      <3>1. sessions[row] \in Session
        BY <1>0
      <3>2. Min({Now(c) + IdleFor, sessions[row].absolute}) \in Int
        BY <2>2, <3>1, MinOfTwo DEF Session
      <3> QED BY <2>2, <3>1, <3>2 DEF Session
    <2>4. /\ DOMAIN sessions' = DOMAIN sessions
          /\ sessions' = [row \in DOMAIN sessions |-> sessions'[row]]
          /\ \A row \in DOMAIN sessions : sessions'[row] \in Session
          /\ \A row \in DOMAIN sessions \ HeldBy(c) : sessions'[row] = sessions[row]
      <3> HIDE DEF touched
      <3> QED BY <2>1, <2>3
    <2> HIDE DEF touched
    <2>5. sessions' \in Seq(Session)
      BY <1>0, <2>4, RowsRewritten
    <2> QED BY <2>1, <2>4, <2>5, CommitStep
  <1> QED BY <1>0, <1>1, <1>2, <1>3, <1>4, <1>5, <1>6, <1>7, <1>8 DEF AuthNext, AuthTick

\* A sign-out is final, whichever sign-ins, touches and other sign-outs overlap
\* it and in whatever order they wait for the rows.
THEOREM SignOutIsFinal == AuthSpec => RevokedIsFinal
  <1>1. AuthInit => AuthInv
    <2> SUFFICES ASSUME AuthInit PROVE AuthInv
      OBVIOUS
    <2>1. \A c \in Callers : ~Open(c) /\ HeldBy(c) = {}
      BY DEF AuthInit, Open, HeldBy
    <2> QED BY <2>1 DEF AuthInit, AuthInv, AuthTypeOK, HeldIsLive
  <1>2. AuthInv /\ [AuthNext]_authVars =>
           AuthInv' /\ [\A row \in DOMAIN sessions :
              sessions[row].revoked # Never => sessions'[row] = sessions[row]]_authVars
    <2> SUFFICES ASSUME AuthInv, [AuthNext]_authVars
                 PROVE  AuthInv' /\ [\A row \in DOMAIN sessions :
                    sessions[row].revoked # Never => sessions'[row] = sessions[row]]_authVars
      OBVIOUS
    <2>1. CASE AuthNext
      BY <2>1, AuthStep
    <2>2. CASE UNCHANGED authVars
      BY <2>2 DEF authVars, AuthInv, AuthTypeOK, HeldIsLive, Open, HeldBy
    <2> QED BY <2>1, <2>2
  <1> QED BY <1>1, <1>2, PTL DEF AuthSpec, RevokedIsFinal

=============================================================================
