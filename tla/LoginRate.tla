------------------------------- MODULE LoginRate -------------------------------
(***************************************************************************)
(* LoginRateRepository (auth/repository.py): attempts to sign in reserve a  *)
(* place in the sliding window of their user name and in that of their      *)
(* client address.  An attempt is a transaction.  The caller reads its      *)
(* clock before the transaction, so an attempt that waits for its locks     *)
(* goes on with a time that is past.                                        *)
(***************************************************************************)
EXTENDS Integers, FiniteSets

CONSTANTS
    Attempts,           \* transactions that may be open at once
    Usernames, Clients, \* digests of user names and of client addresses
    LockKey,            \* the advisory lock of each digest
    UsernameLimit, UsernameWindow, ClientLimit, ClientWindow,
    MaxRateClock, MaxReservations   \* bounds of the instance

ASSUME LoginRateAssumption ==
    /\ LockKey \in [Usernames \cup Clients -> Int]
    /\ {UsernameLimit, UsernameWindow, ClientLimit, ClientWindow} \subseteq Nat \ {0}

VARIABLES
    rateClock,          \* the callers' clocks
    attempt,            \* what each transaction is doing, with its locks
    reservations,       \* the committed rows
    reserved            \* every row there ever was

rateVars == <<rateClock, attempt, reservations, reserved>>

Resting == [pc |-> "rest"]

RateInit ==
    /\ rateClock = 0
    /\ attempt = [a \in Attempts |-> Resting]
    /\ reservations = {}
    /\ reserved = {}

RateTick ==
    /\ rateClock < MaxRateClock
    /\ rateClock' = rateClock + 1
    /\ UNCHANGED <<attempt, reservations, reserved>>

Reserve(a, u, c) ==
    /\ attempt[a] = Resting
    /\ attempt' = [attempt EXCEPT ![a] = [pc |-> "open", user |-> u, client |-> c,
                                           now |-> rateClock, locks |-> {},
                                           allowed |-> "unknown"]]
    /\ UNCHANGED <<rateClock, reservations, reserved>>

\* Two digests may share a key, which is then taken once.
KeysOf(a) == {LockKey[attempt[a].user], LockKey[attempt[a].client]}

Missing(a) == KeysOf(a) \ attempt[a].locks

\* Fault: the locks are taken in the order a set happens to have.
NextKeys_AnyOrder(a) == Missing(a)

\* sorted(): the smallest key first.
NextKeys(a) == {k \in Missing(a) : \A other \in Missing(a) : k <= other}

HeldByOther(a, key) ==
    \E b \in Attempts \ {a} : attempt[b] # Resting /\ key \in attempt[b].locks

\* Fault: a user name is counted without the lock of the client.
AllLocked_OneIsEnough(a) == attempt[a].locks # {}

AllLocked(a) == Missing(a) = {}

TakeLock(a) ==
    /\ attempt[a] # Resting /\ attempt[a].allowed = "unknown"
    /\ \E key \in NextKeys(a) :
          /\ ~HeldByOther(a, key)
          /\ attempt' = [attempt EXCEPT ![a].locks = @ \cup {key}]
    /\ UNCHANGED <<rateClock, reservations, reserved>>

\* _window_state, without an upper end: later rows of faster callers count.
InWindow(rows, dimension, subject, after) ==
    {r \in rows : r.dimension = dimension /\ r.subject = subject /\ r.at > after}

Allowed(a) ==
    LET x == attempt[a] IN
    /\ Cardinality(InWindow(reservations, "username", x.user, x.now - UsernameWindow))
          < UsernameLimit
    /\ Cardinality(InWindow(reservations, "client", x.client, x.now - ClientWindow))
          < ClientLimit

\* The rows of one attempt, told apart by how many there were before.
RowsOf(a) ==
    LET x == attempt[a] id == Cardinality(reserved) IN
    {[id |-> id, dimension |-> "username", subject |-> x.user, at |-> x.now],
     [id |-> id, dimension |-> "client", subject |-> x.client, at |-> x.now]}

\* Both windows are counted with both locks.
CountWindows(a) ==
    /\ attempt[a] # Resting /\ attempt[a].allowed = "unknown"
    /\ AllLocked(a)
    /\ attempt' = [attempt EXCEPT ![a].allowed = IF Allowed(a) THEN "yes" ELSE "no"]
    /\ UNCHANGED <<rateClock, reservations, reserved>>

\* An attempt that is refused leaves no row; the commit releases the locks.
CommitAttempt(a) ==
    /\ attempt[a] # Resting /\ attempt[a].allowed # "unknown"
    /\ IF attempt[a].allowed = "yes"
       THEN /\ Cardinality(reserved) < MaxReservations
            /\ reservations' = reservations \cup RowsOf(a)
            /\ reserved' = reserved \cup RowsOf(a)
       ELSE UNCHANGED <<reservations, reserved>>
    /\ attempt' = [attempt EXCEPT ![a] = Resting]
    /\ UNCHANGED rateClock

\* The connection is lost: nothing is kept, and the locks are free.
RollBack(a) ==
    /\ attempt[a] # Resting
    /\ attempt' = [attempt EXCEPT ![a] = Resting]
    /\ UNCHANGED <<rateClock, reservations, reserved>>

\* prune_before.  It has no caller yet; one that keeps the windows of the
\* attempts that are open is assumed.
PruneBefore ==
    LET times == {rateClock} \cup {attempt[a].now : a \in {b \in Attempts : attempt[b] # Resting}}
        kept  == {r \in reservations :
                    \E now \in times, w \in {UsernameWindow, ClientWindow} : r.at >= now - w}
    IN /\ kept # reservations
       /\ reservations' = kept
       /\ UNCHANGED <<rateClock, attempt, reserved>>

RateNext ==
    \/ RateTick
    \/ PruneBefore
    \/ \E a \in Attempts :
          \/ \E u \in Usernames, c \in Clients : Reserve(a, u, c)
          \/ TakeLock(a) \/ CountWindows(a) \/ CommitAttempt(a) \/ RollBack(a)

RateSpec == RateInit /\ [][RateNext]_rateVars

-----------------------------------------------------------------------------

\* ADR-010: in no window are there more sign-ins of a user name, or of a
\* client, than the limit, whichever replicas and however late they reserve.
WindowsHold ==
    \A end \in 0..MaxRateClock :
        LET Upto(rows) == {r \in rows : r.at <= end} IN
        /\ \A u \in Usernames : Cardinality(
              Upto(InWindow(reserved, "username", u, end - UsernameWindow))) <= UsernameLimit
        /\ \A c \in Clients : Cardinality(
              Upto(InWindow(reserved, "client", c, end - ClientWindow))) <= ClientLimit

\* Two attempts never wait for each other: of those that are open, one can
\* always take its next lock or decide.
SomeAttemptProceeds ==
    LET open == {a \in Attempts : attempt[a] # Resting} IN
    open # {} =>
        \E a \in open : Missing(a) = {} \/ \E key \in NextKeys(a) : ~HeldByOther(a, key)
=============================================================================
