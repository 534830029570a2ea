------------------------------ MODULE AuthSessions ------------------------------
(***************************************************************************)
(* The server-side sessions of AuthRepository (auth/repository.py), those   *)
(* of the one local administrator.  Every operation is a READ COMMITTED     *)
(* transaction of a caller who read its clock before: a statement first     *)
(* finds its rows among the committed ones, waits for those that another    *)
(* transaction holds, and looks at each of them again.                      *)
(***************************************************************************)
EXTENDS Integers, Sequences, FiniteSets, FiniteSetsExt

CONSTANTS
    Callers,                     \* transactions that may be open at once
    IdleFor, AbsoluteFor, TouchInterval,
    MaxAuthClock, MaxSessions   \* bounds of the instance

ASSUME AuthAssumption ==
    /\ {IdleFor, AbsoluteFor, TouchInterval} \subseteq Nat \ {0}
    /\ IdleFor <= AbsoluteFor

Never == -1

VARIABLES
    authClock,
    sessions,    \* the rows of auth_sessions, by the order of their creation
    caller       \* what each transaction is doing

authVars == <<authClock, sessions, caller>>

AtRest == [pc |-> "rest"]

AuthInit ==
    /\ authClock = 0
    /\ sessions = <<>>
    /\ caller = [c \in Callers |-> AtRest]

AuthTick ==
    /\ authClock < MaxAuthClock
    /\ authClock' = authClock + 1
    /\ UNCHANGED <<sessions, caller>>

Open(c) == caller[c] # AtRest
Now(c)  == caller[c].now

\* The rows a transaction has locked.
HeldBy(c) == IF Open(c) THEN caller[c].held ELSE {}
Free(c, row) == \A other \in Callers \ {c} : row \notin HeldBy(other)

Begin(c, op, row) ==
    /\ caller[c] = AtRest
    /\ caller' = [caller EXCEPT ![c] =
                    [pc |-> "open", op |-> op, now |-> authClock, rows |-> {row}, held |-> {}]]
    /\ UNCHANGED <<authClock, sessions>>

RollBackCaller(c) ==
    /\ Open(c)
    /\ caller' = [caller EXCEPT ![c] = AtRest]
    /\ UNCHANGED <<authClock, sessions>>

-----------------------------------------------------------------------------
(* Sessions.                                                                *)

IsActive(s, now) == s.revoked = Never /\ now < s.idle /\ now < s.absolute

\* The condition of each statement on a row.
Matches(op, s, now) ==
    IF op \in {"revoke", "revoke_all"} THEN s.revoked = Never ELSE IsActive(s, now)

\* Fault: a row that was waited for is written as it was found.
StillMatches_AsFound(c, row) == TRUE

StillMatches(c, row) == Matches(caller[c].op, sessions[row], Now(c))

\* rotate_session, touch_active_session and the revoke_ operations find rows:
\* the active ones of the user, or the one with a digest.
FindRows(c) ==
    /\ Open(c) /\ caller[c].pc = "open"
    /\ LET among == IF caller[c].op \in {"rotate", "revoke_all"} THEN DOMAIN sessions
                                               ELSE caller[c].rows \cap DOMAIN sessions
       IN caller' = [caller EXCEPT ![c].pc = "found",
                        ![c].rows = {r \in among : Matches(caller[c].op, sessions[r], Now(c))}]
    /\ UNCHANGED <<authClock, sessions>>

\* One more row is locked, and dropped if it does not match any more.
LockRow(c) ==
    /\ Open(c) /\ caller[c].pc = "found"
    /\ \E row \in caller[c].rows \ HeldBy(c) :
          /\ Free(c, row)
          /\ caller' = IF StillMatches(c, row)
                       THEN [caller EXCEPT ![c].held = @ \cup {row}]
                       ELSE [caller EXCEPT ![c].rows = @ \ {row}]
    /\ UNCHANGED <<authClock, sessions>>

AllRowsLocked(c) == Open(c) /\ caller[c].pc = "found" /\ caller[c].rows = HeldBy(c)

\* The table forbids a revocation before the creation: the transaction of a
\* caller whose clock is older than the session fails.
MayRevoke(c) == \A row \in HeldBy(c) : Now(c) >= sessions[row].created

Revoked(c) == [row \in DOMAIN sessions |->
    IF row \in HeldBy(c) THEN [sessions[row] EXCEPT !.revoked = Now(c)] ELSE sessions[row]]

NewSession(now) ==
    [created |-> now, seen |-> now, idle |-> now + IdleFor, absolute |-> now + AbsoluteFor,
     revoked |-> Never]

RotateSession(c) ==
    /\ AllRowsLocked(c) /\ caller[c].op = "rotate"
    /\ MayRevoke(c)
    /\ Len(sessions) < MaxSessions
    /\ sessions' = Append(Revoked(c), NewSession(Now(c)))
    /\ caller' = [caller EXCEPT ![c] = AtRest]
    /\ UNCHANGED authClock

RevokeSession(c) ==
    /\ AllRowsLocked(c) /\ caller[c].op \in {"revoke", "revoke_all"}
    /\ MayRevoke(c)
    /\ sessions' = Revoked(c)
    /\ caller' = [caller EXCEPT ![c] = AtRest]
    /\ UNCHANGED authClock

\* At most once in TouchInterval; never beyond the absolute end.
TouchActiveSession(c) ==
    /\ AllRowsLocked(c) /\ caller[c].op = "touch"
    /\ sessions' = [row \in DOMAIN sessions |->
          LET s == sessions[row]
          IN IF row \in HeldBy(c) /\ s.seen <= Now(c) - TouchInterval
             THEN [s EXCEPT !.seen = Now(c), !.idle = Min({Now(c) + IdleFor, s.absolute})]
             ELSE s]
    /\ caller' = [caller EXCEPT ![c] = AtRest]
    /\ UNCHANGED authClock

-----------------------------------------------------------------------------

AuthNext ==
    \/ AuthTick
    \/ \E c \in Callers :
          \/ \E op \in {"rotate", "revoke_all"} : Begin(c, op, 0)
          \/ \E op \in {"touch", "revoke"}, row \in DOMAIN sessions : Begin(c, op, row)
          \/ RollBackCaller(c)
          \/ FindRows(c) \/ LockRow(c)
          \/ RotateSession(c) \/ RevokeSession(c) \/ TouchActiveSession(c)

AuthSpec == AuthInit /\ [][AuthNext]_authVars

-----------------------------------------------------------------------------

\* A sign-out is final: no touch, sign-in or sign-out that overlaps it writes
\* to the session it revoked, however long it waited for the row.
RevokedIsFinal ==
    [][\A row \in DOMAIN sessions :
          sessions[row].revoked # Never => sessions'[row] = sessions[row]]_authVars
=============================================================================
