------------------------------ MODULE LoginAccount ------------------------------
(***************************************************************************)
(* The one row of auth_users (auth/repository.py): the local administrator  *)
(* who is created once, and the count of failed sign-ins.  An operation is  *)
(* a transaction of a caller who read its clock before.                     *)
(***************************************************************************)
EXTENDS Integers, Sequences

CONSTANTS
    SignIns,                      \* transactions that may be open at once
    MaxLoginClock, MaxFailures    \* bounds of the instance

NotLocked == -1

VARIABLES
    loginClock,
    account,      \* no row, or the administrator's
    failures,     \* failed sign-ins that were committed since the last success
    signIn        \* what each transaction is doing

loginVars == <<loginClock, account, failures, signIn>>

NoSignIn == [pc |-> "rest"]

LoginInit ==
    /\ loginClock = 0
    /\ account = <<>>
    /\ failures = 0
    /\ signIn = [t \in SignIns |-> NoSignIn]

LoginTick ==
    /\ loginClock < MaxLoginClock
    /\ loginClock' = loginClock + 1
    /\ UNCHANGED <<account, failures, signIn>>

BeginSignIn(t, op) ==
    /\ signIn[t] = NoSignIn
    /\ signIn' = [signIn EXCEPT ![t] = [pc |-> "begun", op |-> op, now |-> loginClock]]
    /\ UNCHANGED <<loginClock, account, failures>>

RollBackSignIn(t) ==
    /\ signIn[t] # NoSignIn
    /\ signIn' = [signIn EXCEPT ![t] = NoSignIn]
    /\ UNCHANGED <<loginClock, account, failures>>

InLogin(t, op, pc) == signIn[t] # NoSignIn /\ signIn[t].op = op /\ signIn[t].pc = pc

\* The bootstrap lock, or the row of the account.
HoldsLock(t) == signIn[t] # NoSignIn /\ signIn[t].pc \in {"counted", "locked"}

\* Fault: SELECT without FOR UPDATE reads a row that another one is changing.
MayLock_Never(t, op) == TRUE

\* Two failures wait for one another, as two bootstraps do.
MayLock(t, op) ==
    \A other \in SignIns \ {t} :
        HoldsLock(other) => (signIn[other].op = "bootstrap") # (op = "bootstrap")

\* create_initial_user: the advisory lock, then how many users there are.
CountUsers(t) ==
    /\ InLogin(t, "bootstrap", "begun")
    /\ MayLock(t, "bootstrap")
    /\ signIn' = [signIn EXCEPT ![t] = [pc |-> "counted", op |-> "bootstrap",
                                          now |-> @.now, users |-> Len(account)]]
    /\ UNCHANGED <<loginClock, account, failures>>

\* BootstrapConflictError unless there was none.
CreateInitialUser(t) ==
    /\ InLogin(t, "bootstrap", "counted")
    /\ account' = IF signIn[t].users = 0
                  THEN Append(account, [attempts |-> 0, lockedUntil |-> NotLocked])
                  ELSE account
    /\ signIn' = [signIn EXCEPT ![t] = NoSignIn]
    /\ UNCHANGED <<loginClock, failures>>

\* SELECT ... FOR UPDATE; AuthStorageError when there is no user.
LockAccount(t, op) ==
    /\ InLogin(t, op, "begun")
    /\ account # <<>>
    /\ MayLock(t, op)
    /\ signIn' = [signIn EXCEPT ![t] = [pc |-> "locked", op |-> op, now |-> @.now,
                                          read |-> account[1]]]
    /\ UNCHANGED <<loginClock, account, failures>>

\* Half a minute from the fifth failure on, twice as long each time, and a
\* quarter of an hour from the tenth.
LockDelay(attempts) == IF attempts >= 10 THEN 15 * 60 ELSE 30 * 2 ^ (attempts - 5)

RecordLoginFailure(t) ==
    /\ InLogin(t, "failure", "locked")
    /\ failures < MaxFailures
    /\ LET attempts == signIn[t].read.attempts + 1
       IN account' = [account EXCEPT ![1] =
            [attempts |-> attempts,
             lockedUntil |-> IF attempts >= 5 THEN signIn[t].now + LockDelay(attempts)
                             ELSE signIn[t].read.lockedUntil]]
    /\ failures' = failures + 1
    /\ signIn' = [signIn EXCEPT ![t] = NoSignIn]
    /\ UNCHANGED loginClock

RecordLoginSuccess(t) ==
    /\ InLogin(t, "success", "locked")
    /\ account' = [account EXCEPT ![1] = [attempts |-> 0, lockedUntil |-> NotLocked]]
    /\ failures' = 0
    /\ signIn' = [signIn EXCEPT ![t] = NoSignIn]
    /\ UNCHANGED loginClock

LoginNext ==
    \/ LoginTick
    \/ \E t \in SignIns :
          \/ \E op \in {"bootstrap", "failure", "success"} : BeginSignIn(t, op)
          \/ \E op \in {"failure", "success"} : LockAccount(t, op)
          \/ CountUsers(t) \/ CreateInitialUser(t)
          \/ RecordLoginFailure(t) \/ RecordLoginSuccess(t) \/ RollBackSignIn(t)

LoginSpec == LoginInit /\ [][LoginNext]_loginVars

-----------------------------------------------------------------------------

\* The lockout of ADR-010: there is one administrator at most, no failed
\* sign-in is lost whichever others are recorded meanwhile, and from the fifth
\* on the account is locked until half a minute or more after one of them.
EveryFailureCounts ==
    /\ Len(account) <= 1
    /\ account # <<>> => account[1].attempts = failures
    /\ failures >= 5 => account[1].lockedUntil >= 30
=============================================================================
