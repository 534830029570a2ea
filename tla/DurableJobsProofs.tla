------------------------- MODULE DurableJobsProofs -------------------------
(***************************************************************************)
(* Proofs about DurableJobs, for any sets of jobs and workers and any       *)
(* durations that satisfy the assumptions of that module.                   *)
(***************************************************************************)
EXTENDS DurableJobs, TLAPS

\* What each row satisfies between transactions.
RowInv ==
    \A j \in Jobs :
        /\ job[j].status = "absent" => job[j].attempts = 0
        /\ job[j].status = "queued" => job[j].attempts < MaxAttempts
        /\ job[j].status = "running" => job[j].attempts > 0
        /\ job[j].status = "running" => job[j].lease_token = job[j].attempts
        /\ job[j].status = "succeeded" => job[j].result = job[j].attempts

\* The row an open claim has locked stays claimable for it until it commits.
ClaimInv ==
    \A w \in Workers : pc[w] = "claimed" =>
        /\ lease[w] \in Leases
        /\ Claimable(lease[w].job, w)
        /\ lease[w].token = job[lease[w].job].attempts + 1

\* FOR UPDATE: no two open claims have locked the same row.
LockInv ==
    \A v, w \in Workers :
        v # w /\ pc[v] = "claimed" /\ pc[w] = "claimed"
           => lease[v].job # lease[w].job

\* A lease in a worker's memory was issued by a committed claim.
HolderInv ==
    \A w \in Workers : HoldsLease(w) =>
        /\ lease[w] \in Leases
        /\ lease[w].token <= job[lease[w].job].attempts

\* The two tasks of an execution that is under way.
BeatInv ==
    \A w \in Workers :
        /\ pc[w] = "executing" <=> beat[w].phase # "off"
        /\ beat[w].phase = "sleeping" => beat[w].age <= HeartbeatEvery
        /\ beat[w].phase = "renewing" => beat[w].age <= MaxTxnAge

Owner(w) ==
    /\ job[lease[w].job].status = "running"
    /\ job[lease[w].job].lease_token = lease[w].token

\* How much of its lease a punctual worker has left, by what it is doing.
TimeLeft(w) ==
    IF pc[w] = "finishing"
    THEN LeaseFor - 2 * MaxTxnAge - HeartbeatEvery - age[w]
    ELSE IF beat[w].phase = "sleeping"
         THEN LeaseFor - MaxTxnAge - beat[w].age
         ELSE LeaseFor - MaxTxnAge - HeartbeatEvery - beat[w].age

PunctualInv ==
    \A w \in Workers : HoldsLease(w) /\ punctual[w] =>
        /\ Owner(w)
        /\ job[lease[w].job].lease_expires_at >= TimeLeft(w)

IInv ==
    /\ TypeOK
    /\ RowInv
    /\ ClaimInv
    /\ LockInv
    /\ HolderInv
    /\ OneOwner
    /\ BeatInv
    /\ PunctualInv

-----------------------------------------------------------------------------
(* The steps that leave the table alone.                                    *)

\* Init establishes the invariant.
LEMMA InitIInv == Init => IInv
  BY ConstantsAssumption
     DEF Init, IInv, TypeOK, Row, Instants, Leases, BeatOff, RowInv, ClaimInv,
         LockInv, HolderInv, OneOwner, BeatInv, PunctualInv, HoldsLease

\* A worker that loses its memory (crash, exit, lost lease) breaks nothing.
LEMMA ExitIInv ==
    ASSUME IInv, NEW w \in Workers, Exit(w), UNCHANGED job
    PROVE  IInv'
  <1> USE DEF IInv, Exit, BeatOff
  <1>1. TypeOK'
    BY ConstantsAssumption DEF TypeOK
  <1>2. RowInv' /\ LockInv' /\ OneOwner' /\ BeatInv'
    BY DEF TypeOK, RowInv, LockInv, OneOwner, HoldsLease, BeatInv
  <1>3. ClaimInv'
    BY DEF TypeOK, ClaimInv, Claimable, Due
  <1>4. HolderInv'
    BY DEF TypeOK, HolderInv, HoldsLease
  <1>5. PunctualInv'
    BY DEF TypeOK, PunctualInv, HoldsLease, Owner, TimeLeft
  <1> QED BY <1>1, <1>2, <1>3, <1>4, <1>5

\* A worker starts.
LEMMA StartIInv ==
    ASSUME IInv, NEW w \in Workers, Start(w)
    PROVE  IInv'
  <1> USE DEF IInv, Start
  <1>1. TypeOK'
    BY ConstantsAssumption DEF TypeOK
  <1>2. RowInv' /\ LockInv' /\ OneOwner' /\ BeatInv'
    BY ConstantsAssumption DEF TypeOK, RowInv, LockInv, OneOwner, HoldsLease, BeatInv
  <1>3. ClaimInv'
    BY DEF TypeOK, ClaimInv, Claimable, Due
  <1>4. HolderInv'
    BY DEF TypeOK, HolderInv, HoldsLease
  <1>5. PunctualInv'
    BY DEF TypeOK, PunctualInv, HoldsLease, Owner, TimeLeft
  <1> QED BY <1>1, <1>2, <1>3, <1>4, <1>5

\* A stop event is set.
LEMMA SigtermIInv ==
    ASSUME IInv, NEW w \in Workers, Sigterm(w)
    PROVE  IInv'
  <1> USE DEF IInv, Sigterm
  <1>1. TypeOK'
    BY ConstantsAssumption DEF TypeOK
  <1>2. RowInv' /\ LockInv' /\ OneOwner' /\ BeatInv'
    BY ConstantsAssumption DEF TypeOK, RowInv, LockInv, OneOwner, HoldsLease, BeatInv
  <1>3. ClaimInv'
    BY DEF TypeOK, ClaimInv, Claimable, Due
  <1>4. HolderInv'
    BY DEF TypeOK, HolderInv, HoldsLease
  <1>5. PunctualInv'
    BY DEF TypeOK, PunctualInv, HoldsLease, Owner, TimeLeft
  <1> QED BY <1>1, <1>2, <1>3, <1>4, <1>5

\* A worker falls behind.
LEMMA StallIInv ==
    ASSUME IInv, NEW w \in Workers, Stall(w)
    PROVE  IInv'
  <1> USE DEF IInv, Stall
  <1>1. TypeOK'
    BY ConstantsAssumption DEF TypeOK
  <1>2. RowInv' /\ LockInv' /\ OneOwner' /\ BeatInv'
    BY ConstantsAssumption DEF TypeOK, RowInv, LockInv, OneOwner, HoldsLease, BeatInv
  <1>3. ClaimInv'
    BY DEF TypeOK, ClaimInv, Claimable, Due
  <1>4. HolderInv'
    BY DEF TypeOK, HolderInv, HoldsLease
  <1>5. PunctualInv'
    BY DEF TypeOK, PunctualInv, HoldsLease, Owner, TimeLeft
  <1> QED BY <1>1, <1>2, <1>3, <1>4, <1>5

\* A claim begins.
LEMMA BeginClaimIInv ==
    ASSUME IInv, NEW w \in Workers, BeginClaim(w)
    PROVE  IInv'
  <1> USE DEF IInv, BeginClaim
  <1>1. TypeOK'
    BY ConstantsAssumption DEF TypeOK
  <1>2. RowInv' /\ LockInv' /\ OneOwner' /\ BeatInv'
    BY ConstantsAssumption DEF TypeOK, RowInv, LockInv, OneOwner, HoldsLease, BeatInv
  <1>3. ClaimInv'
    BY DEF TypeOK, ClaimInv, Claimable, Due
  <1>4. HolderInv'
    BY DEF TypeOK, HolderInv, HoldsLease
  <1>5. PunctualInv'
    BY DEF TypeOK, PunctualInv, HoldsLease, Owner, TimeLeft
  <1> QED BY <1>1, <1>2, <1>3, <1>4, <1>5

\* A renewal begins.
LEMMA BeginRenewIInv ==
    ASSUME IInv, NEW w \in Workers, BeginRenew(w)
    PROVE  IInv'
  <1> USE DEF IInv, BeginRenew
  <1>1. TypeOK'
    BY ConstantsAssumption DEF TypeOK
  <1>2. RowInv' /\ LockInv' /\ OneOwner' /\ BeatInv'
    BY ConstantsAssumption DEF TypeOK, RowInv, LockInv, OneOwner, HoldsLease, BeatInv
  <1>3. ClaimInv'
    BY DEF TypeOK, ClaimInv, Claimable, Due
  <1>4. HolderInv'
    BY DEF TypeOK, HolderInv, HoldsLease
  <1>5. PunctualInv'
    BY ConstantsAssumption DEF TypeOK, Row, Instants, Leases, BeatInv, HolderInv,
       PunctualInv, HoldsLease, Owner, TimeLeft
  <1> QED BY <1>1, <1>2, <1>3, <1>4, <1>5

\* An execution ends; the open renewal, if any, is gone.
LEMMA FinishWithIInv ==
    ASSUME IInv, NEW w \in Workers, NEW v \in {"complete", "retry", "shutdown"}, FinishWith(w, v)
    PROVE  IInv'
  <1> USE DEF IInv, FinishWith, BeatOff
  <1>1. TypeOK'
    BY ConstantsAssumption DEF TypeOK
  <1>2. RowInv' /\ LockInv' /\ OneOwner' /\ BeatInv'
    BY ConstantsAssumption DEF TypeOK, RowInv, LockInv, OneOwner, HoldsLease, BeatInv
  <1>3. ClaimInv'
    BY DEF TypeOK, ClaimInv, Claimable, Due
  <1>4. HolderInv'
    BY DEF TypeOK, HolderInv, HoldsLease
  <1>5. PunctualInv'
    BY ConstantsAssumption DEF TypeOK, Row, Instants, Leases, BeatInv, HolderInv,
       PunctualInv, HoldsLease, Owner, TimeLeft
  <1> QED BY <1>1, <1>2, <1>3, <1>4, <1>5

\* A claim locks a row that no other open claim has locked.
LEMMA ClaimSelectIInv ==
    ASSUME IInv, NEW w \in Workers, NEW j \in Jobs, ClaimSelect(w, j)
    PROVE  IInv'
  <1> USE DEF IInv, ClaimSelect
  <1>0. [job |-> j, token |-> job[j].attempts + 1] \in Leases
    BY ConstantsAssumption DEF TypeOK, Row, Claimable, Leases
  <1>1. TypeOK'
    BY <1>0 DEF TypeOK
  <1>2. RowInv' /\ OneOwner' /\ BeatInv'
    BY DEF TypeOK, RowInv, OneOwner, HoldsLease, BeatInv
  <1>3. ClaimInv'
    BY <1>0 DEF TypeOK, ClaimInv, Claimable, Due
  <1>4. LockInv'
    BY DEF TypeOK, LockInv, LockedByClaim
  <1>5. HolderInv'
    BY DEF TypeOK, HolderInv, HoldsLease
  <1>6. PunctualInv'
    BY DEF TypeOK, PunctualInv, HoldsLease, Owner, TimeLeft
  <1> QED BY <1>1, <1>2, <1>3, <1>4, <1>5, <1>6

-----------------------------------------------------------------------------
\* The instants the table can hold.
LEMMA InstantValues ==
    /\ Instants \subseteq Int
    /\ 0 \in Instants
    /\ \A a \in 0..MaxTxnAge :
          /\ LeaseFor - a \in Instants
          /\ RetryAfter - a \in Instants
          /\ ShutdownRetryAfter - a \in Instants
    /\ \A t \in Instants : Earlier(t) \in Instants
  BY ConstantsAssumption DEF Instants, Earlier

-----------------------------------------------------------------------------
(* The steps that change rows.                                              *)

\* While a worker is punctual its lease has time left, so the row is neither
\* swept nor claimable, in whatever transaction.
LEMMA PunctualAlive ==
    ASSUME IInv, NEW w \in Workers, HoldsLease(w), punctual[w]
    PROVE  job[lease[w].job].lease_expires_at > 0
  <1>1. lease[w].job \in Jobs /\ job[lease[w].job].lease_expires_at \in Int
    BY DEF IInv, TypeOK, Row, Instants, HolderInv, Leases
  <1>2. TimeLeft(w) \in Int /\ TimeLeft(w) > 0
    BY ConstantsAssumption, LeaseOutlivesHeartbeat
       DEF IInv, TypeOK, TimeLeft, BeatInv, HoldsLease
  <1> QED BY <1>1, <1>2 DEF IInv, PunctualInv

\* The first enqueue of a dedupe key makes a fresh row; the others nothing.
LEMMA EnqueueIInv ==
    ASSUME IInv, NEW j \in Jobs, Enqueue(j)
    PROVE  IInv'
  <1> USE DEF IInv, Enqueue
  <1>1. TypeOK'
    <2>1. /\ [job[j] EXCEPT !.status = "queued", !.available_at = 0] \in Row
          /\ job \in [Jobs -> Row]
      BY InstantValues DEF TypeOK, Row
    <2>2. job' = [job EXCEPT ![j] = [job[j] EXCEPT !.status = "queued",
                                                   !.available_at = 0]]
          \/ job' = job
      BY DEF TypeOK, Row
    <2> QED BY <2>1, <2>2 DEF TypeOK
  <1>2. RowInv' /\ LockInv' /\ OneOwner' /\ BeatInv'
    BY ConstantsAssumption
       DEF TypeOK, Row, RowInv, LockInv, OneOwner, HoldsLease, BeatInv
  <1>3. ClaimInv'
    BY DEF TypeOK, Row, Leases, ClaimInv, Claimable, Due
  <1>4. HolderInv'
    BY DEF TypeOK, Row, Leases, HolderInv, HoldsLease
  <1>5. PunctualInv'
    <2> SUFFICES ASSUME NEW v \in Workers, HoldsLease(v), punctual[v]
                 PROVE  (/\ Owner(v)
                         /\ job[lease[v].job].lease_expires_at >= TimeLeft(v))'
      BY DEF PunctualInv, HoldsLease
    <2>1. lease[v].job \in Jobs /\ Owner(v)
      BY DEF PunctualInv, HolderInv, Leases
    <2>2. job'[lease[v].job] = job[lease[v].job]
      BY <2>1 DEF Owner, TypeOK
    <2> QED BY <2>2 DEF PunctualInv, Owner, TimeLeft
  <1> QED BY <1>1, <1>2, <1>3, <1>4, <1>5

\* What the sweep at the head of claim_next does to each row.
LEMMA SweptRows ==
    ASSUME IInv, NEW w \in Workers, NEW j \in Jobs
    PROVE  /\ Swept(w)[j] \in Row
           /\ Swept(w)[j].attempts = job[j].attempts
           /\ Swept(w)[j].result = job[j].result
           /\ Swept(w)[j] = job[j]
              \/ /\ Swept(w)[j].status = "dead"
                 /\ Exhausted(j, w)
  <1>1. job[j] \in Row
    BY DEF IInv, TypeOK
  <1>2. /\ DeadRow(job[j]) \in Row
        /\ DeadRow(job[j]).status = "dead"
        /\ DeadRow(job[j]).attempts = job[j].attempts
        /\ DeadRow(job[j]).result = job[j].result
    <2>1. 0 \in 0..MaxAttempts /\ 0 \in Instants
      BY InstantValues, ConstantsAssumption
    <2> QED BY <1>1, <2>1 DEF DeadRow, Row
  <1>3. Swept(w)[j] = IF Exhausted(j, w) THEN DeadRow(job[j]) ELSE job[j]
    BY DEF Swept
  <1> QED BY <1>1, <1>2, <1>3

\* An idle claim commits its sweep only.
LEMMA ClaimNoneIInv ==
    ASSUME IInv, NEW w \in Workers, ClaimNone(w)
    PROVE  IInv'
  <1> USE DEF IInv, ClaimNone
  <1>0. /\ job' = [j \in Jobs |-> Swept(w)[j]]
        /\ \A j \in Jobs : job'[j] = Swept(w)[j]
    BY DEF Swept
  <1>1. TypeOK'
    BY <1>0, SweptRows, ConstantsAssumption DEF TypeOK
  <1>2. RowInv'
    BY <1>0, SweptRows DEF RowInv
  <1>3. LockInv' /\ OneOwner' /\ BeatInv'
    BY DEF TypeOK, LockInv, OneOwner, HoldsLease, BeatInv
  <1>4. ClaimInv'
    BY <1>0, SweptRows, ConstantsAssumption
       DEF TypeOK, Row, Leases, ClaimInv, Claimable, Due, Exhausted
  <1>5. HolderInv'
    BY <1>0, SweptRows DEF TypeOK, Leases, HolderInv, HoldsLease
  <1>6. PunctualInv'
    <2> SUFFICES ASSUME NEW v \in Workers, HoldsLease(v)', punctual'[v]
                 PROVE  (/\ Owner(v)
                         /\ job[lease[v].job].lease_expires_at >= TimeLeft(v))'
      BY DEF PunctualInv
    <2>1. HoldsLease(v) /\ punctual[v] /\ v # w
      BY DEF HoldsLease, TypeOK
    <2>2. ~Exhausted(lease[v].job, w)
      BY <2>1, PunctualAlive DEF Exhausted, Due, TypeOK, HolderInv, Leases, Row, Instants
    <2>3. job'[lease[v].job] = job[lease[v].job]
      BY <1>0, <2>1, <2>2, SweptRows DEF HolderInv, Leases
    <2> QED BY <2>1, <2>3 DEF PunctualInv, Owner, TimeLeft, TypeOK
  <1> QED BY <1>1, <1>2, <1>3, <1>4, <1>5, <1>6
\* The values claim_next writes.
LEMMA ClaimedRowValues ==
    ASSUME IInv, NEW w \in Workers, pc[w] = "claimed"
    PROVE  LET row == job[lease[w].job]
               new == ClaimedRow(row, w) IN
           /\ lease[w].job \in Jobs
           /\ Swept(w)[lease[w].job] = row
           /\ new \in Row
           /\ new.status = "running"
           /\ new.attempts = row.attempts + 1
           /\ new.lease_token = row.attempts + 1
           /\ new.lease_expires_at = LeaseFor - age[w]
           /\ lease[w].token = row.attempts + 1
           /\ new.result = row.result
  <1>1. lease[w].job \in Jobs /\ job[lease[w].job] \in Row
    BY DEF IInv, TypeOK, ClaimInv, Leases
  <1>2. /\ job[lease[w].job].attempts < MaxAttempts
        /\ lease[w].token = job[lease[w].job].attempts + 1
    BY DEF IInv, ClaimInv, Claimable
  <1>3. Swept(w)[lease[w].job] = job[lease[w].job]
    BY <1>1, <1>2, ConstantsAssumption DEF Swept, Exhausted, Row
  <1>4. age[w] \in 0..MaxTxnAge
    BY DEF IInv, TypeOK
  <1>5. LeaseFor - age[w] \in Instants
    BY <1>4, InstantValues
  <1>6. job[lease[w].job].attempts + 1 \in 0..MaxAttempts
    BY <1>1, <1>2, ConstantsAssumption DEF Row
  <1>7. ClaimedRow(job[lease[w].job], w) \in Row
    BY <1>1, <1>5, <1>6 DEF ClaimedRow, Row
  <1> QED BY <1>1, <1>2, <1>3, <1>7 DEF ClaimedRow, Row

\* A claim commits: a new token, a full lease, and nobody punctual robbed.
LEMMA ClaimCommitIInv ==
    ASSUME IInv, NEW w \in Workers, ClaimCommit(w)
    PROVE  IInv'
  <1> USE DEF IInv, ClaimCommit
  <1> DEFINE c == lease[w].job
  <1>0. /\ c \in Jobs
        /\ job'[c] = ClaimedRow(job[c], w)
        /\ \A j \in Jobs : j # c => job'[j] = Swept(w)[j]
        /\ job' = [j \in Jobs |-> job'[j]]
    BY ClaimedRowValues DEF Swept
  <1>1. TypeOK'
    <2>1. \A j \in Jobs : job'[j] \in Row
      BY <1>0, ClaimedRowValues, SweptRows
    <2>2. job' \in [Jobs -> Row]
      BY <1>0, <2>1
    <2> QED BY <2>2, ConstantsAssumption DEF TypeOK
  <1>2. RowInv'
    <2> SUFFICES ASSUME NEW j \in Jobs
                 PROVE  (/\ job[j].status = "absent" => job[j].attempts = 0
                         /\ job[j].status = "queued" => job[j].attempts < MaxAttempts
                         /\ job[j].status = "running" => job[j].attempts > 0
                         /\ job[j].status = "running"
                              => job[j].lease_token = job[j].attempts
                         /\ job[j].status = "succeeded"
                              => job[j].result = job[j].attempts)'
      BY DEF RowInv
    <2>1. CASE j = c
      BY <2>1, <1>0, ClaimedRowValues DEF TypeOK, Row
    <2>2. CASE j # c
      BY <2>2, <1>0, SweptRows DEF RowInv
    <2> QED BY <2>1, <2>2
  <1>3. LockInv' /\ BeatInv'
    BY ConstantsAssumption DEF TypeOK, LockInv, BeatInv
  <1>4. ClaimInv'
    <2> SUFFICES ASSUME NEW v \in Workers, pc'[v] = "claimed"
                 PROVE  (/\ lease[v] \in Leases
                         /\ Claimable(lease[v].job, v)
                         /\ lease[v].token = job[lease[v].job].attempts + 1)'
      BY DEF ClaimInv
    <2>1. /\ v # w /\ pc[v] = "claimed" /\ lease[v] \in Leases
          /\ lease[v].job # c /\ lease[v].job \in Jobs
          /\ Claimable(lease[v].job, v)
      BY DEF TypeOK, LockInv, ClaimInv, Leases
    <2>2. ~Exhausted(lease[v].job, w)
      BY <2>1, ConstantsAssumption DEF Exhausted, Claimable, TypeOK, Row
    <2>3. job'[lease[v].job] = job[lease[v].job]
      BY <1>0, <2>1, <2>2, SweptRows
    <2> QED BY <2>1, <2>3 DEF TypeOK, ClaimInv, Claimable, Due
  <1>5. HolderInv' /\ OneOwner'
    <2>1. \A v \in Workers : v # w /\ HoldsLease(v)' =>
             /\ HoldsLease(v) /\ lease'[v] = lease[v] /\ lease[v] \in Leases
             /\ lease[v].token <= job[lease[v].job].attempts
             /\ lease[v].job = c => lease[v].token # lease[w].token
      BY <1>0, ClaimedRowValues
         DEF TypeOK, Row, Leases, HoldsLease, HolderInv
    <2>2. \A j \in Jobs : job'[j].attempts >= job[j].attempts
      BY <1>0, ClaimedRowValues, SweptRows DEF TypeOK, Row
    <2>3. lease'[w] = lease[w] /\ lease[w] \in Leases
          /\ lease[w].token <= job'[c].attempts
      BY <1>0, ClaimedRowValues DEF ClaimInv, TypeOK, Row
    <2>4. \A j \in Jobs : job[j].attempts \in Nat /\ job'[j].attempts \in Nat
      BY <1>1 DEF TypeOK, Row
    <2>5. HolderInv'
      BY <2>1, <2>2, <2>3, <2>4 DEF HolderInv, Leases
    <2>6. OneOwner'
      BY <2>1, <2>3 DEF OneOwner
    <2> QED BY <2>5, <2>6
  <1>6. PunctualInv'
    <2> SUFFICES ASSUME NEW v \in Workers, HoldsLease(v)', punctual'[v]
                 PROVE  (/\ Owner(v)
                         /\ job[lease[v].job].lease_expires_at >= TimeLeft(v))'
      BY DEF PunctualInv
    <2>1. CASE v = w
      BY <2>1, <1>0, ClaimedRowValues, ConstantsAssumption
         DEF TypeOK, Owner, TimeLeft
    <2>2. CASE v # w
      <3>1. HoldsLease(v) /\ punctual[v]
        BY <2>2 DEF HoldsLease, TypeOK
      <3>2. /\ lease[v].job \in Jobs
            /\ job[lease[v].job].lease_expires_at > 0
            /\ job[lease[v].job].lease_expires_at \in Int
            /\ job[lease[v].job].status = "running"
            /\ age[w] \in Nat
        BY <3>1, PunctualAlive
           DEF HolderInv, Leases, TypeOK, Row, Instants, PunctualInv, Owner
      <3>3. lease[v].job # c
        BY <3>2 DEF ClaimInv, Claimable, Due
      <3>4. ~Exhausted(lease[v].job, w)
        BY <3>2 DEF Exhausted, Due
      <3>5. job'[lease[v].job] = job[lease[v].job]
        BY <1>0, <3>2, <3>3, <3>4, SweptRows
      <3> QED BY <2>2, <3>1, <3>5 DEF PunctualInv, Owner, TimeLeft, TypeOK
    <2> QED BY <2>1, <2>2
  <1> QED BY <1>1, <1>2, <1>3, <1>4, <1>5, <1>6
\* A worker that passes the guard of renew, complete and fail is the only
\* holder of the row's token, and no open claim has locked the row.
LEMMA OwnerIsAlone ==
    ASSUME IInv, NEW w \in Workers, HoldsLease(w), NEW a, Owns(w, a),
           ~LockedByClaim(lease[w].job)
    PROVE  /\ lease[w] \in Leases /\ lease[w].job \in Jobs
           /\ job[lease[w].job] \in Row
           /\ job[lease[w].job].status = "running"
           /\ lease[w].token = job[lease[w].job].attempts
           /\ \A v \in Workers : pc[v] = "claimed" => lease[v].job # lease[w].job
           /\ \A v \in Workers \ {w} :
                 HoldsLease(v) /\ punctual[v] => lease[v].job # lease[w].job
  <1>1. lease[w] \in Leases /\ lease[w].job \in Jobs /\ job[lease[w].job] \in Row
    BY DEF IInv, HolderInv, Leases, TypeOK
  <1>2. /\ job[lease[w].job].status = "running"
        /\ lease[w].token = job[lease[w].job].attempts
        /\ lease[w].token = job[lease[w].job].lease_token
    BY <1>1 DEF IInv, RowInv, Owns
  <1>3. \A v \in Workers : pc[v] = "claimed" => lease[v].job # lease[w].job
    BY DEF LockedByClaim
  <1>4. \A v \in Workers \ {w} :
           HoldsLease(v) /\ punctual[v] => lease[v].job # lease[w].job
    BY <1>2 DEF IInv, OneOwner, PunctualInv, Owner
  <1> QED BY <1>1, <1>2, <1>3, <1>4

\* The owner moves the expiry of its own row to a full lease from now().
LEMMA RenewCommitIInv ==
    ASSUME IInv, NEW w \in Workers, RenewCommit(w)
    PROVE  IInv'
  <1> DEFINE c == lease[w].job
  <1> USE DEF IInv, RenewCommit
  <1>0. HoldsLease(w) /\ Owns(w, beat[w].age) /\ ~LockedByClaim(c)
        /\ pc[w] = "executing" /\ beat[w].phase = "renewing"
    BY DEF Renewing, HoldsLease
  <1>a. beat[w].age \in 0..MaxTxnAge
    BY <1>0, ConstantsAssumption DEF BeatInv, TypeOK
  <1> DEFINE new == [job[c] EXCEPT !.lease_expires_at = LeaseFor - beat[w].age]
  <1>b. /\ c \in Jobs /\ job[c] \in Row /\ job[c].status = "running"
        /\ lease[w] \in Leases /\ lease[w].token = job[c].attempts
    BY <1>0, OwnerIsAlone
  <1>c. /\ new \in Row /\ new.status = job[c].status
        /\ new.attempts = job[c].attempts /\ new.lease_token = job[c].lease_token
        /\ new.result = job[c].result /\ new.lease_expires_at = LeaseFor - beat[w].age
    BY <1>a, <1>b, InstantValues DEF Row
  <1>d. /\ job'[c] = new
        /\ \A j \in Jobs : j # c => job'[j] = job[j]
        /\ job' = [j \in Jobs |-> job'[j]]
    BY <1>b DEF TypeOK
  <1> HIDE DEF new
  <1>1. TypeOK'
    <2>1. job' \in [Jobs -> Row]
      BY <1>c, <1>d DEF TypeOK
    <2> QED BY <2>1 DEF TypeOK
  <1>2. RowInv'
    BY <1>c, <1>d DEF RowInv
  <1>3. LockInv' /\ OneOwner' /\ BeatInv'
    BY <1>0, ConstantsAssumption DEF TypeOK, LockInv, OneOwner, HoldsLease, BeatInv
  <1>4. ClaimInv'
    BY <1>0, <1>d, OwnerIsAlone DEF ClaimInv, Claimable, Due, Leases
  <1>5. HolderInv'
    BY <1>c, <1>d DEF HolderInv, HoldsLease, Leases
  <1>6. PunctualInv'
    <2> SUFFICES ASSUME NEW v \in Workers, HoldsLease(v)', punctual'[v]
                 PROVE  (/\ Owner(v)
                         /\ job[lease[v].job].lease_expires_at >= TimeLeft(v))'
      BY DEF PunctualInv
    <2>1. CASE v = w
      <3>1. Owner(v)'
        BY <2>1, <1>0, <1>b, <1>c, <1>d DEF Owner, Owns
      <3>2. TimeLeft(v)' = LeaseFor - MaxTxnAge
        BY <2>1, <1>0, ConstantsAssumption DEF TimeLeft, TypeOK
      <3> QED BY <2>1, <3>1, <3>2, <1>a, <1>c, <1>d, ConstantsAssumption
    <2>2. CASE v # w
      <3>1. HoldsLease(v) /\ punctual[v]
        BY <2>2 DEF HoldsLease
      <3>2. job'[lease[v].job] = job[lease[v].job]
        BY <2>2, <3>1, <1>0, <1>d, OwnerIsAlone DEF HolderInv, Leases
      <3>3. TimeLeft(v)' = TimeLeft(v) /\ lease'[v] = lease[v]
        BY <2>2 DEF TimeLeft, TypeOK
      <3> QED BY <3>1, <3>2, <3>3 DEF PunctualInv, Owner
    <2> QED BY <2>1, <2>2
  <1> QED BY <1>1, <1>2, <1>3, <1>4, <1>5, <1>6

\* The owner ends its job and goes back to its loop: any new row that keeps
\* the attempts, is not running, and is queued only with attempts left.
LEMMA FinishIInv ==
    ASSUME IInv, NEW w \in Workers, Finishing(w), Owns(w, age[w]), BackToLoop(w),
           NEW new \in Row, job' = [job EXCEPT ![lease[w].job] = new],
           new.attempts = job[lease[w].job].attempts,
           new.status \in {"queued", "succeeded", "dead"},
           new.status = "queued" => new.attempts < MaxAttempts,
           new.status = "succeeded" => new.result = new.attempts
    PROVE  IInv'
  <1> DEFINE c == lease[w].job
  <1> USE DEF IInv, BackToLoop
  <1>0. HoldsLease(w) /\ Owns(w, age[w]) /\ ~LockedByClaim(c) /\ pc[w] = "finishing"
    BY DEF Finishing, HoldsLease
  <1>b. c \in Jobs /\ job[c] \in Row
    BY <1>0, OwnerIsAlone
  <1>d. /\ job'[c] = new
        /\ \A j \in Jobs : j # c => job'[j] = job[j]
        /\ job' = [j \in Jobs |-> job'[j]]
    BY <1>b DEF TypeOK
  <1>1. TypeOK'
    <2>1. job' \in [Jobs -> Row]
      BY <1>d DEF TypeOK
    <2> QED BY <2>1, ConstantsAssumption DEF TypeOK
  <1>2. RowInv'
    BY <1>d DEF RowInv
  <1>3. LockInv' /\ OneOwner' /\ BeatInv'
    BY <1>0 DEF TypeOK, LockInv, OneOwner, HoldsLease, BeatInv
  <1>4. ClaimInv'
    BY <1>0, <1>d, OwnerIsAlone DEF TypeOK, ClaimInv, Claimable, Due, Leases
  <1>5. HolderInv'
    BY <1>d DEF TypeOK, HolderInv, HoldsLease, Leases
  <1>6. PunctualInv'
    <2> SUFFICES ASSUME NEW v \in Workers, HoldsLease(v)', punctual'[v]
                 PROVE  (/\ Owner(v)
                         /\ job[lease[v].job].lease_expires_at >= TimeLeft(v))'
      BY DEF PunctualInv
    <2>1. HoldsLease(v) /\ punctual[v] /\ v # w /\ lease'[v] = lease[v]
      BY DEF HoldsLease, TypeOK
    <2>2. job'[lease[v].job] = job[lease[v].job]
      BY <2>1, <1>0, <1>d, OwnerIsAlone DEF HolderInv, Leases
    <2> QED BY <2>1, <2>2 DEF PunctualInv, Owner, TimeLeft, TypeOK
  <1> QED BY <1>1, <1>2, <1>3, <1>4, <1>5, <1>6

\* complete stores the result of the latest claim.
LEMMA CompleteIInv ==
    ASSUME IInv, NEW w \in Workers, Complete(w)
    PROVE  IInv'
  <1> DEFINE c == lease[w].job
             new == SucceededRow(job[c], lease[w].token)
  <1>1. Finishing(w) /\ Owns(w, age[w]) /\ BackToLoop(w) /\ HoldsLease(w)
        /\ ~LockedByClaim(c)
    BY DEF Complete, Finishing, HoldsLease
  <1>2. c \in Jobs /\ job[c] \in Row /\ lease[w].token = job[c].attempts
        /\ job \in [Jobs -> Row]
    BY <1>1, OwnerIsAlone DEF IInv, TypeOK
  <1>3. job' = [job EXCEPT ![c] = new]
    BY <1>2 DEF Complete
  <1>4. 0 \in 0..MaxAttempts /\ 0 \in Instants
    BY InstantValues, ConstantsAssumption
  <1>5. /\ new \in Row /\ new.attempts = job[c].attempts
        /\ new.status = "succeeded" /\ new.result = new.attempts
    BY <1>2, <1>4 DEF SucceededRow, Row
  <1> HIDE DEF new
  <1> QED BY <1>1, <1>3, <1>5, FinishIInv

\* fail gives the job back only while it has attempts left.
LEMMA FailIInv ==
    ASSUME IInv, NEW w \in Workers, Fail(w)
    PROVE  IInv'
  <1> DEFINE c == lease[w].job
             delay == IF verdict[w] = "retry" THEN RetryAfter ELSE ShutdownRetryAfter
             new == FailedRow(job[c], delay, w)
  <1>1. Finishing(w) /\ Owns(w, age[w]) /\ BackToLoop(w) /\ HoldsLease(w)
        /\ ~LockedByClaim(c)
    BY DEF Fail, Finishing, HoldsLease
  <1>2. c \in Jobs /\ job[c] \in Row /\ job \in [Jobs -> Row]
        /\ age[w] \in 0..MaxTxnAge
    BY <1>1, OwnerIsAlone DEF IInv, TypeOK
  <1>3. job' = [job EXCEPT ![c] = new]
    BY <1>2 DEF Fail
  <1>4. 0 \in 0..MaxAttempts /\ 0 \in Instants /\ delay - age[w] \in Instants
    BY <1>2, InstantValues, ConstantsAssumption
  <1> HIDE DEF delay
  <1>5. /\ new \in Row /\ new.attempts = job[c].attempts
        /\ new.status \in {"queued", "dead"}
        /\ new.status = "queued" => job[c].attempts < MaxAttempts
    BY <1>2, <1>4 DEF FailedRow, Row
  <1> HIDE DEF new
  <1> QED BY <1>1, <1>3, <1>5, FinishIInv

\* A tick takes as much from a lease as it adds to the age of what its holder
\* is doing, and a due claim stays due.
LEMMA TickIInv ==
    ASSUME IInv, Tick
    PROVE  IInv'
  <1> USE DEF IInv
  <1>a. /\ UNCHANGED <<pc, lease, verdict, stop, punctual>>
        /\ \A w \in Workers : HoldsLease(w)' = HoldsLease(w)
    BY DEF Tick, HoldsLease
  <1>b. \A w \in Workers :
          /\ age[w] \in 0..MaxTxnAge /\ age'[w] \in 0..MaxTxnAge
          /\ pc[w] \in {"claimed", "finishing"}
               => age[w] < MaxTxnAge /\ age'[w] = age[w] + 1
    <2> SUFFICES ASSUME NEW w \in Workers
                 PROVE  /\ age[w] \in 0..MaxTxnAge /\ age'[w] \in 0..MaxTxnAge
                        /\ pc[w] \in {"claimed", "finishing"}
                             => age[w] < MaxTxnAge /\ age'[w] = age[w] + 1
      OBVIOUS
    <2>1. age[w] \in 0..MaxTxnAge
      BY DEF TypeOK
    <2>2. age'[w] = IF pc[w] \in {"claiming", "claimed", "finishing"}
                    THEN age[w] + 1 ELSE age[w]
      BY DEF Tick
    <2>3. pc[w] \in {"claiming", "claimed", "finishing"} => age[w] < MaxTxnAge
      BY DEF Tick
    <2> QED BY <2>1, <2>2, <2>3, ConstantsAssumption
  <1>c. \A w \in Workers :
          /\ beat[w].age \in Nat /\ beat'[w].age \in Nat
          /\ beat'[w].phase = beat[w].phase
          /\ beat'[w] \in [phase : {"off", "sleeping", "renewing"}, age : Nat]
          /\ beat[w].phase = "sleeping" =>
               \/ beat[w].age < HeartbeatEvery /\ beat'[w].age = beat[w].age + 1
               \/ beat[w].age >= HeartbeatEvery /\ beat'[w] = beat[w] /\ ~punctual[w]
          /\ beat[w].phase = "renewing"
               => beat[w].age < MaxTxnAge /\ beat'[w].age = beat[w].age + 1
    <2> SUFFICES ASSUME NEW w \in Workers
                 PROVE
          /\ beat[w].age \in Nat /\ beat'[w].age \in Nat
          /\ beat'[w].phase = beat[w].phase
          /\ beat'[w] \in [phase : {"off", "sleeping", "renewing"}, age : Nat]
          /\ beat[w].phase = "sleeping" =>
               \/ beat[w].age < HeartbeatEvery /\ beat'[w].age = beat[w].age + 1
               \/ beat[w].age >= HeartbeatEvery /\ beat'[w] = beat[w] /\ ~punctual[w]
          /\ beat[w].phase = "renewing"
               => beat[w].age < MaxTxnAge /\ beat'[w].age = beat[w].age + 1
      OBVIOUS
    <2>1. beat[w] \in [phase : {"off", "sleeping", "renewing"}, age : Nat]
      BY DEF TypeOK
    <2>2. beat'[w] = IF beat[w].phase = "off" \/ HeartbeatDue(w)
                     THEN beat[w] ELSE [beat[w] EXCEPT !.age = beat[w].age + 1]
      BY DEF Tick
    <2>3. /\ beat[w].phase = "renewing" => beat[w].age < MaxTxnAge
          /\ punctual[w] => ~HeartbeatDue(w)
      BY DEF Tick
    <2> QED BY <2>1, <2>2, <2>3, ConstantsAssumption DEF HeartbeatDue
  <1>d. \A j \in Jobs :
          /\ job'[j] \in Row
          /\ job'[j].status = job[j].status
          /\ job'[j].attempts = job[j].attempts
          /\ job'[j].lease_token = job[j].lease_token
          /\ job'[j].result = job[j].result
          /\ job'[j].available_at = Earlier(job[j].available_at)
          /\ job[j].status = "running"
               => job'[j].lease_expires_at = Earlier(job[j].lease_expires_at)
    <2> SUFFICES ASSUME NEW j \in Jobs
                 PROVE
          /\ job'[j] \in Row
          /\ job'[j].status = job[j].status
          /\ job'[j].attempts = job[j].attempts
          /\ job'[j].lease_token = job[j].lease_token
          /\ job'[j].result = job[j].result
          /\ job'[j].available_at = Earlier(job[j].available_at)
          /\ job[j].status = "running"
               => job'[j].lease_expires_at = Earlier(job[j].lease_expires_at)
      OBVIOUS
    <2> DEFINE expires == IF job[j].status = "running"
                          THEN Earlier(job[j].lease_expires_at)
                          ELSE job[j].lease_expires_at
               available == Earlier(job[j].available_at)
    <2>1. job[j] \in Row
      BY DEF TypeOK
    <2>2. job'[j] = [job[j] EXCEPT !.available_at = available,
                                   !.lease_expires_at = expires]
      BY <2>1 DEF Tick, Row
    <2>3. expires \in Instants /\ available \in Instants
      BY <2>1, InstantValues DEF Row
    <2>4. job[j].status = "running" => expires = Earlier(job[j].lease_expires_at)
      OBVIOUS
    <2>5. available = Earlier(job[j].available_at)
      OBVIOUS
    <2> HIDE DEF expires, available
    <2> QED BY <2>1, <2>2, <2>3, <2>4, <2>5 DEF Row
  <1>1. TypeOK'
    <2>1. job' \in [Jobs -> Row]
      BY <1>d DEF Tick
    <2>2. age' \in [Workers -> 0..MaxTxnAge]
      BY <1>b DEF Tick
    <2>3. beat' \in [Workers -> [phase : {"off", "sleeping", "renewing"}, age : Nat]]
      BY <1>c DEF Tick
    <2> QED BY <1>a, <2>1, <2>2, <2>3 DEF TypeOK
  <1>2. RowInv'
    BY <1>d DEF RowInv
  <1>3. LockInv' /\ OneOwner'
    BY <1>a DEF LockInv, OneOwner
  <1>4. BeatInv'
    BY <1>a, <1>c, ConstantsAssumption DEF BeatInv
  <1>5. HolderInv'
    BY <1>a, <1>d DEF HolderInv, Leases
  <1>6. ClaimInv'
    <2> SUFFICES ASSUME NEW w \in Workers, pc[w] = "claimed"
                 PROVE  (/\ lease[w] \in Leases
                         /\ Claimable(lease[w].job, w)
                         /\ lease[w].token = job[lease[w].job].attempts + 1)'
      BY <1>a DEF ClaimInv
    <2>1. /\ lease[w].job \in Jobs /\ lease'[w] = lease[w] /\ lease[w] \in Leases
          /\ job[lease[w].job] \in Row
          /\ age'[w] = age[w] + 1 /\ age[w] < MaxTxnAge /\ age[w] \in Nat
      BY <1>a, <1>b, ConstantsAssumption DEF TypeOK, ClaimInv, Leases
    <2>2. ASSUME NEW t \in Instants, t <= -age[w]
          PROVE  Earlier(t) <= -age'[w]
      BY <2>1, <2>2, ConstantsAssumption DEF Earlier, Instants
    <2> QED BY <1>d, <2>1, <2>2 DEF ClaimInv, Claimable, Due, Row
  <1>7. PunctualInv'
    <2> SUFFICES ASSUME NEW w \in Workers, HoldsLease(w), punctual[w]
                 PROVE  (/\ Owner(w)
                         /\ job[lease[w].job].lease_expires_at >= TimeLeft(w))'
      BY <1>a DEF PunctualInv
    <2>1. lease[w].job \in Jobs /\ lease'[w] = lease[w] /\ Owner(w)
      BY <1>a DEF HolderInv, Leases, PunctualInv
    <2>2. /\ job[lease[w].job].lease_expires_at \in Int
          /\ job[lease[w].job].lease_expires_at > 0
          /\ job[lease[w].job].lease_expires_at >= TimeLeft(w)
      BY <2>1, PunctualAlive DEF TypeOK, Row, Instants, PunctualInv
    <2>3. Owner(w)'
      BY <1>d, <2>1 DEF Owner
    <2>4. job'[lease[w].job].lease_expires_at = job[lease[w].job].lease_expires_at - 1
      BY <1>d, <2>1, <2>2, ConstantsAssumption DEF Owner, Earlier
    <2>5. TimeLeft(w) \in Int /\ TimeLeft(w)' = TimeLeft(w) - 1
      BY <1>a, <1>b, <1>c, ConstantsAssumption DEF TimeLeft, HoldsLease, BeatInv
    <2> QED BY <2>1, <2>2, <2>3, <2>4, <2>5
  <1> QED BY <1>1, <1>2, <1>3, <1>4, <1>5, <1>6, <1>7

-----------------------------------------------------------------------------
(* The theorems.                                                            *)

\* IInv is inductive.
LEMMA NextIInv == IInv /\ [Next]_vars => IInv'
  <1> SUFFICES ASSUME IInv, [Next]_vars
               PROVE  IInv'
    OBVIOUS
  <1>1. ASSUME NEW j \in Jobs, Enqueue(j)
        PROVE  IInv'
    BY <1>1, EnqueueIInv
  <1>2. ASSUME NEW w \in Workers, WorkerStep(w)
        PROVE  IInv'
    <2>1. CASE Start(w)
      BY <2>1, StartIInv
    <2>2. CASE StopIdle(w) \/ RenewLeaseLost(w) \/ FinishLeaseLost(w)
      BY <2>2, ExitIInv DEF StopIdle, RenewLeaseLost, FinishLeaseLost
    <2>3. CASE BeginClaim(w)
      BY <2>3, BeginClaimIInv
    <2>4. ASSUME NEW j \in Jobs, ClaimSelect(w, j)
          PROVE  IInv'
      BY <2>4, ClaimSelectIInv
    <2>5. CASE ClaimCommit(w)
      BY <2>5, ClaimCommitIInv
    <2>6. CASE ClaimNone(w)
      BY <2>6, ClaimNoneIInv
    <2>7. CASE BeginRenew(w)
      BY <2>7, BeginRenewIInv
    <2>8. CASE RenewCommit(w)
      BY <2>8, RenewCommitIInv
    <2>9. CASE ExecutionEnds(w) \/ ShutdownDuringExecution(w)
      BY <2>9, FinishWithIInv DEF ExecutionEnds, ShutdownDuringExecution
    <2>10. CASE Complete(w)
      BY <2>10, CompleteIInv
    <2>11. CASE Fail(w)
      BY <2>11, FailIInv
    <2> QED BY <1>2, <2>1, <2>2, <2>3, <2>4, <2>5, <2>6, <2>7, <2>8, <2>9, <2>10, <2>11
            DEF WorkerStep
  <1>3. ASSUME NEW w \in Workers, HeartbeatFails(w)
        PROVE  IInv'
    BY <1>3, FinishWithIInv DEF HeartbeatFails
  <1>4. ASSUME NEW w \in Workers, Crash(w)
        PROVE  IInv'
    BY <1>4, ExitIInv DEF Crash
  <1>5. ASSUME NEW w \in Workers, Sigterm(w)
        PROVE  IInv'
    BY <1>5, SigtermIInv
  <1>6. ASSUME NEW w \in Workers, Stall(w)
        PROVE  IInv'
    BY <1>6, StallIInv
  <1>7. CASE Tick
    BY <1>7, TickIInv
  <1>8. CASE UNCHANGED vars
    BY <1>8 DEF vars, IInv, TypeOK, RowInv, ClaimInv, LockInv, HolderInv, OneOwner,
                BeatInv, PunctualInv, HoldsLease, Claimable, Due, Owner, TimeLeft
  <1> QED BY <1>1, <1>2, <1>3, <1>4, <1>5, <1>6, <1>7, <1>8 DEF Next

LEMMA Invariance == Spec => []IInv
  BY InitIInv, NextIInv, PTL DEF Spec

\* Every reachable state is well typed; attempts stay within max_attempts.
THEOREM TypeCorrect == Spec => []TypeOK
  <1>1. IInv => TypeOK
    BY DEF IInv
  <1> QED BY <1>1, Invariance, PTL

\* No queued job is ever stranded with its attempts used up.
THEOREM QueuedStaysClaimable == Spec => []QueuedIsClaimable
  <1>1. IInv => QueuedIsClaimable
    BY DEF IInv, RowInv, QueuedIsClaimable
  <1> QED BY <1>1, Invariance, PTL

\* No two workers ever hold a job under the same token.
THEOREM Fencing == Spec => []OneOwner
  <1>1. IInv => OneOwner
    BY DEF IInv
  <1> QED BY <1>1, Invariance, PTL

\* The stored result is always that of the job's latest claim.
THEOREM LatestResult == Spec => []ResultOfLatestClaim
  <1>1. IInv => ResultOfLatestClaim
    BY DEF IInv, RowInv, ResultOfLatestClaim
  <1> QED BY <1>1, Invariance, PTL

\* Heartbeats keep the lease of a worker that runs on time, for any durations
\* with HeartbeatEvery + 3 * MaxTxnAge < LeaseFor.
THEOREM HeartbeatsKeepLease == Spec => []PunctualKeepsLease
  <1>1. IInv => PunctualKeepsLease
    BY PunctualAlive DEF PunctualKeepsLease, IInv, PunctualInv, Owner
  <1> QED BY <1>1, Invariance, PTL

\* A succeeded or dead job never changes again.
THEOREM TerminalStaysFinal == Spec => TerminalIsFinal
  <1> DEFINE Final == \A j \in Jobs :
                        job[j].status \in {"succeeded", "dead"}
                          => /\ job'[j].status = job[j].status
                             /\ job'[j].result = job[j].result
                             /\ job'[j].attempts = job[j].attempts
  <1>1. IInv /\ [Next]_vars => [Final]_vars
    <2> SUFFICES ASSUME IInv, Next, NEW j \in Jobs,
                        job[j].status \in {"succeeded", "dead"}
                 PROVE  /\ job'[j].status = job[j].status
                        /\ job'[j].result = job[j].result
                        /\ job'[j].attempts = job[j].attempts
      OBVIOUS
    <2>1. job[j] \in Row /\ job \in [Jobs -> Row]
      BY DEF IInv, TypeOK
    <2>2. ASSUME NEW k \in Jobs, Enqueue(k)
          PROVE  job'[j] = job[j]
      BY <2>1, <2>2 DEF Enqueue
    <2>3. ASSUME NEW w \in Workers
          PROVE  /\ ClaimNone(w) => job'[j] = job[j]
                 /\ ClaimCommit(w) => job'[j] = job[j]
      <3>1. Swept(w)[j] = job[j]
        BY DEF Swept, Exhausted
      <3>2. ClaimCommit(w) => lease[w].job # j
        BY DEF ClaimCommit, IInv, ClaimInv, Claimable
      <3> QED BY <2>1, <3>1, <3>2 DEF ClaimNone, ClaimCommit, Swept
    <2>4. ASSUME NEW w \in Workers, RenewCommit(w) \/ Complete(w) \/ Fail(w)
          PROVE  job'[j] = job[j]
      <3>1. lease[w].job # j
        BY <2>4 DEF RenewCommit, Complete, Fail, Owns
      <3> QED BY <2>1, <2>4, <3>1 DEF RenewCommit, Complete, Fail
    <2>5. ASSUME Tick
          PROVE  /\ job'[j].status = job[j].status
                 /\ job'[j].result = job[j].result
                 /\ job'[j].attempts = job[j].attempts
      BY <2>1, <2>5 DEF Tick, Row
    <2>6. ASSUME NEW w \in Workers,
                 \/ Start(w) \/ StopIdle(w) \/ BeginClaim(w)
                 \/ \E k \in Jobs : ClaimSelect(w, k)
                 \/ BeginRenew(w) \/ RenewLeaseLost(w)
                 \/ ExecutionEnds(w) \/ ShutdownDuringExecution(w)
                 \/ FinishLeaseLost(w) \/ HeartbeatFails(w)
                 \/ Crash(w) \/ Sigterm(w) \/ Stall(w)
          PROVE  job' = job
      BY <2>6 DEF Start, StopIdle, BeginClaim, ClaimSelect, BeginRenew, RenewLeaseLost,
                  ExecutionEnds, ShutdownDuringExecution, FinishLeaseLost,
                  HeartbeatFails, Crash, Sigterm, Stall, FinishWith
    <2> QED BY <2>2, <2>3, <2>4, <2>5, <2>6 DEF Next, WorkerStep
  <1>2. [][IInv /\ [Next]_vars]_vars => TerminalIsFinal
    BY <1>1, PTL DEF TerminalIsFinal
  <1> QED BY <1>2, Invariance, PTL DEF Spec

-----------------------------------------------------------------------------
(* The table implements the queue of JobQueue.                              *)

\* A worker that takes a job has not fallen behind yet.
FreshInv == \A w \in Workers : ~HoldsLease(w) => punctual[w]

\* Only an execution under way can fall behind, and its end is a fresh start.
LEMMA NextFreshInv == IInv /\ FreshInv /\ [Next]_vars => FreshInv'
  <1> SUFFICES ASSUME IInv, FreshInv, [Next]_vars
               PROVE  FreshInv'
    OBVIOUS
  <1>0. punctual \in [Workers -> BOOLEAN] /\ pc \in [Workers -> {"down", "idle",
           "claiming", "claimed", "executing", "finishing"}]
    BY DEF IInv, TypeOK
  <1>1. ASSUME NEW w \in Workers, Exit(w) \/ BackToLoop(w) \/ Stall(w)
        PROVE  FreshInv'
    BY <1>0, <1>1 DEF Exit, BackToLoop, Stall, FreshInv, HoldsLease
  <1>2. ASSUME UNCHANGED punctual, \A w \in Workers : HoldsLease(w) => HoldsLease(w)'
        PROVE  FreshInv'
    BY <1>2 DEF FreshInv
  <1>3. ASSUME NEW w \in Workers, Crash(w) \/ StopIdle(w) \/ RenewLeaseLost(w)
                 \/ FinishLeaseLost(w) \/ Complete(w) \/ Fail(w)
        PROVE  FreshInv'
    BY <1>1, <1>3 DEF Crash, StopIdle, RenewLeaseLost, FinishLeaseLost, Complete, Fail
  <1>4. ASSUME NEW w \in Workers, Start(w) \/ BeginClaim(w) \/ ClaimCommit(w)
                 \/ ClaimNone(w) \/ BeginRenew(w) \/ RenewCommit(w) \/ Sigterm(w)
                 \/ \E j \in Jobs : ClaimSelect(w, j)
        PROVE  FreshInv'
    BY <1>0, <1>2, <1>4 DEF Start, BeginClaim, ClaimCommit, ClaimNone, BeginRenew,
       RenewCommit, Sigterm, ClaimSelect, HoldsLease
  <1>5. ASSUME NEW w \in Workers,
               ExecutionEnds(w) \/ ShutdownDuringExecution(w) \/ HeartbeatFails(w)
        PROVE  FreshInv'
    BY <1>0, <1>2, <1>5 DEF ExecutionEnds, ShutdownDuringExecution, HeartbeatFails,
       FinishWith, HoldsLease
  <1>6. CASE Tick \/ (\E j \in Jobs : Enqueue(j)) \/ UNCHANGED vars
    BY <1>2, <1>6 DEF Tick, Enqueue, vars, HoldsLease
  <1> QED BY <1>1, <1>3, <1>4, <1>5, <1>6 DEF Next, WorkerStep

\* A worker has a job in hand when it holds a lease that owns its row, and it
\* is out of touch with it when its event loop has fallen behind.
LEMMA HandValues ==
    ASSUME IInv, NEW w \in Workers
    PROVE  /\ HoldsLease(w) /\ Owner(w) <=> InHand[w] # NoLease
           /\ InHand[w] # NoLease => InHand[w] = lease[w].job /\ InHand[w] \in Jobs
           /\ w \in OutOfTouch <=> InHand[w] # NoLease /\ ~punctual[w]
  <1>1. HoldsLease(w) => lease[w].job \in Jobs
    BY DEF IInv, HolderInv, Leases
  <1>2. NoLease \notin Jobs
    BY ConstantsAssumption
  <1>3. InHand[w] = IF HoldsLease(w) /\ Owner(w) THEN lease[w].job ELSE NoLease
    BY DEF InHand, Owner
  <1> QED BY <1>1, <1>2, <1>3 DEF OutOfTouch

\* A step that leaves a worker's lease and the owner of its row alone leaves
\* the worker's job in its hands.
LEMMA HandKept ==
    ASSUME NEW w \in Workers, HoldsLease(w)' <=> HoldsLease(w),
           HoldsLease(w) => lease'[w] = lease[w] /\ (Owner(w)' <=> Owner(w))
    PROVE  InHand'[w] = InHand[w]
  BY DEF InHand, Owner

\* What the rows of Stored are.
LEMMA StoredValues ==
    /\ Stored = [j \in Jobs |-> Stored[j]]
    /\ \A j \in Jobs : /\ Stored[j].status = job[j].status
                       /\ Stored[j].attempts = job[j].attempts
                       /\ Stored[j].result = job[j].result
                       /\ Stored[j] = [status |-> job[j].status,
                                       attempts |-> job[j].attempts,
                                       result |-> job[j].result]
  BY DEF Stored

\* A step that changes no status, attempts, result or token, and no lease in a
\* worker's memory, is no step of the queue.
LEMMA QuietStutters ==
    ASSUME IInv,
           \A j \in Jobs : /\ job'[j].status = job[j].status
                           /\ job'[j].attempts = job[j].attempts
                           /\ job'[j].lease_token = job[j].lease_token
                           /\ job'[j].result = job[j].result,
           \A w \in Workers :
              /\ HoldsLease(w)' <=> HoldsLease(w)
              /\ HoldsLease(w) => lease'[w] = lease[w] /\ punctual'[w] = punctual[w]
    PROVE  UNCHANGED Queue!vars
  <1>1. Stored' = Stored
    BY DEF Stored
  <1>2. \A w \in Workers : InHand'[w] = InHand[w]
    BY HandKept DEF Owner, IInv, HolderInv, Leases
  <1>3. InHand' = InHand
    BY <1>2 DEF InHand
  <1>4. OutOfTouch' = OutOfTouch
    BY <1>3, HandValues DEF OutOfTouch
  <1> QED BY <1>1, <1>3, <1>4 DEF Queue!vars

\* A process that exits forgets its job.
LEMMA ExitForgets ==
    ASSUME IInv, NEW w \in Workers, Exit(w), UNCHANGED job
    PROVE  Queue!Forget(w)
  <1>1. Stored' = Stored
    BY DEF Stored
  <1>2. InHand' = [InHand EXCEPT ![w] = NoLease]
    <2>1. InHand'[w] = NoLease
      BY DEF Exit, HoldsLease, InHand, IInv, TypeOK
    <2>2. \A v \in Workers \ {w} : InHand'[v] = InHand[v]
      BY HandKept DEF Exit, HoldsLease, Owner, IInv, TypeOK
    <2> QED BY <2>1, <2>2 DEF InHand
  <1>3. OutOfTouch' = OutOfTouch \ {w}
    BY <1>2 DEF OutOfTouch, Exit, IInv, TypeOK, InHand
  <1> QED BY <1>1, <1>2, <1>3 DEF Queue!Forget, Queue!LetGo

\* A row whose lease has expired is abandoned: its owner, if it still has one,
\* is out of touch.
LEMMA ExpiredAbandoned ==
    ASSUME IInv, NEW w \in Workers, NEW j \in Jobs,
           job[j].status = "running", Due(job[j].lease_expires_at, w)
    PROVE  Queue!Abandoned(j)
  <1> SUFFICES ASSUME NEW v \in Workers, InHand[v] = j
               PROVE  v \in OutOfTouch
    BY StoredValues DEF Queue!Abandoned
  <1>1. NoLease \notin Jobs
    BY ConstantsAssumption
  <1>2. HoldsLease(v) /\ lease[v].job = j
    BY <1>1, HandValues
  <1>3. ~punctual[v]
    <2>1. age[w] \in Nat /\ job[j].lease_expires_at \in Int
      BY DEF IInv, TypeOK, Row, Instants
    <2>2. ~(job[j].lease_expires_at > 0)
      BY <2>1 DEF Due
    <2> QED BY <1>2, <2>2, PunctualAlive
  <1> QED BY <1>1, <1>3, HandValues

Expired(w) == {j \in Jobs : Exhausted(j, w)}

\* The rows that the sweep ends are abandoned and have no attempt left.
LEMMA SweepIsHopeless ==
    ASSUME IInv, NEW w \in Workers
    PROVE  /\ Expired(w) \in SUBSET Jobs
           /\ Queue!Hopeless(Expired(w))
           /\ \A j \in Jobs : Queue!Buried(Expired(w))[j] =
                 [status |-> Swept(w)[j].status, attempts |-> Swept(w)[j].attempts,
                  result |-> Swept(w)[j].result]
  <1>1. ASSUME NEW j \in Expired(w)
        PROVE  Queue!Abandoned(j) /\ Stored[j].attempts = MaxAttempts
    <2>1. j \in Jobs /\ Exhausted(j, w)
      BY DEF Expired
    <2>2. job[j] \in Row
      BY <2>1 DEF IInv, TypeOK
    <2>3. job[j].attempts = MaxAttempts
      BY <2>1, <2>2, ConstantsAssumption DEF Exhausted, Row
    <2> QED BY <2>1, <2>3, ExpiredAbandoned, StoredValues DEF Exhausted
  <1>2. ASSUME NEW j \in Jobs
        PROVE  Queue!Buried(Expired(w))[j] =
                 [status |-> Swept(w)[j].status, attempts |-> Swept(w)[j].attempts,
                  result |-> Swept(w)[j].result]
    <2>1. job[j] \in Row
      BY DEF IInv, TypeOK
    <2>2. /\ Stored[j] = [status |-> job[j].status, attempts |-> job[j].attempts,
                          result |-> job[j].result]
          /\ Queue!Buried(Expired(w))[j] =
               IF Exhausted(j, w) THEN [Stored[j] EXCEPT !.status = "dead"] ELSE Stored[j]
      BY DEF Queue!Buried, Stored, Expired
    <2>3. Swept(w)[j] = IF Exhausted(j, w) THEN DeadRow(job[j]) ELSE job[j]
      BY DEF Swept
    <2>4. /\ DeadRow(job[j]).status = "dead"
          /\ DeadRow(job[j]).attempts = job[j].attempts
          /\ DeadRow(job[j]).result = job[j].result
      BY <2>1 DEF DeadRow, Row
    <2> QED BY <2>2, <2>3, <2>4
  <1>3. Expired(w) \in SUBSET Jobs
    BY DEF Expired
  <1>4. Queue!Hopeless(Expired(w))
    BY <1>1 DEF Queue!Hopeless
  <1> QED BY <1>2, <1>3, <1>4

\* A swept row is taken from the worker that holds it; the rest is untouched.
LEMMA SweepTakes ==
    ASSUME IInv, NEW w \in Workers, NEW v \in Workers, HoldsLease(v),
           HoldsLease(v)', lease'[v] = lease[v],
           job'[lease[v].job] = Swept(w)[lease[v].job]
    PROVE  /\ InHand[v] \in Expired(w) => InHand'[v] = NoLease
           /\ InHand[v] \notin Expired(w) => InHand'[v] = InHand[v]
  <1>1. lease[v].job \in Jobs
    BY DEF IInv, HolderInv, Leases
  <1>2. CASE Exhausted(lease[v].job, w)
    <2>1. job'[lease[v].job].status = "dead"
      BY <1>1, <1>2 DEF Swept, DeadRow, IInv, TypeOK, Row
    <2>2. ~Owner(v)'
      BY <2>1 DEF Owner
    <2>3. InHand'[v] = NoLease
      BY <2>2 DEF InHand, Owner
    <2>4. InHand[v] = NoLease \/ InHand[v] \in Expired(w)
      BY <1>1, <1>2, HandValues DEF Expired
    <2> QED BY <2>3, <2>4
  <1>3. CASE ~Exhausted(lease[v].job, w)
    <2>1. job'[lease[v].job] = job[lease[v].job]
      BY <1>1, <1>3 DEF Swept
    <2>2. InHand'[v] = InHand[v]
      BY <2>1, HandKept DEF Owner
    <2>3. InHand[v] \notin Expired(w)
      BY <1>1, <1>3, HandValues, ConstantsAssumption DEF Expired
    <2> QED BY <2>2, <2>3
  <1> QED BY <1>2, <1>3

\* An idle claim gives up the hopeless jobs it sweeps.
LEMMA ClaimNoneBuries ==
    ASSUME IInv, NEW w \in Workers, ClaimNone(w)
    PROVE  Queue!Bury(Expired(w))
  <1>0. job' = Swept(w) /\ lease' = lease /\ punctual' = punctual
        /\ \A v \in Workers : HoldsLease(v)' <=> HoldsLease(v)
    BY DEF ClaimNone, HoldsLease, IInv, TypeOK
  <1>1. Stored' = Queue!Buried(Expired(w))
    BY <1>0, SweepIsHopeless DEF Stored, Queue!Buried
  <1>2. ASSUME NEW v \in Workers
        PROVE  InHand'[v] = IF InHand[v] \in Expired(w) THEN NoLease ELSE InHand[v]
    <2>1. CASE HoldsLease(v)
      BY <1>0, <2>1, SweepTakes
    <2>2. CASE ~HoldsLease(v)
      BY <1>0, <2>2 DEF InHand
    <2> QED BY <2>1, <2>2
  <1>3. InHand' = Queue!TakenFrom(Expired(w))
    BY <1>2 DEF InHand, Queue!TakenFrom
  <1>4. NoLease \notin Expired(w)
    BY ConstantsAssumption DEF Expired
  <1>5. OutOfTouch' = OutOfTouch \ Queue!Having(Expired(w))
    BY <1>0, <1>2, <1>4 DEF OutOfTouch, Queue!Having
  <1> QED BY <1>1, <1>3, <1>5, SweepIsHopeless DEF Queue!Bury

\* A claim takes a job that waits or was abandoned, and sweeps as it goes.
LEMMA ClaimCommitTakes ==
    ASSUME IInv, FreshInv, NEW w \in Workers, ClaimCommit(w)
    PROVE  Queue!Take(w, lease[w].job, Expired(w))
  <1> DEFINE c == lease[w].job
  <1>0. /\ pc[w] = "claimed" /\ ~HoldsLease(w) /\ HoldsLease(w)'
        /\ lease' = lease /\ punctual' = punctual
        /\ \A v \in Workers \ {w} : HoldsLease(v)' <=> HoldsLease(v)
    BY DEF ClaimCommit, HoldsLease, IInv, TypeOK
  <1>1. /\ c \in Jobs /\ job[c] \in Row /\ Swept(w)[c] = job[c]
        /\ lease[w].token = job[c].attempts + 1
        /\ Claimable(c, w)
        /\ job'[c].status = "running"
        /\ job'[c].attempts = job[c].attempts + 1
        /\ job'[c].lease_token = lease[w].token
        /\ job'[c].result = job[c].result
        /\ \A j \in Jobs : j # c => job'[j] = Swept(w)[j]
    BY <1>0, ClaimedRowValues DEF ClaimCommit, Swept, IInv, TypeOK, ClaimInv
  <1>2. InHand[w] = NoLease
    BY <1>0 DEF InHand
  <1>3. job[c].attempts < MaxAttempts /\ c \notin Expired(w)
    BY <1>1, ConstantsAssumption DEF Claimable, Expired, Exhausted, Row
  <1>4. Stored[c].status = "queued" \/ Queue!Abandoned(c)
    BY <1>1, ExpiredAbandoned, StoredValues DEF Claimable
  <1>5. Stored' = [Queue!Buried(Expired(w)) EXCEPT ![c].status = "running",
                                                   ![c].attempts = @ + 1]
    <2> DEFINE B == Queue!Buried(Expired(w))
    <2>1. B = [j \in Jobs |-> B[j]]
      BY DEF Queue!Buried
    <2>2. /\ \A j \in Jobs \ {c} : Stored'[j] = B[j]
          /\ B[c] = [status |-> job[c].status, attempts |-> job[c].attempts,
                     result |-> job[c].result]
          /\ Stored'[c] = [status |-> "running", attempts |-> job[c].attempts + 1,
                           result |-> job[c].result]
          /\ Stored' = [j \in Jobs |-> Stored'[j]]
      BY <1>1, SweepIsHopeless DEF Stored
    <2> HIDE DEF B
    <2> DEFINE T == [B EXCEPT ![c].status = "running", ![c].attempts = @ + 1]
    <2>3. /\ T = [j \in Jobs |-> T[j]]
          /\ \A j \in Jobs \ {c} : T[j] = B[j]
      BY <2>1
    <2>4. T[c] = [status |-> "running", attempts |-> job[c].attempts + 1,
                  result |-> job[c].result]
      <3> DEFINE R == [B EXCEPT ![c].status = "running"]
      <3>1. /\ R[c] = [status |-> "running", attempts |-> job[c].attempts,
                       result |-> job[c].result]
            /\ R = [j \in Jobs |-> R[j]]
        BY <1>1, <2>1, <2>2
      <3>2. T = [R EXCEPT ![c].attempts = @ + 1]
        OBVIOUS
      <3> HIDE DEF R, T
      <3>3. T[c] = [R[c] EXCEPT !.attempts = R[c].attempts + 1]
        BY <1>1, <3>1, <3>2
      <3> DEFINE row == R[c]
                 n == job[c].attempts
                 r == job[c].result
      <3>4. row.attempts = n /\ row = [status |-> "running", attempts |-> n, result |-> r]
        BY <3>1
      <3> HIDE DEF row, n, r
      <3>5. [row EXCEPT !.attempts = n + 1]
               = [status |-> "running", attempts |-> n + 1, result |-> r]
        BY <3>4
      <3> QED BY <3>3, <3>4, <3>5 DEF row, n, r
    <2> HIDE DEF T
    <2>5. Stored' = T
      BY <2>2, <2>3, <2>4
    <2> QED BY <2>5 DEF B, T
  <1>6. InHand'[w] = c
    BY <1>0, <1>1 DEF InHand
  <1>7. ASSUME NEW v \in Workers \ {w}
        PROVE  InHand'[v] = IF InHand[v] \in Expired(w) \cup {c} THEN NoLease ELSE InHand[v]
    <2>1. CASE HoldsLease(v) /\ lease[v].job # c
      <3>1. InHand[v] # c
        BY <1>1, <2>1, HandValues, ConstantsAssumption
      <3>2. lease[v].job \in Jobs
        BY <2>1 DEF IInv, HolderInv, Leases
      <3> QED BY <1>0, <1>1, <2>1, <3>1, <3>2, SweepTakes
    <2>2. CASE HoldsLease(v) /\ lease[v].job = c
      <3>1. lease[v].token <= job[c].attempts /\ lease[v].token \in Nat
        BY <2>2 DEF IInv, HolderInv, Leases
      <3>2. lease[v].token # lease[w].token
        BY <1>1, <3>1 DEF Row
      <3>3. InHand'[v] = NoLease
        BY <1>0, <1>1, <2>2, <3>2 DEF InHand
      <3>4. InHand[v] = NoLease \/ InHand[v] = c
        BY <2>2, HandValues
      <3> QED BY <3>3, <3>4
    <2>3. CASE ~HoldsLease(v)
      <3>1. InHand[v] = NoLease
        BY <2>3 DEF InHand
      <3>2. ~HoldsLease(v)'
        BY <1>0, <2>3
      <3>3. InHand'[v] = NoLease
        BY <3>2 DEF InHand
      <3> QED BY <3>1, <3>3
    <2> QED BY <2>1, <2>2, <2>3
  <1>8. InHand' = [Queue!TakenFrom(Expired(w) \cup {c}) EXCEPT ![w] = c]
    BY <1>6, <1>7 DEF InHand, Queue!TakenFrom
  <1>9. punctual[w]
    BY <1>0 DEF FreshInv
  <1>10. OutOfTouch' = OutOfTouch \ Queue!Having(Expired(w) \cup {c})
    <2>1. NoLease \notin Expired(w) \cup {c}
      BY <1>1, ConstantsAssumption DEF Expired
    <2> QED BY <1>0, <1>2, <1>6, <1>7, <1>9, <2>1 DEF OutOfTouch, Queue!Having
  <1>11. Stored[c].attempts < MaxAttempts
    BY <1>1, <1>3, StoredValues
  <1> QED BY <1>2, <1>4, <1>5, <1>8, <1>10, <1>11, SweepIsHopeless DEF Queue!Take

\* The end of a job by its owner: the owner lets it go, nobody else is touched.
LEMMA FinishLetsGo ==
    ASSUME IInv, NEW w \in Workers, Finishing(w), Owns(w, age[w]), BackToLoop(w),
           NEW new, job' = [job EXCEPT ![lease[w].job] = new], new.status # "running"
    PROVE  /\ InHand[w] = lease[w].job /\ lease[w].job \in Jobs
           /\ Queue!LetGo(w)
           /\ \A j \in Jobs : j # lease[w].job => Stored'[j] = Stored[j]
           /\ Stored'[lease[w].job] = [status |-> new.status, attempts |-> new.attempts,
                                       result |-> new.result]
  <1> DEFINE c == lease[w].job
  <1>1. HoldsLease(w) /\ Owner(w)
    BY DEF Finishing, HoldsLease, Owns, Owner
  <1>2. InHand[w] = c /\ c \in Jobs
    BY <1>1, HandValues
  <1>3. job'[c] = new /\ \A j \in Jobs : j # c => job'[j] = job[j]
    BY <1>2 DEF IInv, TypeOK
  <1>4. /\ \A v \in Workers \ {w} : /\ HoldsLease(v)' <=> HoldsLease(v)
                                    /\ lease'[v] = lease[v]
                                    /\ punctual'[v] = punctual[v]
        /\ ~HoldsLease(w)'
    BY DEF BackToLoop, HoldsLease, IInv, TypeOK
  <1>5. ASSUME NEW v \in Workers \ {w}
        PROVE  InHand'[v] = InHand[v]
    <2>1. CASE HoldsLease(v) /\ lease[v].job = c
      <3>1. lease[v].token # lease[w].token
        BY <1>1, <2>1 DEF IInv, OneOwner
      <3>2. InHand[v] = NoLease
        BY <1>1, <2>1, <3>1, HandValues DEF Owner
      <3>3. InHand'[v] = NoLease
        BY <1>3, <1>4, <2>1 DEF InHand
      <3> QED BY <3>2, <3>3
    <2>2. CASE HoldsLease(v) /\ lease[v].job # c
      <3>1. job'[lease[v].job] = job[lease[v].job]
        BY <1>3, <2>2 DEF IInv, HolderInv, Leases
      <3> QED BY <1>4, <2>2, <3>1, HandKept DEF Owner
    <2>3. CASE ~HoldsLease(v)
      BY <1>4, <2>3, HandKept
    <2> QED BY <2>1, <2>2, <2>3
  <1>6. InHand'[w] = NoLease
    BY <1>4 DEF InHand
  <1>7. InHand' = [InHand EXCEPT ![w] = NoLease]
    BY <1>5, <1>6 DEF InHand
  <1>8. OutOfTouch' = OutOfTouch \ {w}
    BY <1>4, <1>5, <1>6 DEF OutOfTouch
  <1>9. Queue!LetGo(w)
    BY <1>7, <1>8 DEF Queue!LetGo
  <1>10. \A j \in Jobs : j # c => Stored'[j] = Stored[j]
    BY <1>3 DEF Stored
  <1>11. Stored'[c] = [status |-> new.status, attempts |-> new.attempts,
                       result |-> new.result]
    BY <1>2, <1>3 DEF Stored
  <1> QED BY <1>2, <1>9, <1>10, <1>11

\* complete decides the job as succeeded, with the result of its last attempt.
LEMMA CompleteSucceeds ==
    ASSUME IInv, NEW w \in Workers, Complete(w)
    PROVE  Queue!Succeed(w)
  <1> DEFINE c == lease[w].job
             new == SucceededRow(job[c], lease[w].token)
  <1>1. Finishing(w) /\ Owns(w, age[w]) /\ BackToLoop(w) /\ HoldsLease(w)
        /\ ~LockedByClaim(c)
    BY DEF Complete, Finishing, HoldsLease
  <1>2. c \in Jobs /\ job[c] \in Row /\ lease[w].token = job[c].attempts
        /\ job \in [Jobs -> Row]
    BY <1>1, OwnerIsAlone DEF IInv, TypeOK
  <1>3. job' = [job EXCEPT ![c] = new]
    BY <1>2 DEF Complete
  <1>4. /\ new.attempts = job[c].attempts /\ new.status = "succeeded"
        /\ new.result = job[c].attempts
    BY <1>2 DEF SucceededRow, Row
  <1> HIDE DEF new
  <1>5. /\ InHand[w] = c /\ Queue!LetGo(w)
        /\ \A j \in Jobs : j # c => Stored'[j] = Stored[j]
        /\ Stored'[c] = [status |-> new.status, attempts |-> new.attempts,
                         result |-> new.result]
    BY <1>1, <1>3, <1>4, FinishLetsGo
  <1>6. Stored' = [Stored EXCEPT ![c].status = "succeeded", ![c].result = Stored[c].attempts]
    <2>1. Stored'[c] = [Stored[c] EXCEPT !.status = "succeeded", !.result = Stored[c].attempts]
      <3>1. Stored[c] = [status |-> job[c].status, attempts |-> job[c].attempts,
                         result |-> job[c].result]
        BY <1>2, StoredValues
      <3>2. Stored'[c] = [status |-> "succeeded", attempts |-> job[c].attempts,
                          result |-> job[c].attempts]
        BY <1>4, <1>5
      <3> DEFINE row == Stored[c]
                 n == job[c].attempts
                 s == job[c].status
                 r == job[c].result
      <3>3. row.attempts = n /\ row = [status |-> s, attempts |-> n, result |-> r]
        BY <3>1
      <3> HIDE DEF row, n, s, r
      <3> DEFINE mid == [row EXCEPT !.status = "succeeded"]
      <3>4. mid = [status |-> "succeeded", attempts |-> n, result |-> r]
        BY <3>3
      <3> HIDE DEF mid
      <3>5. [mid EXCEPT !.result = n] = [status |-> "succeeded", attempts |-> n, result |-> n]
        BY <3>4
      <3>6. [row EXCEPT !.status = "succeeded", !.result = row.attempts]
               = [status |-> "succeeded", attempts |-> n, result |-> n]
        BY <3>3, <3>5 DEF mid
      <3> QED BY <3>2, <3>6 DEF row, n
    <2> QED BY <1>2, <1>5, <2>1 DEF Stored
  <1> QED BY <1>2, <1>5, <1>6 DEF Queue!Succeed

\* fail gives the job back, or ends it after its last attempt.
LEMMA FailGivesBack ==
    ASSUME IInv, NEW w \in Workers, Fail(w)
    PROVE  Queue!GiveBack(w)
  <1> DEFINE c == lease[w].job
             delay == IF verdict[w] = "retry" THEN RetryAfter ELSE ShutdownRetryAfter
             new == FailedRow(job[c], delay, w)
  <1>1. Finishing(w) /\ Owns(w, age[w]) /\ BackToLoop(w) /\ HoldsLease(w)
        /\ ~LockedByClaim(c)
    BY DEF Fail, Finishing, HoldsLease
  <1>2. c \in Jobs /\ job[c] \in Row /\ job \in [Jobs -> Row]
    BY <1>1, OwnerIsAlone DEF IInv, TypeOK
  <1>3. job' = [job EXCEPT ![c] = new]
    BY <1>2 DEF Fail
  <1> HIDE DEF delay
  <1>4. /\ new.attempts = job[c].attempts /\ new.result = job[c].result
        /\ new.status = IF job[c].attempts < MaxAttempts THEN "queued" ELSE "dead"
    BY <1>2 DEF FailedRow, Row
  <1> HIDE DEF new
  <1>5. /\ InHand[w] = c /\ Queue!LetGo(w)
        /\ \A j \in Jobs : j # c => Stored'[j] = Stored[j]
        /\ Stored'[c] = [status |-> new.status, attempts |-> new.attempts,
                         result |-> new.result]
    BY <1>1, <1>3, <1>4, FinishLetsGo
  <1>6. Stored' = [Stored EXCEPT ![c].status =
                      IF Stored[c].attempts < MaxAttempts THEN "queued" ELSE "dead"]
    <2>1. Stored'[c] = [Stored[c] EXCEPT !.status =
                          IF Stored[c].attempts < MaxAttempts THEN "queued" ELSE "dead"]
      BY <1>2, <1>4, <1>5, StoredValues
    <2> QED BY <1>2, <1>5, <2>1 DEF Stored
  <1> QED BY <1>2, <1>5, <1>6 DEF Queue!GiveBack

\* The first enqueue of a dedupe key adds a job, later ones do nothing.
LEMMA EnqueueAdds ==
    ASSUME IInv, NEW j \in Jobs, Enqueue(j)
    PROVE  Queue!Enqueue(j) \/ UNCHANGED Queue!vars
  <1>1. CASE job[j].status # "absent"
    <2>1. job' = job
      BY <1>1 DEF Enqueue
    <2> QED BY <2>1, QuietStutters DEF Enqueue, HoldsLease
  <1>2. CASE job[j].status = "absent"
    <2>1. /\ job[j] \in Row /\ job \in [Jobs -> Row]
          /\ job' = [job EXCEPT ![j].status = "queued", ![j].available_at = 0]
      BY <1>2 DEF Enqueue, IInv, TypeOK
    <2>2. /\ job'[j].status = "queued" /\ job'[j].attempts = job[j].attempts
          /\ job'[j].result = job[j].result
          /\ \A k \in Jobs : k # j => job'[k] = job[k]
      BY <2>1 DEF Row
    <2>3. Stored' = [Stored EXCEPT ![j].status = "queued"]
      <3>1. Stored'[j] = [Stored[j] EXCEPT !.status = "queued"]
        BY <2>2, StoredValues DEF Stored
      <3>2. \A k \in Jobs : k # j => Stored'[k] = Stored[k]
        BY <2>2 DEF Stored
      <3> QED BY <3>1, <3>2 DEF Stored
    <2>4. ASSUME NEW v \in Workers
          PROVE  InHand'[v] = InHand[v]
      <3>1. HoldsLease(v)' <=> HoldsLease(v)
        BY DEF Enqueue, HoldsLease
      <3>2. ASSUME HoldsLease(v) PROVE Owner(v)' <=> Owner(v)
        <4>1. lease[v].job \in Jobs /\ lease'[v] = lease[v]
          BY <3>2 DEF IInv, HolderInv, Leases, Enqueue
        <4>2. CASE lease[v].job = j
          BY <1>2, <2>2, <4>1, <4>2 DEF Owner
        <4>3. CASE lease[v].job # j
          BY <2>2, <4>1, <4>3 DEF Owner
        <4> QED BY <4>2, <4>3
      <3> QED BY <3>1, <3>2, HandKept DEF Enqueue
    <2>5. InHand' = InHand
      BY <2>4 DEF InHand
    <2>6. OutOfTouch' = OutOfTouch
      BY <2>5 DEF OutOfTouch, Enqueue
    <2>7. Stored[j].status = "absent"
      BY <1>2, StoredValues
    <2> QED BY <2>3, <2>5, <2>6, <2>7 DEF Queue!Enqueue
  <1> QED BY <1>1, <1>2

\* A stalled event loop falls behind, if the job is still its own.
LEMMA StallFallsBehind ==
    ASSUME IInv, NEW w \in Workers, Stall(w)
    PROVE  Queue!FallBehind(w) \/ UNCHANGED Queue!vars
  <1>1. Stored' = Stored /\ InHand' = InHand
    BY DEF Stall, Stored, InHand, HoldsLease
  <1>2. /\ ~punctual'[w]
        /\ \A v \in Workers \ {w} : punctual'[v] = punctual[v]
    BY DEF Stall, IInv, TypeOK
  <1>3. CASE InHand[w] = NoLease
    <2>1. OutOfTouch' = OutOfTouch
      BY <1>1, <1>2, <1>3 DEF OutOfTouch
    <2> QED BY <1>1, <2>1 DEF Queue!vars
  <1>4. CASE InHand[w] # NoLease
    <2>1. OutOfTouch' = OutOfTouch \cup {w}
      BY <1>1, <1>2, <1>4 DEF OutOfTouch
    <2>2. InHand[w] \in Jobs
      BY <1>4, HandValues
    <2> QED BY <1>1, <2>1, <2>2 DEF Queue!FallBehind
  <1> QED BY <1>3, <1>4

\* Every step of the table and its workers is a step of the queue or none.
LEMMA StepImplements ==
    ASSUME IInv, FreshInv, [Next]_vars
    PROVE  [Queue!Next]_(Queue!vars)
  <1> SUFFICES Queue!Next \/ UNCHANGED Queue!vars
    OBVIOUS
  <1>0. /\ job \in [Jobs -> Row]
        /\ pc \in [Workers -> {"down", "idle", "claiming", "claimed", "executing",
                               "finishing"}]
        /\ lease \in [Workers -> Leases \cup {NoLease}]
    BY DEF IInv, TypeOK
  <1>1. ASSUME NEW j \in Jobs, Enqueue(j)
        PROVE  Queue!Next \/ UNCHANGED Queue!vars
    BY <1>1, EnqueueAdds DEF Queue!Next
  <1>2. ASSUME NEW w \in Workers,
               Crash(w) \/ StopIdle(w) \/ RenewLeaseLost(w) \/ FinishLeaseLost(w)
        PROVE  Queue!Next
    BY <1>2, ExitForgets
       DEF Crash, StopIdle, RenewLeaseLost, FinishLeaseLost, Queue!Next
  <1>3. ASSUME NEW w \in Workers,
               \/ Start(w) \/ BeginClaim(w) \/ BeginRenew(w) \/ Sigterm(w)
               \/ \E j \in Jobs : ClaimSelect(w, j)
        PROVE  UNCHANGED Queue!vars
    <2>1. UNCHANGED <<job, punctual>>
      BY <1>3 DEF Start, BeginClaim, BeginRenew, Sigterm, ClaimSelect
    <2>2. \A v \in Workers : HoldsLease(v)' <=> HoldsLease(v)
      BY <1>0, <1>3 DEF Start, BeginClaim, BeginRenew, Sigterm, ClaimSelect, HoldsLease
    <2>3. \A v \in Workers : HoldsLease(v) => lease'[v] = lease[v]
      BY <1>0, <1>3 DEF Start, BeginClaim, BeginRenew, Sigterm, ClaimSelect, HoldsLease
    <2> QED BY <2>1, <2>2, <2>3, QuietStutters
  <1>4. ASSUME NEW w \in Workers,
               ExecutionEnds(w) \/ ShutdownDuringExecution(w) \/ HeartbeatFails(w)
        PROVE  UNCHANGED Queue!vars
    <2>1. PICK v \in {"complete", "retry", "shutdown"} : FinishWith(w, v)
      BY <1>4 DEF ExecutionEnds, ShutdownDuringExecution, HeartbeatFails
    <2>2. UNCHANGED <<job, lease, punctual>>
      BY <2>1 DEF FinishWith
    <2>3. \A u \in Workers : HoldsLease(u)' <=> HoldsLease(u)
      BY <1>0, <2>1 DEF FinishWith, HoldsLease
    <2> QED BY <2>2, <2>3, QuietStutters
  <1>5. ASSUME NEW w \in Workers, RenewCommit(w)
        PROVE  UNCHANGED Queue!vars
    <2>1. /\ job' = [job EXCEPT ![lease[w].job].lease_expires_at = LeaseFor - beat[w].age]
          /\ UNCHANGED <<pc, lease, punctual>>
      BY <1>5 DEF RenewCommit
    <2>2. \A j \in Jobs : /\ job'[j].status = job[j].status
                          /\ job'[j].attempts = job[j].attempts
                          /\ job'[j].lease_token = job[j].lease_token
                          /\ job'[j].result = job[j].result
      BY <1>0, <2>1 DEF Row
    <2>3. \A u \in Workers : HoldsLease(u)' <=> HoldsLease(u)
      BY <2>1 DEF HoldsLease
    <2> QED BY <2>1, <2>2, <2>3, QuietStutters
  <1>6. ASSUME NEW w \in Workers, ClaimNone(w)
        PROVE  Queue!Next
    BY <1>6, ClaimNoneBuries, SweepIsHopeless DEF Queue!Next
  <1>7. ASSUME NEW w \in Workers, ClaimCommit(w)
        PROVE  Queue!Next
    <2>1. lease[w].job \in Jobs
      BY <1>7, ClaimedRowValues DEF ClaimCommit
    <2>2. Queue!Take(w, lease[w].job, Expired(w)) /\ Expired(w) \in SUBSET Jobs
      BY <1>7, ClaimCommitTakes, SweepIsHopeless
    <2> QED BY <2>1, <2>2 DEF Queue!Next
  <1>8. ASSUME NEW w \in Workers, Complete(w)
        PROVE  Queue!Next
    BY <1>8, CompleteSucceeds DEF Queue!Next
  <1>9. ASSUME NEW w \in Workers, Fail(w)
        PROVE  Queue!Next
    BY <1>9, FailGivesBack DEF Queue!Next
  <1>10. ASSUME NEW w \in Workers, Stall(w)
         PROVE  Queue!Next \/ UNCHANGED Queue!vars
    BY <1>10, StallFallsBehind DEF Queue!Next
  <1>11. CASE Tick
    <2>1. UNCHANGED <<pc, lease, punctual>>
      BY <1>11 DEF Tick
    <2>2. \A j \in Jobs : /\ job'[j].status = job[j].status
                          /\ job'[j].attempts = job[j].attempts
                          /\ job'[j].lease_token = job[j].lease_token
                          /\ job'[j].result = job[j].result
      BY <1>0, <1>11 DEF Tick, Row
    <2>3. \A u \in Workers : HoldsLease(u)' <=> HoldsLease(u)
      BY <2>1 DEF HoldsLease
    <2> QED BY <2>1, <2>2, <2>3, QuietStutters
  <1>12. CASE UNCHANGED vars
    BY <1>12, QuietStutters DEF vars, HoldsLease
  <1> QED BY <1>1, <1>2, <1>3, <1>4, <1>5, <1>6, <1>7, <1>8, <1>9, <1>10, <1>11, <1>12
          DEF Next, WorkerStep

\* The job table with its leases, tokens, heartbeats and transactions is a
\* queue that keeps the promise of JobQueue: whatever the workers suffer, a job
\* has one holder, a holder that keeps up is not robbed, and only it decides.
THEOREM TableImplementsQueue == Spec => ImplementsJobQueue
  <1>1. Init => Queue!Init
    <2> SUFFICES ASSUME Init PROVE Queue!Init
      OBVIOUS
    <2>1. Stored = [j \in Jobs |-> [status |-> "absent", attempts |-> 0, result |-> 0]]
      BY DEF Init, Stored
    <2>2. InHand = [w \in Workers |-> NoLease]
      BY DEF Init, InHand, HoldsLease
    <2>3. OutOfTouch = {}
      BY <2>2 DEF OutOfTouch
    <2> QED BY <2>1, <2>2, <2>3 DEF Queue!Init
  <1>2. Init => FreshInv
    BY DEF Init, FreshInv
  <1>3. IInv /\ FreshInv /\ [Next]_vars => [Queue!Next]_(Queue!vars)
    BY StepImplements
  <1>4. Spec => []FreshInv
    BY <1>2, NextFreshInv, Invariance, PTL DEF Spec
  <1> QED BY <1>1, <1>3, <1>4, Invariance, PTL DEF Spec, ImplementsJobQueue, Queue!Spec

=============================================================================
