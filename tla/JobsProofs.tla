----------------------------- MODULE JobsProofs -----------------------------
(***************************************************************************)
(* Proofs about Jobs, for any set of processes, overlapping ticks and      *)
(* jobs, any retry limits and any number of crashes and failing writes.    *)
(*                                                                         *)
(* SingleRunner is not inductive: that a claim cannot take a job out of    *)
(* the hands of another tick follows from HoldsItsRow (a held row is not   *)
(* PENDING), and that a catch block parks a job at exactly maxAttempts     *)
(* from AttemptsWithinLimit.  IInv joins the four.                         *)
(***************************************************************************)
EXTENDS Jobs, FiniteSetTheorems, TLAPS

USE JobsAssumption

IInv == TypeOK /\ HoldsItsRow /\ SingleRunner /\ AttemptsWithinLimit

\* The exponential backoff is a number of periods (2^k counts a set of subsets).
LEMMA BackoffType == ASSUME NEW n \in Nat \ {0} PROVE Backoff(n) \in Nat
<1>1. IsFiniteSet(1 .. (n - 1)) /\ Cardinality(1 .. (n - 1)) = n - 1
  BY FS_Interval
<1>2. 2 ^ (n - 1) \in Nat
  BY <1>1, FS_SUBSET, FS_CardinalityType
<1>3. ASSUME NEW p \in Nat PROVE BackoffBase * p \in Nat
  OBVIOUS
<1> QED BY <1>2, <1>3 DEF Backoff

\* A step of one tick leaves every other tick where it was.
LEMMA SetTickEffect ==
  ASSUME TypeOK, NEW i \in Instance, NEW s \in Slot, NEW t \in Tick, SetTick(i, s, t)
  PROVE  /\ tick' \in [Instance -> [Slot -> Tick]]
         /\ \A k \in Instance, r \in Slot :
              tick'[k][r] = IF k = i /\ r = s THEN t ELSE tick[k][r]
BY DEF SetTick, TypeOK

-----------------------------------------------------------------------------
\* The election's variables keep their types whatever the queue does.
LEMMA ElectionTypes ==
  ASSUME TypeOK,
         \/ \E i \in Instance : Election!TryAcquire(i) \/ Election!LoseHolder(i)
         \/ Election!Age
         \/ UNCHANGED leaseVars
  PROVE  /\ lease' \in [holder : Instance \union {Gone, Nobody}, left : Election!Lefts]
         /\ since' \in [Instance -> 0 .. Election!Stale]
         /\ crashes' \in 0 .. MaxCrashes
<1> USE DEF TypeOK, Election!Lefts, Election!Stale, Election!Skews
<1>1. ASSUME NEW i \in Instance, Election!TryAcquire(i) PROVE
         /\ lease' \in [holder : Instance \union {Gone, Nobody}, left : Election!Lefts]
         /\ since' \in [Instance -> 0 .. Election!Stale]
         /\ crashes' \in 0 .. MaxCrashes
  BY <1>1 DEF Election!TryAcquire
<1>2. ASSUME NEW i \in Instance, Election!LoseHolder(i) PROVE
         /\ lease' \in [holder : Instance \union {Gone, Nobody}, left : Election!Lefts]
         /\ since' \in [Instance -> 0 .. Election!Stale]
         /\ crashes' \in 0 .. MaxCrashes
  BY <1>2 DEF Election!LoseHolder
<1>3. CASE Election!Age
  BY <1>3 DEF Election!Age
<1>4. CASE UNCHANGED leaseVars
  BY <1>4 DEF leaseVars
<1> QED BY <1>1, <1>2, <1>3, <1>4

\* Steps that change rows nobody holds and no tick: the callers, time.
LEMMA RowStep ==
  ASSUME IInv, TypeOK', UNCHANGED tick,
         \A j \in Job :
           \/ job'[j] = job[j]
           \/ /\ job'[j].status = job[j].status
              /\ job'[j].attempts = job[j].attempts
           \/ /\ job[j].status \in {"absent", "DEAD"}
              /\ job'[j].status = "PENDING" /\ job'[j].attempts = 0
  PROVE  IInv'
<1>1. HoldsItsRow'
  BY DEF IInv, HoldsItsRow, Busy
<1>2. SingleRunner'
  BY DEF IInv, SingleRunner, Busy
<1>3. AttemptsWithinLimit'
  BY DEF IInv, AttemptsWithinLimit, TypeOK, Row, Status
<1> QED BY <1>1, <1>2, <1>3 DEF IInv

\* Steps after which the tick holds no job, and that change at most the row it
\* held and rows that nobody holds.
LEMMA FreeStep ==
  ASSUME IInv, TypeOK', NEW i \in Instance, NEW s \in Slot, NEW t \in Tick,
         SetTick(i, s, t), ~Busy(t),
         \A j \in Job : \/ job'[j] = job[j] \/ job[j].status = "PENDING"
                        \/ Busy(tick[i][s]) /\ tick[i][s].job = j,
         AttemptsWithinLimit'
  PROVE  IInv'
<1>1. \A k \in Instance, r \in Slot :
        tick'[k][r] = IF k = i /\ r = s THEN t ELSE tick[k][r]
  BY SetTickEffect DEF IInv
<1>2. ASSUME NEW k \in Instance, NEW r \in Slot, Busy(tick'[k][r])
      PROVE  /\ tick'[k][r] = tick[k][r] /\ tick[k][r].job \in Job
             /\ job'[tick[k][r].job] = job[tick[k][r].job]
  <2>1. tick'[k][r] = tick[k][r] /\ ~(k = i /\ r = s)
    BY <1>1, <1>2
  <2>2. tick[k][r].job \in Job
    BY <1>2, <2>1 DEF IInv, HoldsItsRow
  <2>3. ~(Busy(tick[i][s]) /\ tick[i][s].job = tick[k][r].job)
    BY <1>2, <2>1 DEF IInv, SingleRunner
  <2>4. job[tick[k][r].job].status # "PENDING"
    BY <1>2, <2>1 DEF IInv, HoldsItsRow
  <2> QED BY <2>1, <2>2, <2>3, <2>4
<1>3. HoldsItsRow'
  BY <1>2 DEF IInv, HoldsItsRow, Busy
<1>4. SingleRunner'
  BY <1>2 DEF IInv, SingleRunner, Busy
<1> QED BY <1>3, <1>4 DEF IInv

\* Steps of a tick that goes on holding its job.
LEMMA HoldStep ==
  ASSUME IInv, TypeOK', NEW i \in Instance, NEW s \in Slot, NEW p \in {"completing", "catching"},
         tick[i][s].pc \in {"running", "completing"},
         SetTick(i, s, [tick[i][s] EXCEPT !.pc = p]),
         \/ UNCHANGED job
         \/ p = "catching" /\ job' = Completed(tick[i][s].job)
  PROVE  IInv'
<1> DEFINE u == tick[i][s]
           j == u.job
<1>1. u \in Tick
  BY DEF IInv, TypeOK
<1>2. PICK t \in Tick : t = [u EXCEPT !.pc = p]
  BY <1>1 DEF Tick
<1>3. Busy(t) /\ t.job = j /\ t.attempts = u.attempts /\ t.drained = u.drained /\ t.pc = p
  BY <1>1, <1>2 DEF Tick, Busy
<1>4. \A k \in Instance, r \in Slot :
        tick'[k][r] = IF k = i /\ r = s THEN t ELSE tick[k][r]
  BY <1>2, SetTickEffect DEF IInv
<1>5. Busy(u) /\ j \in Job /\ u.drained < MaxPerTick /\ job[j].status = "RUNNING"
      /\ u.attempts = job[j].attempts
  BY DEF IInv, HoldsItsRow, Busy
<1>6. /\ \A k \in Job : job'[k].attempts = job[k].attempts
      /\ \A k \in Job \ {j} : job'[k] = job[k]
      /\ job'[j].status = "RUNNING" \/ (p = "catching" /\ job'[j].status = "COMPLETED")
  <2>1. CASE UNCHANGED job
    BY <2>1, <1>5
  <2>2. CASE p = "catching" /\ job' = Completed(j)
    <3>1. job \in [Job -> Row] /\ job[j] \in Row
      BY <1>5 DEF IInv, TypeOK
    <3>2. job'[j].status = "COMPLETED" /\ job'[j].attempts = job[j].attempts
      BY <2>2, <3>1, <1>5 DEF Completed, Row
    <3>3. \A k \in Job \ {j} : job'[k] = job[k]
      BY <2>2, <3>1, <1>5 DEF Completed
    <3> QED BY <2>2, <3>2, <3>3
  <2> QED BY <2>1, <2>2
<1>7. HoldsItsRow'
  <2> SUFFICES ASSUME NEW k \in Instance, NEW r \in Slot, Busy(tick'[k][r])
               PROVE  /\ tick'[k][r].job \in Job /\ tick'[k][r].drained < MaxPerTick
                      /\ tick'[k][r].attempts = job'[tick'[k][r].job].attempts
                      /\ \/ job'[tick'[k][r].job].status = "RUNNING"
                         \/ /\ tick'[k][r].pc = "catching"
                            /\ job'[tick'[k][r].job].status = "COMPLETED"
    BY DEF HoldsItsRow
  <2>1. CASE k = i /\ r = s
    BY <2>1, <1>3, <1>4, <1>5, <1>6
  <2>2. CASE ~(k = i /\ r = s)
    <3>1. tick'[k][r] = tick[k][r] /\ tick[k][r].job \in Job /\ tick[k][r].job # j
      BY <2>2, <1>4, <1>5 DEF IInv, HoldsItsRow, SingleRunner
    <3> QED BY <3>1, <1>6 DEF IInv, HoldsItsRow
  <2> QED BY <2>1, <2>2
<1>8. SingleRunner'
  BY <1>3, <1>4, <1>5 DEF IInv, SingleRunner
<1>9. AttemptsWithinLimit'
  BY <1>5, <1>6 DEF IInv, AttemptsWithinLimit
<1> QED BY <1>7, <1>8, <1>9 DEF IInv

\* The claim: the row leaves PENDING, which nobody holds, for this tick alone.
LEMMA ClaimStep ==
  ASSUME IInv, TypeOK', NEW i \in Instance, NEW s \in Slot, NEW j \in Job, Claim(i, s, j)
  PROVE  IInv'
<1>1. PICK t \in Tick :
        /\ SetTick(i, s, t)
        /\ t.pc = "running" /\ t.job = j /\ t.attempts = job[j].attempts + 1
        /\ t.drained = tick[i][s].drained /\ t.drained < MaxPerTick
  <2> DEFINE t == [pc |-> "running", job |-> j, attempts |-> job[j].attempts + 1,
                   drained |-> tick[i][s].drained]
  <2>1. job[j].attempts \in Nat /\ tick[i][s].drained \in 0 .. MaxPerTick
    BY DEF IInv, TypeOK, Row, Tick
  <2>2. t \in Tick
    BY <2>1 DEF Tick
  <2> QED BY <2>2 DEF Claim
<1>2. \A k \in Instance, r \in Slot :
        tick'[k][r] = IF k = i /\ r = s THEN t ELSE tick[k][r]
  BY <1>1, SetTickEffect DEF IInv
<1>3. job[j].status = "PENDING" /\ job[j].attempts < MaxAttempts[j] /\ job[j].attempts \in Nat
  BY DEF IInv, AttemptsWithinLimit, TypeOK, Row, Claim, Earliest, Due
<1>4. /\ job'[j].status = "RUNNING" /\ job'[j].attempts = job[j].attempts + 1
      /\ \A k \in Job \ {j} : job'[k] = job[k]
  BY DEF Claim, Claimed, IInv, TypeOK, Row
<1>5. ASSUME NEW k \in Instance, NEW r \in Slot, Busy(tick[k][r])
      PROVE  tick[k][r].job \in Job \ {j}
  BY <1>3, <1>5 DEF IInv, HoldsItsRow
<1>6. HoldsItsRow'
  <2> SUFFICES ASSUME NEW k \in Instance, NEW r \in Slot, Busy(tick'[k][r])
               PROVE  /\ tick'[k][r].job \in Job /\ tick'[k][r].drained < MaxPerTick
                      /\ tick'[k][r].attempts = job'[tick'[k][r].job].attempts
                      /\ \/ job'[tick'[k][r].job].status = "RUNNING"
                         \/ /\ tick'[k][r].pc = "catching"
                            /\ job'[tick'[k][r].job].status = "COMPLETED"
    BY DEF HoldsItsRow
  <2>1. CASE k = i /\ r = s
    BY <2>1, <1>1, <1>2, <1>4
  <2>2. CASE ~(k = i /\ r = s)
    <3>1. tick'[k][r] = tick[k][r] /\ tick[k][r].job \in Job \ {j}
      BY <2>2, <1>2, <1>5
    <3> QED BY <3>1, <1>4 DEF IInv, HoldsItsRow
  <2> QED BY <2>1, <2>2
<1>7. SingleRunner'
  <2> SUFFICES ASSUME NEW k \in Instance, NEW r \in Slot, Busy(tick'[k][r]),
                      NEW m \in Instance, NEW q \in Slot, Busy(tick'[m][q]),
                      tick'[k][r].job = tick'[m][q].job
               PROVE  k = m /\ r = q
    BY DEF SingleRunner
  <2>1. CASE (k = i /\ r = s) \/ (m = i /\ q = s)
    BY <2>1, <1>1, <1>2, <1>5
  <2>2. CASE ~(k = i /\ r = s) /\ ~(m = i /\ q = s)
    <3>1. tick'[k][r] = tick[k][r] /\ tick'[m][q] = tick[m][q]
      BY <2>2, <1>2
    <3>2. (Busy(tick[k][r]) /\ Busy(tick[m][q]) /\ tick[k][r].job = tick[m][q].job)
            => (k = m /\ r = q)
      BY DEF IInv, SingleRunner
    <3> QED BY <3>1, <3>2 DEF Busy
  <2> QED BY <2>1, <2>2
<1>8. AttemptsWithinLimit'
  BY <1>3, <1>4 DEF IInv, AttemptsWithinLimit
<1> QED BY <1>6, <1>7, <1>8 DEF IInv

-----------------------------------------------------------------------------
\* The rows keep their types under everything the code writes to them.
LEMMA RowTypes ==
  ASSUME TypeOK, NEW j \in Job
  PROVE  /\ \A d \in Nat : Fresh(j, d) \in [Job -> Row]
         /\ Claimed(j) \in [Job -> Row]
         /\ Completed(j) \in [Job -> Row]
         /\ \A t : t.job = j /\ t.attempts \in Nat \ {0} => Caught(t) \in [Job -> Row]
<1>1. job \in [Job -> Row] /\ job[j] \in Row
  BY DEF TypeOK
<1>2. \A d \in Nat : Fresh(j, d) \in [Job -> Row]
  BY <1>1 DEF Fresh, Row, Status
<1>3. Claimed(j) \in [Job -> Row]
  BY <1>1 DEF Claimed, Row, Status
<1>4. Completed(j) \in [Job -> Row]
  BY <1>1 DEF Completed, Row, Status
<1>5. ASSUME NEW t, t.job = j, t.attempts \in Nat \ {0} PROVE Caught(t) \in [Job -> Row]
  <2>1. PICK w \in Nat : w = Backoff(t.attempts)
    BY <1>5, BackoffType
  <2>2. [job EXCEPT ![j].status = "DEAD"] \in [Job -> Row]
    BY <1>1 DEF Row, Status
  <2>3. [job EXCEPT ![j] = [status |-> "PENDING", attempts |-> job[j].attempts, wait |-> w]]
          \in [Job -> Row]
    BY <1>1 DEF Row, Status
  <2> QED BY <1>5, <2>1, <2>2, <2>3 DEF Caught
<1> QED BY <1>2, <1>3, <1>4, <1>5

\* A tick that holds a job took it with at least one attempt.
LEMMA HeldAttempts ==
  ASSUME IInv, NEW i \in Instance, NEW s \in Slot, tick[i][s].pc \in {"completing", "catching"}
  PROVE  /\ tick[i][s].job \in Job /\ tick[i][s].drained < MaxPerTick
         /\ tick[i][s].drained \in Nat
         /\ tick[i][s].attempts \in Nat \ {0}
         /\ tick[i][s].attempts = job[tick[i][s].job].attempts
         /\ tick[i][s].attempts <= MaxAttempts[tick[i][s].job]
<1>1. tick[i][s] \in Tick /\ Busy(tick[i][s])
  BY DEF IInv, TypeOK, Busy
<1> QED BY <1>1 DEF IInv, HoldsItsRow, AttemptsWithinLimit, Tick

\* Writing the outcome of a held job keeps the attempts of every job in bounds.
LEMMA OutcomeKeepsAttempts ==
  ASSUME IInv, NEW i \in Instance, NEW s \in Slot,
         \/ tick[i][s].pc = "completing" /\ job' = Completed(tick[i][s].job)
         \/ tick[i][s].pc = "catching" /\ job' = Caught(tick[i][s])
  PROVE  /\ AttemptsWithinLimit'
         /\ \A k \in Job : k # tick[i][s].job => job'[k] = job[k]
<1> DEFINE j == tick[i][s].job
           n == tick[i][s].attempts
<1>1. j \in Job /\ n \in Nat \ {0} /\ n = job[j].attempts /\ n <= MaxAttempts[j]
  BY HeldAttempts
<1>2. job \in [Job -> Row] /\ job[j] \in Row
  BY <1>1 DEF IInv, TypeOK
<1>3. CASE job' = Completed(j)
  <2>1. job'[j].status = "COMPLETED" /\ job'[j].attempts = n
    BY <1>1, <1>2, <1>3 DEF Completed, Row
  <2>2. \A k \in Job : k # j => job'[k] = job[k]
    BY <1>1, <1>2, <1>3 DEF Completed
  <2> QED BY <1>1, <2>1, <2>2 DEF IInv, AttemptsWithinLimit
<1>4. CASE job' = Caught(tick[i][s])
  <2>1. CASE n >= MaxAttempts[j]
    <3>1. job' = [job EXCEPT ![j].status = "DEAD"]
      BY <1>4, <2>1 DEF Caught
    <3>2. job'[j].status = "DEAD" /\ job'[j].attempts = n
      BY <1>1, <1>2, <3>1 DEF Row
    <3>3. \A k \in Job : k # j => job'[k] = job[k]
      BY <1>2, <3>1
    <3> QED BY <1>1, <2>1, <3>2, <3>3 DEF IInv, AttemptsWithinLimit
  <2>2. CASE ~(n >= MaxAttempts[j])
    <3>1. job' = [job EXCEPT ![j] = [status |-> "PENDING", attempts |-> job[j].attempts,
                                     wait |-> Backoff(n)]]
      BY <1>4, <2>2 DEF Caught
    <3>2. job'[j].status = "PENDING" /\ job'[j].attempts = n
      BY <1>1, <1>2, <3>1
    <3>3. \A k \in Job : k # j => job'[k] = job[k]
      BY <1>2, <3>1
    <3> QED BY <1>1, <2>2, <3>2, <3>3 DEF IInv, AttemptsWithinLimit
  <2> QED BY <2>1, <2>2
<1> QED BY <1>3, <1>4

\* A tick between two jobs, or over.
LEMMA RestTicks ==
  /\ Idle \in Tick /\ ~Busy(Idle)
  /\ \A n \in 0 .. MaxPerTick : Polling(n) \in Tick /\ ~Busy(Polling(n))
BY DEF Idle, Polling, Tick, Busy

\* One step of the queue keeps all four parts.
LEMMA NextKeeps == ASSUME IInv, [Next]_vars PROVE IInv'
<1> USE RestTicks
<1>0. TypeOK
  BY DEF IInv
<1>1. ASSUME NEW j \in Job, NEW d \in Delays, Enqueue(j, d) PROVE IInv'
  <2>1. TypeOK'
    BY <1>1, <1>0, RowTypes, ElectionTypes DEF Enqueue, TypeOK, leaseVars
  <2> QED BY <1>1, <1>0, <2>1, RowStep DEF Enqueue, Fresh, TypeOK, Row
<1>2. ASSUME NEW j \in Job, RetryDead(j) PROVE IInv'
  <2>1. TypeOK'
    BY <1>2, <1>0, RowTypes, ElectionTypes DEF RetryDead, TypeOK, leaseVars
  <2> QED BY <1>2, <1>0, <2>1, RowStep DEF RetryDead, Fresh, TypeOK, Row
<1>3. ASSUME NEW i \in Instance, NEW s \in Slot, StartTick(i, s) PROVE IInv'
  <2>1. SetTick(i, s, Polling(0)) /\ UNCHANGED job
    BY <1>3 DEF StartTick
  <2>2. TypeOK'
    BY <1>3, <1>0, <2>1, SetTickEffect, ElectionTypes DEF StartTick, TypeOK
  <2>3. AttemptsWithinLimit'
    BY <2>1 DEF IInv, AttemptsWithinLimit
  <2> QED BY <2>1, <2>2, <2>3, FreeStep
<1>4. ASSUME NEW i \in Instance, NEW s \in Slot, NEW j \in Job, Claim(i, s, j) PROVE IInv'
  <2>1. tick[i][s].drained \in 0 .. MaxPerTick /\ job[j].attempts \in Nat
    BY <1>0 DEF TypeOK, Tick, Row
  <2>2. PICK t \in Tick : SetTick(i, s, t)
    BY <1>4, <2>1 DEF Claim, Tick
  <2>3. TypeOK'
    BY <1>4, <1>0, <2>2, SetTickEffect, RowTypes, ElectionTypes DEF Claim, TypeOK, leaseVars
  <2> QED BY <1>4, <2>3, ClaimStep
<1>5. ASSUME NEW i \in Instance, NEW s \in Slot, ClaimFails(i, s) \/ ClaimUnread(i, s) PROVE IInv'
  <2>1. SetTick(i, s, Idle)
    BY <1>5 DEF ClaimFails, ClaimUnread
  <2>2. TypeOK'
    BY <1>5, <1>0, <2>1, SetTickEffect, RowTypes, ElectionTypes DEF ClaimFails, ClaimUnread, TypeOK, leaseVars
  <2>3. CASE UNCHANGED job
    <3>1. AttemptsWithinLimit'
      BY <2>3 DEF IInv, AttemptsWithinLimit
    <3> QED BY <2>1, <2>2, <2>3, <3>1, FreeStep
  <2>4. ASSUME NEW j \in Job, Earliest(j), job' = Claimed(j) PROVE IInv'
    <3>1. job[j].status = "PENDING" /\ job[j].attempts < MaxAttempts[j] /\ job[j].attempts \in Nat
      BY <1>0, <2>4 DEF IInv, AttemptsWithinLimit, TypeOK, Row, Earliest, Due
    <3>2. /\ job'[j].status = "RUNNING" /\ job'[j].attempts = job[j].attempts + 1
          /\ \A k \in Job \ {j} : job'[k] = job[k]
      BY <1>0, <2>4 DEF Claimed, TypeOK
    <3>3. AttemptsWithinLimit'
      BY <3>1, <3>2 DEF IInv, AttemptsWithinLimit
    <3> QED BY <2>1, <2>2, <3>1, <3>2, <3>3, FreeStep
  <2> QED BY <1>5, <2>3, <2>4 DEF ClaimFails, ClaimUnread
<1>6. ASSUME NEW i \in Instance, NEW s \in Slot, StopTick(i, s) PROVE IInv'
  <2>1. SetTick(i, s, Idle) /\ UNCHANGED job
    BY <1>6 DEF StopTick
  <2>2. TypeOK'
    BY <1>6, <1>0, <2>1, SetTickEffect, ElectionTypes DEF StopTick, TypeOK, leaseVars
  <2>3. AttemptsWithinLimit'
    BY <2>1 DEF IInv, AttemptsWithinLimit
  <2> QED BY <2>1, <2>2, <2>3, FreeStep
<1>7. ASSUME NEW i \in Instance, NEW s \in Slot, NEW p \in {"completing", "catching"},
             tick[i][s].pc \in {"running", "completing"},
             SetTick(i, s, [tick[i][s] EXCEPT !.pc = p]),
             \/ UNCHANGED job
             \/ p = "catching" /\ job' = Completed(tick[i][s].job),
             UNCHANGED leaseVars, UNCHANGED retries, UNCHANGED answer,
             done' \in [Job -> 0 .. 2], faults' \in 0 .. MaxFaults
      PROVE  IInv'
  <2>1. tick[i][s] \in Tick /\ Busy(tick[i][s])
    BY <1>7, <1>0 DEF TypeOK, Busy
  <2>2. [tick[i][s] EXCEPT !.pc = p] \in Tick /\ tick[i][s].job \in Job
    BY <2>1 DEF Tick, IInv, HoldsItsRow
  <2>3. job' \in [Job -> Row]
    BY <1>7, <1>0, <2>2, RowTypes DEF TypeOK
  <2>4. TypeOK'
    BY <1>7, <1>0, <2>2, <2>3, SetTickEffect, ElectionTypes DEF TypeOK
  <2> QED BY <1>7, <2>4, HoldStep
<1>8. ASSUME NEW i \in Instance, NEW s \in Slot, HandlerSucceeds(i, s) PROVE IInv'
  <2>1. tick[i][s].job \in Job
    BY <1>8 DEF HandlerSucceeds, IInv, HoldsItsRow, Busy
  <2>2. done' \in [Job -> 0 .. 2] /\ faults' \in 0 .. MaxFaults
    BY <1>8, <1>0, <2>1 DEF HandlerSucceeds, TypeOK
  <2> QED BY <1>7, <1>8, <2>2 DEF HandlerSucceeds
<1>9. ASSUME NEW i \in Instance, NEW s \in Slot, HandlerThrows(i, s) PROVE IInv'
  <2>1. done' \in [Job -> 0 .. 2] /\ faults' \in 0 .. MaxFaults
    BY <1>9, <1>0 DEF HandlerThrows, TypeOK
  <2> QED BY <1>7, <1>9, <2>1 DEF HandlerThrows
<1>10. ASSUME NEW i \in Instance, NEW s \in Slot, CompleteFails(i, s) PROVE IInv'
  <2>1. done' \in [Job -> 0 .. 2] /\ faults' \in 0 .. MaxFaults
    BY <1>10, <1>0 DEF CompleteFails, TypeOK
  <2> QED BY <1>7, <1>10, <2>1 DEF CompleteFails
<1>11. ASSUME NEW i \in Instance, NEW s \in Slot, NEW t \in Tick, ~Busy(t), SetTick(i, s, t),
              tick[i][s].pc \in {"completing", "catching"},
              \/ UNCHANGED job
              \/ tick[i][s].pc = "completing" /\ job' = Completed(tick[i][s].job)
              \/ tick[i][s].pc = "catching" /\ job' = Caught(tick[i][s]),
              UNCHANGED <<answer, leaseVars, retries, done>>, faults' \in 0 .. MaxFaults
       PROVE  IInv'
  <2>1. tick[i][s].job \in Job /\ Busy(tick[i][s]) /\ tick[i][s].attempts \in Nat \ {0}
    BY <1>11, HeldAttempts DEF Busy
  <2>2. job' \in [Job -> Row]
    BY <1>11, <1>0, <2>1, RowTypes DEF TypeOK
  <2>3. TypeOK'
    BY <1>11, <1>0, <2>2, SetTickEffect, ElectionTypes DEF TypeOK, leaseVars
  <2>4. CASE UNCHANGED job
    <3>1. AttemptsWithinLimit'
      BY <2>4 DEF IInv, AttemptsWithinLimit
    <3> QED BY <1>11, <2>3, <2>4, <3>1, FreeStep
  <2>5. CASE ~UNCHANGED job
    <3>1. /\ AttemptsWithinLimit'
          /\ \A k \in Job : k # tick[i][s].job => job'[k] = job[k]
      BY <1>11, <2>5, OutcomeKeepsAttempts
    <3> QED BY <1>11, <2>1, <2>3, <3>1, FreeStep
  <2> QED BY <2>4, <2>5
<1>12. ASSUME NEW i \in Instance, NEW s \in Slot, Complete(i, s) \/ Catch(i, s) PROVE IInv'
  <2>1. tick[i][s].drained + 1 \in 0 .. MaxPerTick
    BY <1>12, HeldAttempts DEF Complete, Catch
  <2>2. PICK t \in Tick : ~Busy(t) /\ SetTick(i, s, t)
    BY <1>12, <2>1 DEF Complete, Catch, NextJob
  <2>3. faults' \in 0 .. MaxFaults
    BY <1>12, <1>0 DEF Complete, Catch, TypeOK
  <2> QED BY <1>11, <1>12, <2>2, <2>3 DEF Complete, Catch
<1>13. ASSUME NEW i \in Instance, NEW s \in Slot, CatchFails(i, s) PROVE IInv'
  <2>1. faults' \in 0 .. MaxFaults
    BY <1>13, <1>0 DEF CatchFails, TypeOK
  <2> QED BY <1>11, <1>13, <2>1 DEF CatchFails
<1>14. ASSUME NEW i \in Instance, Crash(i) PROVE IInv'
  <2>1. TypeOK'
    BY <1>14, <1>0, ElectionTypes DEF Crash, TypeOK
  <2>2. \A k \in Instance, r \in Slot : tick'[k][r] = IF k = i THEN Idle ELSE tick[k][r]
    BY <1>14, <1>0 DEF Crash, TypeOK
  <2>3. UNCHANGED job
    BY <1>14 DEF Crash
  <2>4. HoldsItsRow'
    BY <2>2, <2>3 DEF IInv, HoldsItsRow, Busy, Idle
  <2>5. SingleRunner'
    BY <2>2 DEF IInv, SingleRunner, Busy, Idle
  <2>6. AttemptsWithinLimit'
    BY <2>3 DEF IInv, AttemptsWithinLimit
  <2> QED BY <2>1, <2>4, <2>5, <2>6 DEF IInv
<1>15. ASSUME TimePasses PROVE IInv'
  <2>1. \A j \in Job : /\ job'[j] \in Row /\ job'[j].status = job[j].status
                       /\ job'[j].attempts = job[j].attempts
    BY <1>15, <1>0 DEF TimePasses, TypeOK, Row
  <2>2. TypeOK'
    BY <1>15, <1>0, <2>1, ElectionTypes DEF TimePasses, TypeOK
  <2>3. UNCHANGED tick
    BY <1>15 DEF TimePasses
  <2> QED BY <2>1, <2>2, <2>3, RowStep
<1>16. CASE UNCHANGED vars
  BY <1>16 DEF vars, IInv, TypeOK, HoldsItsRow, SingleRunner, AttemptsWithinLimit
<1> QED
  BY <1>1, <1>2, <1>3, <1>4, <1>5, <1>6, <1>8, <1>9, <1>10, <1>12, <1>13, <1>14, <1>15, <1>16
     DEF Next, Step

\* The inductive invariant holds in every behaviour.
THEOREM Invariant == Spec => []IInv
<1>1. Init => IInv
  <2> SUFFICES ASSUME Init PROVE IInv
    OBVIOUS
  <2>1. TypeOK
    BY RestTicks DEF Init, TypeOK, Row, Status, Election!LeaseInit, Election!Lefts, Election!Stale
  <2>2. HoldsItsRow /\ SingleRunner /\ AttemptsWithinLimit
    BY RestTicks DEF Init, HoldsItsRow, SingleRunner, AttemptsWithinLimit
  <2> QED BY <2>1, <2>2 DEF IInv
<1> QED BY <1>1, NextKeeps, PTL DEF Spec

\* Every variable keeps its type; in particular no tick drains more than its batch.
THEOREM TypeCorrect == Spec => []TypeOK
BY Invariant, PTL DEF IInv

\* Claiming is safe under any overlap of pollers: a job is never in two hands.
THEOREM OneRunner == Spec => []SingleRunner
BY Invariant, PTL DEF IInv

\* No job runs more often than maxAttempts, and DEAD means exactly that often.
THEOREM RetryLimit == Spec => []AttemptsWithinLimit
BY Invariant, PTL DEF IInv

-----------------------------------------------------------------------------
\* Without a failing write, a job whose handler succeeded is COMPLETED, or it is
\* RUNNING and nobody is about to do anything else with it than complete it.
OnceInv ==
  faults = 0 =>
    \A j \in Job :
      done[j] # 0 =>
        /\ done[j] = 1
        /\ job[j].status \in {"COMPLETED", "RUNNING"}
        /\ \A i \in Instance, s \in Slot :
             (Busy(tick[i][s]) /\ tick[i][s].job = j) => tick[i][s].pc = "completing"

\* One step keeps it: a claim takes PENDING rows only, a success sets done of a
\* job that nobody else holds.
LEMMA NextOnce == ASSUME IInv, IInv', OnceInv, [Next]_vars PROVE OnceInv'
<1>0. TypeOK /\ TypeOK'
  BY DEF IInv
<1>1. ASSUME NEW j \in Job, NEW d \in Delays, Enqueue(j, d) PROVE OnceInv'
  <2>1. faults = 0 => done[j] = 0
    BY <1>1, <1>0 DEF Enqueue, OnceInv, TypeOK
  <2>2. \A k \in Job : job'[k] = job[k] \/ k = j
    BY <1>1, <1>0 DEF Enqueue, Fresh, TypeOK
  <2> QED BY <1>1, <2>1, <2>2 DEF Enqueue, OnceInv
<1>2. ASSUME NEW j \in Job, RetryDead(j) PROVE OnceInv'
  <2>1. faults = 0 => done[j] = 0
    BY <1>2, <1>0 DEF RetryDead, OnceInv, TypeOK
  <2>2. \A k \in Job : job'[k] = job[k] \/ k = j
    BY <1>2, <1>0 DEF RetryDead, Fresh, TypeOK
  <2> QED BY <1>2, <2>1, <2>2 DEF RetryDead, OnceInv
<1>3. ASSUME NEW i \in Instance, NEW s \in Slot, NEW t \in Tick, ~Busy(t), SetTick(i, s, t),
             UNCHANGED job, UNCHANGED done, UNCHANGED faults
      PROVE  OnceInv'
  <2>1. \A k \in Instance, r \in Slot : tick'[k][r] = IF k = i /\ r = s THEN t ELSE tick[k][r]
    BY <1>3, <1>0, SetTickEffect
  <2> QED BY <1>3, <2>1 DEF OnceInv
<1>4. ASSUME NEW i \in Instance, NEW s \in Slot, NEW j \in Job, Claim(i, s, j) PROVE OnceInv'
  <2>1. PICK t \in Tick : SetTick(i, s, t) /\ t.job = j
    <3>1. tick[i][s].drained \in 0 .. MaxPerTick /\ job[j].attempts \in Nat
      BY <1>0 DEF TypeOK, Tick, Row
    <3> QED BY <1>4, <3>1 DEF Claim, Tick
  <2>2. \A k \in Instance, r \in Slot : tick'[k][r] = IF k = i /\ r = s THEN t ELSE tick[k][r]
    BY <1>0, <2>1, SetTickEffect
  <2>3. faults = 0 => done[j] = 0
    BY <1>4 DEF Claim, Earliest, Due, OnceInv
  <2>4. \A k \in Job : job'[k] = job[k] \/ k = j
    BY <1>4, <1>0 DEF Claim, Claimed, TypeOK
  <2> QED BY <1>4, <2>1, <2>2, <2>3, <2>4 DEF Claim, OnceInv
<1>5. ASSUME NEW i \in Instance, NEW s \in Slot, HandlerSucceeds(i, s) PROVE OnceInv'
  <2> DEFINE j == tick[i][s].job
  <2>1. tick[i][s] \in Tick /\ Busy(tick[i][s]) /\ j \in Job /\ job[j].status = "RUNNING"
    BY <1>5, <1>0 DEF HandlerSucceeds, IInv, HoldsItsRow, TypeOK, Busy
  <2>2. PICK t \in Tick : SetTick(i, s, t) /\ t.pc = "completing" /\ t.job = j
    BY <1>5, <2>1 DEF HandlerSucceeds, Tick
  <2>3. \A k \in Instance, r \in Slot : tick'[k][r] = IF k = i /\ r = s THEN t ELSE tick[k][r]
    BY <1>0, <2>2, SetTickEffect
  <2>4. \A k \in Instance, r \in Slot :
          (Busy(tick[k][r]) /\ tick[k][r].job = j) => (k = i /\ r = s)
    BY <2>1 DEF IInv, SingleRunner
  <2>5. faults = 0 => done[j] = 0
    BY <1>5, <2>1, <1>0 DEF HandlerSucceeds, OnceInv, TypeOK
  <2>6. /\ UNCHANGED job /\ UNCHANGED faults
        /\ done'[j] = IF done[j] < 2 THEN done[j] + 1 ELSE 2
        /\ \A k \in Job : k # j => done'[k] = done[k]
    BY <1>5, <1>0, <2>1 DEF HandlerSucceeds, TypeOK
  <2>7. ASSUME faults' = 0, NEW k \in Job, done'[k] # 0,
               NEW m \in Instance, NEW r \in Slot, Busy(tick'[m][r]), tick'[m][r].job = k
        PROVE  tick'[m][r].pc = "completing"
    <3>1. CASE k = j
      BY <2>2, <2>3, <2>4, <2>7, <3>1
    <3>2. CASE k # j
      <4>1. tick'[m][r] = tick[m][r] /\ done[k] # 0 /\ faults = 0
        BY <2>2, <2>3, <2>6, <2>7, <3>2
      <4> QED BY <2>7, <4>1 DEF OnceInv
    <3> QED BY <3>1, <3>2
  <2>8. ASSUME faults' = 0, NEW k \in Job, done'[k] # 0
        PROVE  done'[k] = 1 /\ job'[k].status \in {"COMPLETED", "RUNNING"}
    <3>1. CASE k = j
      BY <2>1, <2>5, <2>6, <2>8, <3>1
    <3>2. CASE k # j
      BY <2>6, <2>8, <3>2 DEF OnceInv
    <3> QED BY <3>1, <3>2
  <2> QED BY <2>7, <2>8 DEF OnceInv
<1>6. ASSUME NEW i \in Instance, NEW s \in Slot, HandlerThrows(i, s) PROVE OnceInv'
  <2> DEFINE j == tick[i][s].job
  <2>1. tick[i][s] \in Tick /\ Busy(tick[i][s]) /\ j \in Job
    BY <1>6, <1>0 DEF HandlerThrows, IInv, HoldsItsRow, TypeOK, Busy
  <2>2. PICK t \in Tick : SetTick(i, s, t) /\ t.job = j
    BY <1>6, <2>1 DEF HandlerThrows, Tick
  <2>3. \A k \in Instance, r \in Slot : tick'[k][r] = IF k = i /\ r = s THEN t ELSE tick[k][r]
    BY <1>0, <2>2, SetTickEffect
  <2>4. faults = 0 => done[j] = 0
    BY <1>6, <2>1, <1>0 DEF HandlerThrows, OnceInv, TypeOK
  <2> QED BY <1>6, <2>2, <2>3, <2>4 DEF HandlerThrows, OnceInv
<1>7. ASSUME NEW i \in Instance, NEW s \in Slot, Complete(i, s) \/ Catch(i, s) PROVE OnceInv'
  <2> DEFINE j == tick[i][s].job
  <2>1. tick[i][s].drained + 1 \in 0 .. MaxPerTick /\ j \in Job /\ Busy(tick[i][s])
    BY <1>7, HeldAttempts DEF Complete, Catch, Busy
  <2>2. PICK t \in Tick : ~Busy(t) /\ SetTick(i, s, t)
    BY <1>7, <2>1, RestTicks DEF Complete, Catch, NextJob
  <2>3. \A k \in Instance, r \in Slot : tick'[k][r] = IF k = i /\ r = s THEN t ELSE tick[k][r]
    BY <1>0, <2>2, SetTickEffect
  <2>4. \A k \in Job : k # j => job'[k] = job[k]
    BY <1>7, OutcomeKeepsAttempts DEF Complete, Catch
  <2>5. CASE Complete(i, s)
    <3>1. job'[j].status = "COMPLETED"
      BY <2>1, <2>5, <1>0 DEF Complete, Completed, TypeOK, Row
    <3> QED BY <2>2, <2>3, <2>4, <2>5, <3>1 DEF Complete, OnceInv
  <2>6. CASE Catch(i, s)
    <3>1. faults = 0 => done[j] = 0
      BY <2>1, <2>6 DEF Catch, OnceInv
    <3> QED BY <2>2, <2>3, <2>4, <2>6, <3>1 DEF Catch, OnceInv
  <2> QED BY <1>7, <2>5, <2>6
<1>8. ASSUME NEW i \in Instance, NEW s \in Slot,
             ClaimFails(i, s) \/ CompleteFails(i, s) \/ CatchFails(i, s)
      PROVE  OnceInv'
  <2>1. faults' # 0
    BY <1>8, <1>0 DEF ClaimFails, CompleteFails, CatchFails, TypeOK
  <2> QED BY <2>1 DEF OnceInv
<1>9. ASSUME NEW i \in Instance, Crash(i) PROVE OnceInv'
  <2>1. \A k \in Instance, r \in Slot : tick'[k][r] = IF k = i THEN Idle ELSE tick[k][r]
    BY <1>9, <1>0 DEF Crash, TypeOK
  <2> QED BY <1>9, <2>1, RestTicks DEF Crash, OnceInv
<1>10. ASSUME TimePasses PROVE OnceInv'
  <2>1. \A j \in Job : job'[j].status = job[j].status
    BY <1>10, <1>0 DEF TimePasses, TypeOK, Row
  <2> QED BY <1>10, <2>1 DEF TimePasses, OnceInv
<1>11. CASE UNCHANGED vars
  BY <1>11 DEF vars, OnceInv
<1>13. ASSUME NEW i \in Instance, NEW s \in Slot, ClaimUnread(i, s) PROVE OnceInv'
  <2>1. SetTick(i, s, Idle) /\ UNCHANGED done /\ UNCHANGED faults
    BY <1>13 DEF ClaimUnread
  <2>2. ASSUME NEW j \in Job, Earliest(j), job' = Claimed(j) PROVE OnceInv'
    <3>1. \A k \in Instance, r \in Slot : tick'[k][r] = IF k = i /\ r = s THEN Idle ELSE tick[k][r]
      BY <1>0, <2>1, RestTicks, SetTickEffect
    <3>2. faults = 0 => done[j] = 0
      BY <2>2 DEF Earliest, Due, OnceInv
    <3>3. \A k \in Job : job'[k] = job[k] \/ k = j
      BY <2>2, <1>0 DEF Claimed, TypeOK
    <3> QED BY <2>1, <3>1, <3>2, <3>3, RestTicks DEF OnceInv
  <2>3. CASE UNCHANGED job
    BY <1>3, <2>1, <2>3, RestTicks
  <2> QED BY <1>13, <2>2, <2>3 DEF ClaimUnread
<1>12. ASSUME NEW i \in Instance, NEW s \in Slot, StartTick(i, s) \/ StopTick(i, s)
       PROVE  OnceInv'
  BY <1>3, <1>12, RestTicks DEF StartTick, StopTick
<1> QED
  BY <1>1, <1>2, <1>4, <1>5, <1>6, <1>7, <1>8, <1>9, <1>10, <1>11, <1>12, <1>13 DEF Next, Step

\* As long as no write fails no handler succeeds twice for one job, although ticks
\* overlap and processes die at any point.
THEOREM ExactlyOnce == Spec => []OnceWithoutFaults
<1>1. Init => OnceInv
  BY DEF Init, OnceInv
<1>2. OnceInv /\ TypeOK => OnceWithoutFaults
  BY DEF OnceInv, OnceWithoutFaults, TypeOK
<1>3. IInv /\ IInv' /\ OnceInv /\ [Next]_vars => OnceInv'
  BY NextOnce
<1> QED BY <1>1, <1>2, <1>3, Invariant, TypeCorrect, PTL DEF Spec

-----------------------------------------------------------------------------
Running == [i \in Instance |-> {s \in Slot : tick[i][s].pc # "idle"}]

\* A step of one tick adds it to the running ones of its process, or removes it.
LEMMA RunningEffect ==
  ASSUME TypeOK, NEW i \in Instance, NEW s \in Slot, NEW t \in Tick, SetTick(i, s, t)
  PROVE  Running' = [Running EXCEPT ![i] = IF t.pc = "idle" THEN @ \ {s} ELSE @ \union {s}]
<1>1. \A k \in Instance, r \in Slot : tick'[k][r] = IF k = i /\ r = s THEN t ELSE tick[k][r]
  BY SetTickEffect
<1>2. \A k \in Instance : k # i => Running'[k] = Running[k]
  BY <1>1 DEF Running
<1>3. Running'[i] = IF t.pc = "idle" THEN Running[i] \ {s} ELSE Running[i] \union {s}
  BY <1>1 DEF Running
<1> QED BY <1>2, <1>3 DEF Running

\* A step of a tick that is under way and stays so is no step of the election.
LEMMA RunningGoesOn ==
  ASSUME TypeOK, NEW i \in Instance, NEW s \in Slot, NEW t \in Tick, SetTick(i, s, t),
         tick[i][s].pc # "idle", t.pc # "idle"
  PROVE  Running' = Running
<1>1. Running' = [Running EXCEPT ![i] = @ \union {s}]
  BY RunningEffect
<1>2. Running[i] \union {s} = Running[i]
  BY DEF Running
<1>3. \A k \in Instance : Running'[k] = Running[k]
  BY <1>1, <1>2 DEF Running
<1> QED BY <1>3 DEF Running

\* Every step of the queue is a step of Lease, or leaves its variables alone.
LEMMA NextElects ==
  ASSUME IInv, [Next]_vars
  PROVE  [Election!Next]_(Election!vars)
<1> USE RestTicks
<1>0. TypeOK
  BY DEF IInv
<1>1. ASSUME NEW i \in Instance, NEW s \in Slot, StartTick(i, s)
      PROVE  Election!TickStarts(i, s)
  <2>1. s \notin Running[i] /\ Election!TryAcquire(i) /\ SetTick(i, s, Polling(0))
    BY <1>1 DEF StartTick, Running
  <2>2. Polling(0).pc # "idle"
    BY DEF Polling
  <2>3. Running' = [Running EXCEPT ![i] = @ \union {s}]
    BY <1>0, <2>1, <2>2, RunningEffect
  <2> QED BY <2>1, <2>3 DEF Election!TickStarts, Running
<1>2. ASSUME NEW i \in Instance, NEW s \in Slot, tick[i][s].pc # "idle",
             SetTick(i, s, Idle), UNCHANGED leaseVars
      PROVE  Election!TickEnds(i, s)
  <2>1. Running' = [Running EXCEPT ![i] = @ \ {s}]
    BY <1>0, <1>2, RunningEffect DEF Idle
  <2> QED BY <1>2, <2>1 DEF Election!TickEnds, Running, leaseVars
<1>3. ASSUME NEW i \in Instance, NEW s \in Slot, NEW t \in Tick, SetTick(i, s, t),
             tick[i][s].pc # "idle", t.pc # "idle", UNCHANGED leaseVars
      PROVE  UNCHANGED Election!vars
  BY <1>0, <1>3, RunningGoesOn DEF Election!vars, Running, leaseVars
<1>4. ASSUME UNCHANGED tick, UNCHANGED leaseVars PROVE UNCHANGED Election!vars
  BY <1>4 DEF Election!vars, leaseVars
<1>5. ASSUME NEW i \in Instance, NEW s \in Slot, NEW p \in {"completing", "catching"},
             tick[i][s].pc # "idle", SetTick(i, s, [tick[i][s] EXCEPT !.pc = p]),
             UNCHANGED leaseVars
      PROVE  UNCHANGED Election!vars
  <2>1. tick[i][s] \in Tick
    BY <1>0 DEF TypeOK
  <2>2. PICK t \in Tick : t = [tick[i][s] EXCEPT !.pc = p]
    BY <2>1 DEF Tick
  <2>3. t.pc # "idle"
    BY <2>1, <2>2 DEF Tick
  <2> QED BY <1>3, <1>5, <2>2, <2>3
<1>6. ASSUME NEW i \in Instance, NEW s \in Slot, NEW j \in Job, Claim(i, s, j)
      PROVE  UNCHANGED Election!vars
  <2>1. tick[i][s].drained \in 0 .. MaxPerTick /\ job[j].attempts \in Nat
    BY <1>0 DEF TypeOK, Tick, Row
  <2> DEFINE t == [pc |-> "running", job |-> j, attempts |-> job[j].attempts + 1,
                   drained |-> tick[i][s].drained]
  <2>2. t \in Tick /\ t.pc # "idle"
    BY <2>1 DEF Tick
  <2>3. SetTick(i, s, t) /\ tick[i][s].pc # "idle" /\ UNCHANGED leaseVars
    BY <1>6 DEF Claim
  <2> HIDE DEF t
  <2> QED BY <1>3, <2>2, <2>3
<1>7. ASSUME NEW i \in Instance, NEW s \in Slot, Complete(i, s) \/ Catch(i, s)
      PROVE  UNCHANGED Election!vars
  <2>1. tick[i][s].drained + 1 \in 0 .. MaxPerTick
    BY <1>7, HeldAttempts DEF Complete, Catch
  <2>2. PICK t \in Tick : SetTick(i, s, t) /\ t.pc # "idle"
    BY <1>7, <2>1 DEF Complete, Catch, NextJob, Polling
  <2> QED BY <1>3, <1>7, <2>2 DEF Complete, Catch
<1>8. ASSUME NEW i \in Instance, Crash(i) PROVE Election!Crash(i)
  <2>1. \A k \in Instance, r \in Slot : tick'[k][r] = IF k = i THEN Idle ELSE tick[k][r]
    BY <1>0, <1>8 DEF Crash, TypeOK
  <2>2. \A k \in Instance : Running'[k] = IF k = i THEN {} ELSE Running[k]
    BY <2>1 DEF Running, Idle
  <2>3. Running' = [Running EXCEPT ![i] = {}]
    BY <2>2 DEF Running
  <2> QED BY <1>8, <2>3 DEF Crash, Election!Crash, Running
<1>9. ASSUME TimePasses PROVE Election!TimePasses
  BY <1>9 DEF TimePasses, Election!TimePasses
<1>10. CASE \E j \in Job : (\E d \in Delays : Enqueue(j, d)) \/ RetryDead(j)
  BY <1>4, <1>10 DEF Enqueue, RetryDead
<1>11. ASSUME NEW i \in Instance, NEW s \in Slot,
              StopTick(i, s) \/ ClaimFails(i, s) \/ ClaimUnread(i, s) \/ CatchFails(i, s)
       PROVE  Election!TickEnds(i, s)
  BY <1>2, <1>11 DEF StopTick, ClaimFails, ClaimUnread, CatchFails
<1>12. ASSUME NEW i \in Instance, NEW s \in Slot,
              HandlerSucceeds(i, s) \/ HandlerThrows(i, s) \/ CompleteFails(i, s)
       PROVE  UNCHANGED Election!vars
  BY <1>5, <1>12 DEF HandlerSucceeds, HandlerThrows, CompleteFails
<1>13. CASE UNCHANGED vars
  BY <1>4, <1>13 DEF vars, leaseVars
<1> QED
  BY <1>1, <1>6, <1>7, <1>8, <1>9, <1>10, <1>11, <1>12, <1>13
     DEF Next, Step, Election!Next

\* Through its ticks and its lease row the queue implements the election.
THEOREM QueueElects == Spec => LeaderElected
<1>1. Init => Election!Init
  BY RestTicks DEF Init, Election!Init, Idle
<1>2. IInv /\ [Next]_vars => [Election!Next]_(Election!vars)
  BY NextElects
<1> QED BY <1>1, <1>2, Invariant, PTL DEF Spec, LeaderElected, Election!Spec

Leader == INSTANCE LeaseProofs WITH
  running <- [i \in Instance |-> {s \in Slot : tick[i][s].pc # "idle"}]

\* Two processes poll the queue at the same time only when a tick has outlived
\* the part of its lease that no clock difference can shorten.
THEOREM PollersAlone == Spec => []Election!TimelyTicksAlone
<1>1. Leader!LeaseAssumption
  BY DEF Leader!LeaseAssumption
<1>2. Leader!Spec => []Leader!TimelyTicksAlone
  BY <1>1, Leader!TimelyTicks
<1>3. Election!Init => Leader!Init
  BY DEF Election!Init, Election!LeaseInit, Election!Stale,
         Leader!Init, Leader!LeaseInit, Leader!Stale
<1>4. [Election!Next]_(Election!vars) => [Leader!Next]_(Leader!vars)
  BY DEF
     Election!Next, Election!vars, Election!TickStarts, Election!TickEnds,
     Election!GiveUp, Election!Crash, Election!TimePasses, Election!TryAcquire,
     Election!Release, Election!LoseHolder, Election!Age, Election!Winnable,
     Election!Skews, Election!Stale, Leader!Next, Leader!vars,
     Leader!TickStarts, Leader!TickEnds, Leader!GiveUp, Leader!Crash,
     Leader!TimePasses, Leader!TryAcquire, Leader!Release, Leader!LoseHolder,
     Leader!Age, Leader!Winnable, Leader!Skews, Leader!Stale
<1>5. Leader!TimelyTicksAlone => Election!TimelyTicksAlone
  BY DEF Leader!TimelyTicksAlone, Election!TimelyTicksAlone
<1> QED BY <1>2, <1>3, <1>4, <1>5, QueueElects, PTL
           DEF LeaderElected, Election!Spec, Leader!Spec
=============================================================================
